----------------------------- MODULE InputGuard -----------------------------
(***************************************************************************)
(* What the agent's input path promises the person at the host: remote     *)
(* input may put keys and buttons down, but whatever is down is under an   *)
(* armed inactivity watchdog that eventually lifts all of it.              *)
(*                                                                         *)
(* InputControl implements this specification; HostAgent uses its actions  *)
(* for the controller it owns.                                             *)
(*                                                                         *)
(* Time is counted in ticks and kept as an age: idle is the number of      *)
(* ticks since the last applied input, saturated at WatchdogTicks because  *)
(* the code only asks whether the watchdog window has passed.              *)
(***************************************************************************)
EXTENDS Integers

CONSTANTS
    Inputs,         \* virtual keys and mouse buttons of the host
    WatchdogTicks   \* the watchdog window (3.0 s in the code)

VARIABLES
    down,   \* inputs the remote side holds down on the host
    idle    \* ticks since the last applied input, or NotArmed

guardVars == <<down, idle>>

\* _last_activity is None: the watchdog has nothing to expire.
NotArmed == -1

GuardTypeOK ==
    /\ down \subseteq Inputs
    /\ idle \in NotArmed..WatchdogTicks

GuardInit ==
    /\ down = {}
    /\ idle = NotArmed

\* One applied message moves at most one input, and counts as activity.
Apply(d) ==
    /\ \/ d = down
       \/ \E i \in Inputs : d \in {down \union {i}, down \ {i}}
    /\ down' = d
    /\ idle' = 0

Activity == \E d \in SUBSET Inputs : Apply(d)

\* control.release-all: everything up, and the message itself is activity.
ReleaseAllMessage ==
    /\ down' = {}
    /\ idle' = 0

\* The controller is dropped (teardown, revocation, emergency stop).
Drop ==
    /\ down' = {}
    /\ idle' = NotArmed

Expired == idle = WatchdogTicks

\* on_watchdog_tick() once the window has passed.
Expire ==
    /\ Expired
    /\ down' = {}
    /\ idle' = NotArmed

Older(age) == IF age \in {NotArmed, WatchdogTicks} THEN age ELSE age + 1

GuardTick ==
    /\ idle' = Older(idle)
    /\ UNCHANGED down

GuardNext ==
    \/ Activity
    \/ ReleaseAllMessage
    \/ Drop
    \/ Expire
    \/ GuardTick

GuardSpec ==
    /\ GuardInit
    /\ [][GuardNext]_guardVars
    /\ WF_guardVars(Expire)
    /\ WF_guardVars(GuardTick)

(***************************************************************************)
(* The promise itself.                                                     *)
(***************************************************************************)

\* Whatever is held down on the host is under an armed watchdog.
HeldIsArmed == down # {} => idle # NotArmed

\* Input is either renewed for ever or lifted again and again: a viewer that
\* falls silent never leaves a key or a button down.
SilenceReleases == []<>(down = {} \/ idle = 0)
=============================================================================
