---------------------------- MODULE InputControl ----------------------------
(***************************************************************************)
(* The agent's InputController (input_control.py) with the Windows sink it *)
(* drives (windows_input.py).  The controller validates one control        *)
(* message at a time, keeps the set of inputs it pressed, limits the rate  *)
(* of moves and of actions, and lifts everything on release-all, on the    *)
(* watchdog and on teardown.                                               *)
(*                                                                         *)
(* Coordinates and text are abstracted to the checks the code makes on     *)
(* them; key codes keep their map to virtual keys, which is not injective  *)
(* (Enter and NumpadEnter are both VK_RETURN).  Timestamps in the sliding  *)
(* windows are kept as ages, oldest first, as in the deques of the code.   *)
(***************************************************************************)
EXTENDS SlidingWindow

CONSTANTS
    KeyCode,        \* codes matched by _KEY_CODE_RE
    OtherCode,      \* codes a message may carry that it does not match
    VirtualKey,     \* [KeyCode -> virtual key], _VIRTUAL_KEYS
    ReturnKey,      \* VK_RETURN, which type_text presses for a newline
    Button,         \* _BUTTONS
    ActionLimit,    \* action_rate_limit_per_second
    MoveLimit,      \* rate_limit_per_second
    WindowTicks,    \* ticks in the 1.0 s rate window
    WatchdogTicks,  \* ticks in watchdog_seconds
    MaxSequence     \* bound: largest sequence number a message carries

Inputs == {VirtualKey[c] : c \in KeyCode} \union {ReturnKey} \union Button

ASSUME KeyAssumption ==
    /\ KeyCode \intersect OtherCode = {}
    /\ DOMAIN VirtualKey = KeyCode

ASSUME LimitAssumption ==
    /\ ActionLimit \in Nat \ {0}
    /\ MoveLimit \in Nat \ {0}
    /\ WindowTicks \in Nat \ {0}
    /\ WatchdogTicks \in Nat \ {0}
    /\ MaxSequence \in Nat

VARIABLES
    source,           \* is the captured desktop size known (_source)?
    last_sequence,    \* _last_sequence
    pressed_buttons,  \* _pressed_buttons
    pressed_keys,     \* _pressed_keys
    move_times,       \* ages of the admitted moves, oldest first
    action_times,     \* ages of the admitted actions, oldest first
    last_activity,    \* age of _last_activity, or NotArmed
    host_down,        \* what Windows holds down because of this sink
    action_log        \* history: ages of the limited inputs this controller injected

controller == <<source, last_sequence, pressed_buttons, pressed_keys,
                move_times, action_times, last_activity>>
vars == <<source, last_sequence, pressed_buttons, pressed_keys,
          move_times, action_times, last_activity, host_down, action_log>>

Guard == INSTANCE InputGuard WITH down <- host_down, idle <- last_activity

NotArmed == -1

TypeOK ==
    /\ source \in BOOLEAN
    /\ last_sequence \in -1..MaxSequence
    /\ pressed_buttons \subseteq Button
    /\ pressed_keys \subseteq KeyCode
    /\ move_times \in Seq(0..(WindowTicks + 1))
    /\ action_times \in Seq(0..(WindowTicks + 1))
    /\ last_activity \in NotArmed..WatchdogTicks
    /\ host_down \subseteq Inputs
    /\ action_log \in Seq(0..WindowTicks)

\* __init__(): the rest of a fresh controller; no input is tracked yet.
FreshController ==
    /\ source' = FALSE
    /\ last_sequence' = -1
    /\ move_times' = <<>>
    /\ action_times' = <<>>
    /\ last_activity' = NotArmed

Init ==
    /\ source = FALSE
    /\ last_sequence = -1
    /\ pressed_buttons = {}
    /\ pressed_keys = {}
    /\ move_times = <<>>
    /\ action_times = <<>>
    /\ last_activity = NotArmed
    /\ host_down = {}
    /\ action_log = <<>>

-----------------------------------------------------------------------------
(* Sliding windows: the popleft() loops *)

\* Moves leave the window when strictly older than 1.0 s, actions at 1.0 s.
LiveMoves == DropOlder(move_times, WindowTicks + 1)

LiveActions == DropOlder(action_times, WindowTicks)

\* Mutant: one action too many per window.
AllowOneMore == Len(LiveActions) <= ActionLimit

\* _allow_action()
AllowAction == Len(LiveActions) < ActionLimit

SpendAction ==
    action_times' = IF AllowAction THEN Append(LiveActions, 0) ELSE LiveActions

-----------------------------------------------------------------------------
(* Messages *)

Tracked == {VirtualKey[c] : c \in pressed_keys} \union pressed_buttons

\* Mutant: release_all() forgets the buttons.
ReleaseKeysOnly ==
    /\ host_down' = host_down \ {VirtualKey[c] : c \in pressed_keys}
    /\ pressed_buttons' = {}
    /\ pressed_keys' = {}

\* release_all(): an "up" for every tracked input, then forget them.
ReleaseAll ==
    /\ host_down' = host_down \ Tracked
    /\ pressed_buttons' = {}
    /\ pressed_keys' = {}

\* Mutant: the last message may be repeated.
FreshOrSame(seq) == seq >= last_sequence

Fresh(seq) == seq > last_sequence

\* handle(): the sequence is consumed before the event is looked at, and only
\* an applied message counts as activity.
Consume(seq, applied) ==
    /\ Fresh(seq)
    /\ last_sequence' = seq
    /\ last_activity' = IF applied THEN 0 ELSE last_activity

LogAction(applied) ==
    action_log' = IF applied THEN Append(action_log, 0) ELSE action_log

\* _move(): inUnit stands for the range check on x and y, onDesktop for a
\* point that is not on the letterbox bars.
Move(seq, inUnit, onDesktop) ==
    LET considered == source /\ inUnit
        admitted == considered /\ Len(LiveMoves) < MoveLimit
    IN  /\ Consume(seq, admitted /\ onDesktop)
        /\ move_times' = IF admitted THEN Append(LiveMoves, 0)
                         ELSE IF considered THEN LiveMoves ELSE move_times
        /\ UNCHANGED <<source, pressed_buttons, pressed_keys, action_times,
                       host_down, action_log>>

\* control.release-all never meets a limiter.
ReleaseAllMessage(seq) ==
    /\ Consume(seq, TRUE)
    /\ ReleaseAll
    /\ UNCHANGED <<source, move_times, action_times, action_log>>

ButtonDown(seq, b) ==
    LET applied == AllowAction /\ b \in Button
    IN  /\ Consume(seq, applied)
        /\ SpendAction
        /\ pressed_buttons' = IF applied THEN pressed_buttons \union {b}
                              ELSE pressed_buttons
        /\ host_down' = IF applied THEN host_down \union {b} ELSE host_down
        /\ LogAction(applied)
        /\ UNCHANGED <<source, pressed_keys, move_times>>

\* Releases are exempt from the action budget.
ButtonUp(seq, b) ==
    LET applied == b \in Button
    IN  /\ Consume(seq, applied)
        /\ pressed_buttons' = pressed_buttons \ {b}
        /\ host_down' = IF applied THEN host_down \ {b} ELSE host_down
        /\ UNCHANGED <<source, pressed_keys, move_times, action_times, action_log>>

KeyDown(seq, code) ==
    LET applied == AllowAction /\ code \in KeyCode
    IN  /\ Consume(seq, applied)
        /\ SpendAction
        /\ pressed_keys' = IF applied THEN pressed_keys \union {code}
                           ELSE pressed_keys
        /\ host_down' = IF applied THEN host_down \union {VirtualKey[code]}
                        ELSE host_down
        /\ LogAction(applied)
        /\ UNCHANGED <<source, pressed_buttons, move_times>>

KeyUp(seq, code) ==
    LET applied == code \in KeyCode
    IN  /\ Consume(seq, applied)
        /\ pressed_keys' = pressed_keys \ {code}
        /\ host_down' = IF applied THEN host_down \ {VirtualKey[code]}
                        ELSE host_down
        /\ UNCHANGED <<source, pressed_buttons, move_times, action_times,
                       action_log>>

\* _wheel(): valid stands for the clamp on both deltas.
Wheel(seq, valid) ==
    LET applied == AllowAction /\ valid
    IN  /\ Consume(seq, applied)
        /\ SpendAction
        /\ LogAction(applied)
        /\ UNCHANGED <<source, pressed_buttons, pressed_keys, move_times, host_down>>

\* Mutant: a newline presses Enter and never releases it.
TextHoldsEnter(seq, safe, newline) ==
    LET applied == AllowAction /\ safe
    IN  /\ Consume(seq, applied)
        /\ SpendAction
        /\ host_down' = IF applied /\ newline THEN host_down \union {ReturnKey}
                        ELSE host_down
        /\ LogAction(applied)
        /\ UNCHANGED <<source, pressed_buttons, pressed_keys, move_times>>

\* type_text(): characters are pressed and released at once, and a newline does so
\* with VK_RETURN, lifting it if it was held.
TypeText(newline) ==
    host_down' = IF newline THEN host_down \ {ReturnKey} ELSE host_down

\* _text(): safe stands for the check of the characters.
Text(seq, safe, newline) ==
    LET applied == AllowAction /\ safe
    IN  /\ Consume(seq, applied)
        /\ SpendAction
        /\ TypeText(applied /\ newline)
        /\ LogAction(applied)
        /\ UNCHANGED <<source, pressed_buttons, pressed_keys, move_times>>

\* An event _dispatch() does not know: only the sequence is consumed.
UnknownEvent(seq) ==
    /\ Consume(seq, FALSE)
    /\ UNCHANGED <<source, pressed_buttons, pressed_keys, move_times,
                   action_times, host_down, action_log>>

-----------------------------------------------------------------------------
(* Calls from the agent *)

\* set_source_size(), once the video track reports its source.
SetSourceSize ==
    /\ source' = TRUE
    /\ UNCHANGED <<last_sequence, pressed_buttons, pressed_keys, move_times,
                   action_times, last_activity, host_down, action_log>>

WatchdogExpired == last_activity = WatchdogTicks

\* on_watchdog_tick()
WatchdogTick ==
    /\ WatchdogExpired
    /\ ReleaseAll
    /\ last_activity' = NotArmed
    /\ UNCHANGED <<source, last_sequence, move_times, action_times, action_log>>

\* _stop_control_runtime() drops the controller after release_all(); the next
\* grant starts a fresh one on the same host, whose window is empty; action_log is
\* the history of the present controller and starts again with it.
Teardown ==
    /\ ReleaseAll
    /\ action_log' = <<>>
    /\ FreshController

Tick ==
    /\ move_times' = Grow(move_times, WindowTicks + 1)
    /\ action_times' = Grow(action_times, WindowTicks + 1)
    /\ last_activity' = IF last_activity \in {NotArmed, WatchdogTicks}
                        THEN last_activity ELSE last_activity + 1
    /\ action_log' = DropOlder(Grow(action_log, WindowTicks), WindowTicks)
    /\ UNCHANGED <<source, last_sequence, pressed_buttons, pressed_keys, host_down>>

Message(seq) ==
    \/ \E inUnit, onDesktop \in BOOLEAN : Move(seq, inUnit, onDesktop)
    \/ ReleaseAllMessage(seq)
    \/ \E b \in Button : ButtonDown(seq, b) \/ ButtonUp(seq, b)
    \/ \E code \in KeyCode \union OtherCode : KeyDown(seq, code) \/ KeyUp(seq, code)
    \/ \E valid \in BOOLEAN : Wheel(seq, valid)
    \/ \E safe, newline \in BOOLEAN : Text(seq, safe, newline)
    \/ UnknownEvent(seq)

Next ==
    \/ \E seq \in 0..MaxSequence : Message(seq)
    \/ SetSourceSize
    \/ WatchdogTick
    \/ Teardown
    \/ Tick

\* The agent calls on_watchdog_tick() every second while the controller lives,
\* and time passes; nothing obliges the viewer to send anything.
Spec ==
    /\ Init
    /\ [][Next]_vars
    /\ WF_vars(WatchdogTick)
    /\ WF_vars(Tick)

-----------------------------------------------------------------------------
(* Properties *)

\* Every input Windows holds down is one the controller still tracks, so every
\* release path (message, watchdog, teardown) lifts all of it.
NothingStuck == host_down \subseteq Tracked

\* Whatever the controller tracks is under an armed watchdog: there is no order
\* of presses, refused messages and expiries after which a held key would never
\* time out.
TrackedIsArmed == Tracked # {} => last_activity # NotArmed

\* At most ActionLimit limited inputs are injected by one controller in any window of one
\* second, however presses, refused messages and the pruning of the window follow each
\* other.  A new controller starts with an empty window, so two of them, one after the
\* other within a second, may inject up to twice as many.
ActionRateBounded == Len(action_log) <= ActionLimit

\* A press never happens without consuming a sequence number above every one
\* consumed by this controller, so a duplicated or late message, and any
\* message older than a release-all, cannot press anything.
PressConsumesSequence ==
    [][~(host_down' \subseteq host_down) => last_sequence' > last_sequence]_vars

\* The controller implements the promise of InputGuard: whatever it holds down is
\* watched, and a viewer that falls silent never leaves a key or a button down.
ImplementsGuard == Guard!GuardSpec
=============================================================================
