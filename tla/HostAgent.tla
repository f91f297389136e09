----------------------------- MODULE HostAgent -----------------------------
(***************************************************************************)
(* The control grant and the peer lifecycle of the host agent (M0Agent in  *)
(* __main__.py).                                                           *)
(*                                                                         *)
(* The agent is one asyncio loop.  Its main coroutine (run_forever / run / *)
(* _handle_message / _answer_offer) is cut at its awaits: `main` says      *)
(* where it is suspended, and `after` what follows the _close_peer() it is *)
(* suspended in.  Everything that can run at such a point is an action of  *)
(* its own: data channel callbacks, the input watchdog task, policy        *)
(* updates, the tray and the emergency hotkey (both marshalled onto the    *)
(* loop with call_soon_threadsafe), and time.                              *)
(*                                                                         *)
(* aiortc is external: it may take any time to open a channel, drop one,   *)
(* or finish close(), and a close() that times out leaves the old          *)
(* connection alive.  Deadlines are kept as remaining ticks or ages.       *)
(***************************************************************************)
EXTENDS Integers

CONSTANTS
    Session,        \* session ids a viewer's ticket may carry
    Bootstrap,      \* the id the agent's own token carries
    PeerId,         \* identities for RTCPeerConnections, reused once dead
    NoPeer,
    Inputs,         \* what can be held down on the host
    SinkResult,     \* outcomes of create_input_sink(): TRUE or an exception
    LeaseTicks,     \* CONTROL_GRANT_TTL_MS
    HealthTicks,    \* CONTROL_PEER_HEALTH_TIMEOUT_SECONDS
    WatchdogTicks   \* watchdog_seconds of the input controller

ASSUME AgentAssumption ==
    /\ Bootstrap \notin Session
    /\ NoPeer \notin PeerId
    /\ SinkResult \subseteq BOOLEAN
    /\ LeaseTicks \in Nat \ {0}
    /\ HealthTicks \in Nat
    /\ WatchdogTicks \in Nat \ {0}

VARIABLES
    control_enabled,   \* local policy (environment opt-in, tray checkbox)
    emergency_locked,  \* the emergency stop was used in this process
    granted_control,
    expires,           \* ticks until _control_expires_at_ms, or NoLease
    pending_sink,      \* _pending_input_sink is prepared
    session_id,
    websocket,         \* "none", "open" or "dead" (still set while run() unwinds)
    main,              \* where run_forever() is suspended
    after,             \* where it goes once _close_peer() returns
    peer,              \* _peer
    closing,           \* the connection whose close() is awaited
    conn,              \* connectionState of each RTCPeerConnection
    chan,              \* readyState of its control-v1 channel
    owner,             \* the session whose viewer offered it
    control_channel,   \* _control_channel, named by its connection
    last_ping,         \* age of _last_control_ping_monotonic, or NoPing
    controller,        \* _input_controller exists
    watchdog,          \* _watchdog_task exists
    down, idle,        \* the controller's guarded inputs, see InputGuard
    policy_queued,     \* a _send_policy_update() task is scheduled
    told,              \* the permission the viewer was last told
    status             \* what the tray shows

policyVars == <<control_enabled, emergency_locked>>
grantVars == <<granted_control, expires, pending_sink>>
runtimeVars == <<controller, watchdog, down, idle>>
signalVars == <<session_id, websocket, main, after>>
connVars == <<peer, closing, conn, chan, owner>>
channelVars == <<control_channel, last_ping>>
noticeVars == <<policy_queued, told, status>>
vars == <<policyVars, grantVars, runtimeVars, signalVars, connVars, channelVars,
          noticeVars>>

Guard == INSTANCE InputGuard

NoLease == -1
NoPing == -1

AnySession == Session \union {Bootstrap}

PolicyType == control_enabled \in BOOLEAN /\ emergency_locked \in BOOLEAN

GrantType ==
    /\ granted_control \in BOOLEAN /\ pending_sink \in BOOLEAN
    /\ expires \in NoLease..LeaseTicks

RuntimeType ==
    /\ controller \in BOOLEAN /\ watchdog \in BOOLEAN
    /\ Guard!GuardTypeOK

SignalType ==
    /\ session_id \in AnySession
    /\ websocket \in {"none", "open", "dead"}
    /\ main \in {"offline", "connect", "receive", "close", "ice", "answer", "stopped"}
    /\ after \in {"receive", "ice", "offline", "stopped"}

ConnType ==
    /\ peer \in PeerId \union {NoPeer}
    /\ closing \in PeerId \union {NoPeer}
    /\ conn \in [PeerId -> {"dead", "new", "answered", "connected", "failed"}]
    /\ chan \in [PeerId -> {"none", "open", "closed"}]
    /\ owner \in [PeerId -> AnySession]

ChannelType ==
    /\ control_channel \in PeerId \union {NoPeer}
    /\ last_ping \in NoPing..(HealthTicks + 1)

NoticeType ==
    /\ policy_queued \in BOOLEAN
    /\ told \in {"nothing", "view", "control"}
    /\ status \in {"offline", "online", "viewing", "controlling", "locked"}

TypeOK ==
    /\ PolicyType /\ GrantType /\ RuntimeType
    /\ SignalType /\ ConnType /\ ChannelType /\ NoticeType

Init ==
    /\ control_enabled \in BOOLEAN /\ emergency_locked = FALSE
    /\ granted_control = FALSE /\ expires = NoLease /\ pending_sink = FALSE
    /\ controller = FALSE /\ watchdog = FALSE /\ Guard!GuardInit
    /\ session_id = Bootstrap /\ websocket = "none"
    /\ main = "offline" /\ after = "receive"
    /\ peer = NoPeer /\ closing = NoPeer
    /\ conn = [p \in PeerId |-> "dead"]
    /\ chan = [p \in PeerId |-> "none"]
    /\ owner = [p \in PeerId |-> Bootstrap]
    /\ control_channel = NoPeer /\ last_ping = NoPing
    /\ policy_queued = FALSE /\ told = "nothing" /\ status = "offline"

-----------------------------------------------------------------------------
(* Grant, runtime and notices *)

\* _control_grant_is_active()
LeaseActive == granted_control /\ expires > 0

\* Mutant: messages never notice that the grant has run out.
NeverLapsed == FALSE

Lapsed == granted_control /\ ~LeaseActive

\* Mutant: the watchdog task is not cancelled.
StopKeepsWatchdog ==
    /\ UNCHANGED watchdog
    /\ controller' = FALSE
    /\ Guard!Drop

\* _stop_control_runtime(): cancel the watchdog, release_all(), drop the controller.
StopControlRuntime ==
    /\ watchdog' = FALSE
    /\ controller' = FALSE
    /\ Guard!Drop

\* _revoke_control()
RevokeControl ==
    /\ StopControlRuntime
    /\ pending_sink' = FALSE
    /\ granted_control' = FALSE
    /\ expires' = NoLease

\* _queue_policy_update() does nothing without a websocket.
QueuePolicyUpdate == policy_queued' = (policy_queued \/ websocket # "none")

\* _notify_status(): a locked agent shows nothing else.
Notify(s) == status' = IF emergency_locked THEN "locked" ELSE s

Permission(granted) == IF granted THEN "control" ELSE "view"

SessionStatus(granted) == IF granted THEN "controlling" ELSE "viewing"

-----------------------------------------------------------------------------
(* Closing a connection *)

\* _peer_is_healthy()
PeerIsHealthy ==
    /\ peer # NoPeer /\ conn[peer] = "connected"
    /\ control_channel # NoPeer /\ chan[control_channel] = "open"
    /\ last_ping \in 0..HealthTicks

\* The tail of _close_peer() and, when run() is unwinding, of its finally block.
Resume(next) ==
    /\ main' = next
    /\ after' = "receive"
    /\ websocket' = IF next \in {"offline", "stopped"} THEN "none" ELSE websocket
    /\ IF websocket = "none" THEN UNCHANGED status
       ELSE Notify(IF next \in {"offline", "stopped"} THEN "offline" ELSE "online")

\* _close_peer() up to its await.  The connection is detached first; with none
\* to close there is nothing to await.  The grant itself survives.
ClosePeer(next) ==
    /\ StopControlRuntime
    /\ control_channel' = NoPeer
    /\ last_ping' = NoPing
    /\ peer' = NoPeer
    /\ closing' = peer
    /\ IF peer = NoPeer THEN Resume(next)
       ELSE /\ main' = "close"
            /\ after' = next
            /\ websocket' = IF next \in {"offline", "stopped"} /\ websocket = "open"
                            THEN "dead" ELSE websocket
            /\ UNCHANGED status
    /\ UNCHANGED <<conn, chan, owner>>

\* A connection is gone from aiortc: its channels close, and the close handler
\* clears _control_channel only if it is that channel.
ConnectionGone(p) ==
    /\ conn' = [conn EXCEPT ![p] = "dead"]
    /\ chan' = [chan EXCEPT ![p] = "none"]
    /\ owner' = [owner EXCEPT ![p] = Bootstrap]
    /\ control_channel' = IF control_channel = p THEN NoPeer ELSE control_channel
    /\ last_ping' = IF control_channel = p THEN NoPing ELSE last_ping

\* The awaited close() finished.
PeerCloseDone ==
    /\ main = "close"
    /\ ConnectionGone(closing)
    /\ closing' = NoPeer
    /\ Resume(after)
    /\ UNCHANGED <<policyVars, grantVars, runtimeVars, session_id, peer,
                   policy_queued, told>>

\* PEER_CLOSE_TIMEOUT_SECONDS passed: go on; the old connection lives on.
PeerCloseTimeout ==
    /\ main = "close"
    /\ closing' = NoPeer
    /\ Resume(after)
    /\ UNCHANGED <<policyVars, grantVars, runtimeVars, session_id, peer,
                   conn, chan, owner, channelVars, policy_queued, told>>

\* A connection whose close() was given up dies later.
OrphanDies(p) ==
    /\ conn[p] # "dead" /\ p \notin {peer, closing}
    /\ ConnectionGone(p)
    /\ UNCHANGED <<policyVars, grantVars, runtimeVars, signalVars, noticeVars,
                   peer, closing>>

-----------------------------------------------------------------------------
(* The signaling coroutine: run_forever(), run() and _handle_message() *)

\* The top of the reconnect loop: only a healthy peer keeps its session id.
Redial ==
    /\ main = "offline"
    /\ session_id' = IF PeerIsHealthy THEN session_id ELSE Bootstrap
    /\ main' = "connect"
    /\ UNCHANGED <<policyVars, grantVars, runtimeVars, websocket, after,
                   connVars, channelVars, noticeVars>>

Connect ==
    /\ main = "connect"
    /\ main' = "receive"
    /\ websocket' = "open"
    /\ Notify(IF PeerIsHealthy THEN SessionStatus(granted_control) ELSE "online")
    /\ UNCHANGED <<policyVars, grantVars, runtimeVars, session_id, after,
                   connVars, channelVars, policy_queued, told>>

ConnectFails ==
    /\ main = "connect"
    /\ main' = "offline"
    /\ UNCHANGED <<policyVars, grantVars, runtimeVars, session_id, websocket,
                   after, connVars, channelVars, noticeVars>>

\* run() ends: the socket closed, or _handle_message() raised (a message of
\* another session, an invalid envelope, a failed answer).  A healthy peer is
\* preserved, any other is closed; neither path revokes the grant.
LeaveRun ==
    /\ main \in {"receive", "answer"}
    /\ IF PeerIsHealthy
       THEN /\ main' = "offline"
            /\ websocket' = "none"
            /\ Notify(SessionStatus(granted_control))
            /\ UNCHANGED <<runtimeVars, after, connVars, channelVars, told>>
       ELSE /\ ClosePeer("offline")
            /\ told' = "nothing"
    /\ UNCHANGED <<policyVars, grantVars, session_id, policy_queued>>

\* Mutant: a repeated control request starts a new grant.
NeverEchoes(requested) == FALSE

\* A control request under an active grant is only echoed.
EchoesLease(requested) == requested = "control" /\ LeaseActive

CanControl(requested, sinkOk) == requested = "control" /\ control_enabled /\ sinkOk

\* session.request: the agent adopts the session.  A control request under an
\* active grant is echoed; any other one starts over.
SessionRequest(s, requested, sinkOk) ==
    /\ main = "receive"
    /\ session_id' = s
    /\ IF EchoesLease(requested)
       THEN /\ told' = "control"
            /\ UNCHANGED <<grantVars, runtimeVars>>
       ELSE LET can == CanControl(requested, sinkOk)
            IN  /\ StopControlRuntime
                /\ granted_control' = can
                /\ expires' = IF can THEN LeaseTicks ELSE NoLease
                /\ pending_sink' = can
                /\ told' = Permission(can)
    /\ UNCHANGED <<policyVars, websocket, main, after, connVars, channelVars,
                   policy_queued, status>>

\* webrtc.offer of the adopted session: replace the connection.
Offer ==
    /\ main = "receive" /\ session_id \in Session
    /\ ClosePeer("ice")
    /\ UNCHANGED <<policyVars, grantVars, session_id, policy_queued, told>>

\* session.close of the adopted session.
SessionClose ==
    /\ main = "receive" /\ session_id \in Session
    /\ ClosePeer("receive")
    /\ pending_sink' = FALSE
    /\ granted_control' = FALSE
    /\ expires' = NoLease
    /\ told' = "nothing"
    /\ UNCHANGED <<policyVars, session_id, policy_queued>>

\* _start_control(): use the prepared sink, or prepare one again for a
\* replacement peer; without one the session silently stays view-only.
StartControl(sinkOk) ==
    IF pending_sink \/ (control_enabled /\ ~emergency_locked /\ sinkOk)
    THEN /\ controller' = TRUE
         /\ watchdog' = TRUE
         /\ pending_sink' = FALSE
         /\ Notify("controlling")
         /\ UNCHANGED <<granted_control, expires, down, idle>>
    ELSE /\ RevokeControl
         /\ UNCHANGED status

\* _answer_offer() between _fetch_ice_servers() and the SDP awaits.
CreatePeer(p, sinkOk) ==
    /\ main = "ice" /\ conn[p] = "dead"
    /\ main' = "answer"
    /\ peer' = p
    /\ conn' = [conn EXCEPT ![p] = "new"]
    /\ chan' = [chan EXCEPT ![p] = "none"]
    /\ owner' = [owner EXCEPT ![p] = session_id]
    /\ IF granted_control THEN StartControl(sinkOk)
       ELSE UNCHANGED <<grantVars, runtimeVars, status>>
    /\ UNCHANGED <<policyVars, session_id, websocket, after, closing,
                   channelVars, policy_queued, told>>

\* No video source: create_video_track() raises, and run() unwinds with a
\* connection that was never answered.
CaptureFails(p) ==
    /\ main = "ice" /\ conn[p] = "dead"
    /\ conn' = [conn EXCEPT ![p] = "new"]
    /\ StopControlRuntime
    /\ peer' = NoPeer
    /\ closing' = p
    /\ main' = "close"
    /\ after' = "offline"
    /\ websocket' = "dead"
    /\ control_channel' = NoPeer
    /\ last_ping' = NoPing
    /\ told' = "nothing"
    /\ UNCHANGED <<policyVars, grantVars, session_id, chan, owner, policy_queued,
                   status>>

\* The answer is sent and the coroutine goes back to receiving.
AnswerSent ==
    /\ main = "answer"
    /\ main' = "receive"
    /\ conn' = [conn EXCEPT ![peer] = "answered"]
    /\ Notify(SessionStatus(granted_control))
    /\ UNCHANGED <<policyVars, grantVars, runtimeVars, session_id, websocket,
                   after, peer, closing, chan, owner, channelVars,
                   policy_queued, told>>

-----------------------------------------------------------------------------
(* Data channel callbacks *)

ConnectionUp(p) ==
    /\ conn[p] = "answered"
    /\ conn' = [conn EXCEPT ![p] = "connected"]
    /\ UNCHANGED <<policyVars, grantVars, runtimeVars, signalVars, noticeVars,
                   peer, closing, chan, owner, channelVars>>

ConnectionFails(p) ==
    /\ conn[p] \in {"answered", "connected"}
    /\ conn' = [conn EXCEPT ![p] = "failed"]
    /\ UNCHANGED <<policyVars, grantVars, runtimeVars, signalVars, noticeVars,
                   peer, closing, chan, owner, channelVars>>

\* on_datachannel() for control-v1; the handler does not ask whether its
\* connection is still the current one.
ChannelOpen(p) ==
    /\ conn[p] = "connected" /\ chan[p] = "none"
    /\ chan' = [chan EXCEPT ![p] = "open"]
    /\ control_channel' = p
    /\ last_ping' = NoPing
    /\ UNCHANGED <<policyVars, grantVars, runtimeVars, signalVars, noticeVars,
                   peer, closing, conn, owner>>

\* on_close() of a control channel.
ChannelClose(p) ==
    /\ chan[p] = "open"
    /\ chan' = [chan EXCEPT ![p] = "closed"]
    /\ control_channel' = IF control_channel = p THEN NoPeer ELSE control_channel
    /\ last_ping' = IF control_channel = p THEN NoPing ELSE last_ping
    /\ UNCHANGED <<policyVars, grantVars, runtimeVars, signalVars, noticeVars,
                   peer, closing, conn, owner>>

\* Messages arrive on an open channel of a working connection.
Delivers(p) == conn[p] = "connected" /\ chan[p] = "open"

\* A viewer's messages carry the session it offered with, and are parsed only
\* while that is the adopted session.
Speaks(p) == Delivers(p) /\ owner[p] = session_id

\* _on_control_message() first revokes a grant that has run out; a ping still
\* counts as one, but renews nothing.
LapsedMessage(p) ==
    /\ Delivers(p) /\ Lapsed
    /\ RevokeControl
    /\ QueuePolicyUpdate
    /\ last_ping' \in {last_ping} \union (IF Speaks(p) THEN {0} ELSE {})
    /\ UNCHANGED <<policyVars, signalVars, connVars, control_channel, told, status>>

\* session.ping renews an active grant.
Ping(p) ==
    /\ Speaks(p) /\ ~Lapsed
    /\ last_ping' = 0
    /\ expires' = IF LeaseActive THEN LeaseTicks ELSE expires
    /\ UNCHANGED <<policyVars, granted_control, pending_sink, runtimeVars,
                   signalVars, connVars, control_channel, noticeVars>>

\* An input message the controller applies.
Input(p) ==
    /\ Speaks(p) /\ ~Lapsed
    /\ granted_control /\ controller
    /\ Guard!Activity \/ Guard!ReleaseAllMessage
    /\ UNCHANGED <<policyVars, grantVars, controller, watchdog, signalVars,
                   connVars, channelVars, noticeVars>>

-----------------------------------------------------------------------------
(* Tasks, the local user and time *)

\* Mutant: the watchdog looks at the lease only while input is armed.
WatchdogRevokesArmed ==
    /\ watchdog /\ ~LeaseActive /\ idle # Guard!NotArmed
    /\ RevokeControl
    /\ QueuePolicyUpdate
    /\ UNCHANGED <<policyVars, signalVars, connVars, channelVars, told, status>>

\* _run_input_watchdog(): an expired grant is revoked ...
WatchdogRevokes ==
    /\ watchdog /\ ~LeaseActive
    /\ RevokeControl
    /\ QueuePolicyUpdate
    /\ UNCHANGED <<policyVars, signalVars, connVars, channelVars, told, status>>

\* Mutant: the watchdog disarms without release_all().
WatchdogDisarms ==
    /\ watchdog /\ LeaseActive /\ controller
    /\ Guard!Expired /\ idle' = Guard!NotArmed
    /\ UNCHANGED <<down, policyVars, grantVars, controller, watchdog, signalVars,
                   connVars, channelVars, noticeVars>>

\* ... and a silent controller lifts its inputs.
WatchdogExpires ==
    /\ watchdog /\ LeaseActive /\ controller
    /\ Guard!Expire
    /\ UNCHANGED <<policyVars, grantVars, controller, watchdog, signalVars,
                   connVars, channelVars, noticeVars>>

\* _send_policy_update() reads the state when it runs, not when it was queued;
\* to a viewer it can only take control away.
SendPolicyUpdate ==
    /\ policy_queued
    /\ policy_queued' = FALSE
    /\ told' = IF websocket = "open" /\ told # "nothing" /\ ~granted_control
               THEN "view" ELSE told
    /\ UNCHANGED <<policyVars, grantVars, runtimeVars, signalVars, connVars,
                   channelVars, status>>

\* Mutant: the tray can enable control on a locked agent.
AlwaysMaySet(enabled) == TRUE

\* A locked agent cannot be enabled.
MaySet(enabled) == ~(enabled /\ emergency_locked)

\* set_control_enabled() from the tray.
SetControlEnabled(enabled) ==
    /\ main # "stopped" /\ MaySet(enabled)
    /\ control_enabled' = enabled
    /\ IF enabled THEN UNCHANGED <<grantVars, runtimeVars>> ELSE RevokeControl
    /\ Notify(IF peer # NoPeer THEN SessionStatus(enabled /\ granted_control)
              ELSE IF websocket # "none" THEN "online" ELSE "offline")
    /\ QueuePolicyUpdate
    /\ UNCHANGED <<emergency_locked, signalVars, connVars, channelVars, told>>

\* emergency_stop() from the hotkey or the tray.
EmergencyStop ==
    /\ main # "stopped"
    /\ control_enabled' = FALSE
    /\ emergency_locked' = TRUE
    /\ RevokeControl
    /\ status' = "locked"
    /\ QueuePolicyUpdate
    /\ UNCHANGED <<signalVars, connVars, channelVars, told>>

\* The main task is cancelled (tray quit, Ctrl+C): every finally block runs.
Quit ==
    /\ main # "stopped" /\ ~(main = "close" /\ after = "stopped")
    /\ ClosePeer("stopped")
    /\ told' = "nothing"
    /\ UNCHANGED <<policyVars, grantVars, session_id, policy_queued>>

\* A new process starts from its environment.
Restart ==
    /\ main = "stopped"
    /\ control_enabled' \in BOOLEAN /\ emergency_locked' = FALSE
    /\ granted_control' = FALSE /\ expires' = NoLease /\ pending_sink' = FALSE
    /\ StopControlRuntime
    /\ session_id' = Bootstrap /\ websocket' = "none"
    /\ main' = "offline" /\ after' = "receive"
    /\ peer' = NoPeer /\ closing' = NoPeer
    /\ conn' = [p \in PeerId |-> "dead"]
    /\ chan' = [p \in PeerId |-> "none"]
    /\ owner' = [p \in PeerId |-> Bootstrap]
    /\ control_channel' = NoPeer /\ last_ping' = NoPing
    /\ policy_queued' = FALSE /\ told' = "nothing" /\ status' = "offline"

Tick ==
    /\ expires' = IF expires > 0 THEN expires - 1 ELSE expires
    /\ last_ping' = IF last_ping \in 0..HealthTicks THEN last_ping + 1 ELSE last_ping
    /\ Guard!GuardTick
    /\ UNCHANGED <<policyVars, granted_control, pending_sink, controller, watchdog,
                   signalVars, connVars, control_channel, noticeVars>>

Signaling ==
    \/ Redial \/ Connect \/ ConnectFails \/ LeaveRun
    \/ \E s \in Session, requested \in {"view", "control"}, ok \in SinkResult :
          SessionRequest(s, requested, ok)
    \/ Offer \/ SessionClose \/ AnswerSent
    \/ \E p \in PeerId, ok \in SinkResult : CreatePeer(p, ok)
    \/ \E p \in PeerId : CaptureFails(p)
    \/ PeerCloseDone \/ PeerCloseTimeout

Callback(p) ==
    \/ OrphanDies(p) \/ ConnectionUp(p) \/ ConnectionFails(p)
    \/ ChannelOpen(p) \/ ChannelClose(p)
    \/ LapsedMessage(p) \/ Ping(p) \/ Input(p)

Local ==
    \/ \E enabled \in BOOLEAN : SetControlEnabled(enabled)
    \/ EmergencyStop \/ Quit \/ Restart

Next ==
    \/ Signaling
    \/ \E p \in PeerId : Callback(p)
    \/ WatchdogRevokes \/ WatchdogExpires \/ SendPolicyUpdate
    \/ Local
    \/ Tick

\* The event loop keeps running its tasks and timers, and time passes; viewers,
\* the network and the local user owe nothing.
Spec ==
    /\ Init
    /\ [][Next]_vars
    /\ WF_vars(WatchdogRevokes)
    /\ WF_vars(WatchdogExpires)
    /\ WF_vars(SendPolicyUpdate)
    /\ WF_vars(PeerCloseDone \/ PeerCloseTimeout)
    /\ WF_vars(Tick)

-----------------------------------------------------------------------------
(* Properties *)

\* An input controller exists only inside a grant, next to a peer and a running
\* watchdog task; without one nothing is held down.  No interleaving of
\* revocation, peer replacement and session requests may leave a controller
\* behind (_start_control, _stop_control_runtime, _close_peer).
ControllerSupervised ==
    /\ controller <=> watchdog
    /\ controller => granted_control /\ peer # NoPeer
    /\ idle # Guard!NotArmed \/ down # {} => controller

\* emergency_stop() "fails closed for the rest of this process lifetime": no
\* later session request, peer replacement or tray click brings control back, and
\* the tray goes on showing the lock.
LockFailsClosed ==
    /\ emergency_locked => ~control_enabled /\ ~controller /\ down = {}
    /\ emergency_locked <=> status = "locked"

\* A grant and what belongs to it (its deadline, the prepared sink) exist only
\* while the local policy allows control.
GrantUnderPolicy ==
    /\ granted_control => control_enabled
    /\ granted_control <=> expires # NoLease
    /\ pending_sink => granted_control

\* Remote input reaches the host only under an unexpired lease and with the local
\* policy's consent, although a lapsed grant is only noticed lazily.
InputOnlyUnderLease ==
    [][~(down' \subseteq down) => LeaseActive /\ control_enabled /\ ~emergency_locked]_vars

\* "Renewal is allowed only by valid heartbeats on the already authenticated
\* control DataChannel": a step that extends a running lease is a ping of the
\* adopted session, never a duplicate session.request.
OnlyHeartbeatsRenew ==
    [][LeaseActive /\ granted_control' /\ expires' > expires
          => last_ping' = 0 /\ \E p \in PeerId : Speaks(p)]_vars

\* The emergency lock is one-way until the process restarts.
LockIsOneWay == [][emergency_locked /\ ~emergency_locked' => main = "stopped"]_vars

\* A controller whose lease ran out is dropped: "the watchdog still revokes input
\* after the TTL".
LapsedControlEnds == []<>(controller => LeaseActive)

\* Across revocations, peer replacements, reconnects and restarts the agent
\* implements InputGuard: whatever is held down is renewed or lifted.
ImplementsGuard == Guard!GuardSpec
=============================================================================
