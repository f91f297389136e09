--------------------------- MODULE ViewerSession ---------------------------
(***************************************************************************)
(* The viewer's connection cycle: useRemoteSession() with the recovery     *)
(* rules it uses (useRemoteSession.ts, signalingRecovery.ts, state.ts).    *)
(*                                                                         *)
(* JavaScript runs one event at a time, so each event handler, timer and   *)
(* promise continuation is one action.  They interleave freely, and those  *)
(* of a torn-down connection still run: every handle (a ticket fetch, a    *)
(* WebSocket, an RTCPeerConnection) has captured the cycle it was made in. *)
(* The code only ever asks whether that is still the active cycle, so the  *)
(* model keeps `own`, the handles that belong to it, and an advance of     *)
(* activeCycle empties `own`.                                              *)
(*                                                                         *)
(* The production path is modelled (a ticket is fetched per connection).   *)
(* The browser and the network are external.                               *)
(***************************************************************************)
EXTENDS Integers

CONSTANTS
    Fetch,        \* identities for ticket requests in flight, reused
    Socket,       \* identities for WebSockets, reused once closed
    Peer,         \* identities for RTCPeerConnections, reused once closed
    None,
    MaxAttempts   \* AUTO_RECONNECT_MAX_ATTEMPTS

ASSUME ViewerAssumption ==
    /\ None \notin Fetch \union Socket \union Peer
    /\ Fetch \intersect Socket = {} /\ Fetch \intersect Peer = {}
    /\ Socket \intersect Peer = {}
    /\ MaxAttempts \in Nat

VARIABLES
    state,         \* stateRef
    own,           \* handles of the active cycle
    isConnecting,
    userDisconnected,
    attempts,      \* autoReconnectAttempts
    retry,         \* autoReconnectTimer is pending
    establish,     \* connectionEstablishmentTimer is pending
    recovery,      \* signaling recovery: "none", its "timer" or its "fetch"
    fetch,         \* what each ticket request is for, or "none"
    webSocket,
    socket,        \* readyState of each WebSocket, "none" once closed
    resume,        \* sockets opened with resumeExistingPeer
    suppressed,    \* sockets with suppressAutoReconnect
    peerConnection,
    peer,          \* connectionState, with "answered" before "connected"; a failed
                   \* one counts as closed
    channel,       \* readyState of its control-v1 channel
    offering,      \* peers whose createPeerConnection() is suspended
    isControlChannelOpen,
    isVideoTrackReady,
    granted,       \* grantedControlRef
    mounted        \* the hook's component is on the page

userVars == <<isConnecting, userDisconnected>>
retryVars == <<attempts, retry>>
timerVars == <<establish, recovery>>
socketVars == <<webSocket, socket, resume, suppressed>>
peerVars == <<peerConnection, peer, channel, offering>>
readyVars == <<isControlChannelOpen, isVideoTrackReady, granted>>
vars == <<state, own, userVars, retryVars, timerVars, fetch, socketVars, peerVars,
          readyVars, mounted>>

Active == {"view-active", "control-active"}

FlagType ==
    /\ isConnecting \in BOOLEAN /\ userDisconnected \in BOOLEAN
    /\ retry \in BOOLEAN /\ establish \in BOOLEAN /\ mounted \in BOOLEAN
    /\ isControlChannelOpen \in BOOLEAN /\ isVideoTrackReady \in BOOLEAN
    /\ granted \in BOOLEAN

HandleType ==
    /\ state \in {"offline", "reserved", "negotiating"} \union Active
    /\ own \subseteq Fetch \union Socket \union Peer
    /\ attempts \in 0..MaxAttempts
    /\ recovery \in {"none", "timer", "fetch"}
    /\ fetch \in [Fetch -> {"none", "user", "auto", "resume"}]
    /\ webSocket \in Socket \union {None}
    /\ socket \in [Socket -> {"none", "connecting", "open", "closing"}]
    /\ resume \subseteq Socket /\ suppressed \subseteq Socket
    /\ peerConnection \in Peer \union {None}
    /\ peer \in [Peer -> {"closed", "new", "answered", "connected", "disconnected"}]
    /\ channel \in [Peer -> {"connecting", "open", "closed"}]
    /\ offering \subseteq Peer

TypeOK == HandleType /\ FlagType

Init ==
    /\ state = "offline" /\ own = {}
    /\ isConnecting = FALSE /\ userDisconnected = FALSE
    /\ attempts = 0 /\ retry = FALSE
    /\ establish = FALSE /\ recovery = "none"
    /\ fetch = [f \in Fetch |-> "none"]
    /\ webSocket = None /\ socket = [s \in Socket |-> "none"]
    /\ resume = {} /\ suppressed = {}
    /\ peerConnection = None /\ peer = [p \in Peer |-> "closed"]
    /\ channel = [p \in Peer |-> "closed"] /\ offering = {}
    /\ isControlChannelOpen = FALSE /\ isVideoTrackReady = FALSE /\ granted = FALSE
    /\ mounted = TRUE

-----------------------------------------------------------------------------
(* Teardown and retry *)

\* canPreservePeerDuringSignalingRecovery()
CanPreserve ==
    /\ state \in Active
    /\ peerConnection # None
    /\ peer[peerConnection] \in {"connected", "disconnected"}
    /\ channel[peerConnection] = "open"

\* webSocket.current once the close event of `gone` has been handled.
SocketWithout(gone) == IF webSocket = gone THEN None ELSE webSocket

\* "Only a truly idle offline cycle is a no-op."
TrulyIdle(gone) ==
    /\ state = "offline" /\ ~isConnecting
    /\ SocketWithout(gone) = None /\ peerConnection = None

\* Mutant: the granted permission outlives the connection.
ReleaseKeepsGrant(gone) ==
    /\ own' = {}
    /\ isConnecting' = FALSE
    /\ recovery' = "none"
    /\ webSocket' = None
    /\ socket' = [s \in Socket |-> IF s = gone THEN "none"
                                   ELSE IF s = webSocket THEN "closing" ELSE socket[s]]
    /\ peerConnection' = None
    /\ peer' = [p \in Peer |-> IF p \in {peerConnection, gone} THEN "closed" ELSE peer[p]]
    /\ channel' = [p \in Peer |-> IF p \in {peerConnection, gone} THEN "closed"
                                  ELSE channel[p]]
    /\ isControlChannelOpen' = FALSE
    /\ isVideoTrackReady' = FALSE
    /\ UNCHANGED granted

\* releaseResources(), after activeCycle was advanced; `gone` is the socket
\* that closed or the peer that failed, when that is why, or None.
ReleaseResources(gone) ==
    /\ own' = {}
    /\ isConnecting' = FALSE
    /\ recovery' = "none"
    /\ webSocket' = None
    /\ socket' = [s \in Socket |-> IF s = gone THEN "none"
                                   ELSE IF s = webSocket THEN "closing" ELSE socket[s]]
    /\ peerConnection' = None
    /\ peer' = [p \in Peer |-> IF p \in {peerConnection, gone} THEN "closed" ELSE peer[p]]
    /\ channel' = [p \in Peer |-> IF p \in {peerConnection, gone} THEN "closed"
                                  ELSE channel[p]]
    /\ isControlChannelOpen' = FALSE
    /\ isVideoTrackReady' = FALSE
    /\ granted' = FALSE

\* teardownForCycle() of the active cycle; its timers are left to the caller.
TeardownForCycle(gone) ==
    IF TrulyIdle(gone)
    THEN /\ own' = own \ {gone}
         /\ webSocket' = None
         /\ socket' = [s \in Socket |-> IF s = gone THEN "none" ELSE socket[s]]
         /\ UNCHANGED <<state, isConnecting, recovery, peerConnection, peer, channel,
                        readyVars>>
    ELSE ReleaseResources(gone) /\ state' = "offline"

\* scheduleAutoReconnect()
ScheduleAutoReconnect(pending) ==
    LET retries == ~userDisconnected /\ ~pending /\ attempts < MaxAttempts
    IN  /\ retry' = (pending \/ retries)
        /\ attempts' = IF retries THEN attempts + 1 ELSE attempts

\* A teardown cancels the establishment timer and a pending retry, unless it was a
\* no-op, and either stays offline ...
Abandon(gone) ==
    /\ TeardownForCycle(gone)
    /\ establish' = (establish /\ TrulyIdle(gone))
    /\ retry' = (retry /\ TrulyIdle(gone))
    /\ UNCHANGED attempts

\* ... or is followed by scheduleAutoReconnect().
AbandonAndRetry(gone) ==
    /\ TeardownForCycle(gone)
    /\ establish' = (establish /\ TrulyIdle(gone))
    /\ ScheduleAutoReconnect(retry /\ TrulyIdle(gone))

\* What Abandon and AbandonAndRetry leave alone.
abandonRest == <<userDisconnected, fetch, resume, suppressed, offering, mounted>>

\* Mutant: the pending retry is left to the teardown, which may be a no-op.
DisconnectLazily ==
    /\ mounted
    /\ userDisconnected' = TRUE
    /\ Abandon(None)
    /\ UNCHANGED <<fetch, resume, suppressed, offering, mounted>>

\* disconnect(), the user's choice.
Disconnect ==
    /\ mounted
    /\ userDisconnected' = TRUE
    /\ attempts' = 0 /\ retry' = FALSE
    /\ TeardownForCycle(None)
    /\ establish' = (establish /\ TrulyIdle(None))
    /\ UNCHANGED <<fetch, resume, suppressed, offering, mounted>>

\* The effect's cleanup when the component leaves the page.
Unmount ==
    /\ mounted
    /\ mounted' = FALSE
    /\ userDisconnected' = TRUE
    /\ retry' = FALSE /\ establish' = FALSE
    /\ ReleaseResources(None)
    /\ UNCHANGED <<state, attempts, fetch, resume, suppressed, offering>>

-----------------------------------------------------------------------------
(* Starting a connection *)

connectRest == <<state, recovery, socketVars, peerVars, readyVars, mounted>>

\* connectInternal(): a new cycle, its establishment timer and its ticket request.
ConnectInternal(f, purpose) ==
    /\ ~isConnecting /\ state = "offline"
    /\ fetch[f] = "none"
    /\ userDisconnected' = FALSE
    /\ own' = {f}
    /\ establish' = TRUE
    /\ isConnecting' = TRUE
    /\ fetch' = [fetch EXCEPT ![f] = purpose]
    /\ UNCHANGED connectRest

UserConnects(f) ==
    /\ mounted
    /\ ConnectInternal(f, "user")
    /\ attempts' = 0 /\ retry' = FALSE

\* The auto-reconnect timer; connectInternal() has its own early return.
RetryFires ==
    /\ retry
    /\ retry' = FALSE
    /\ UNCHANGED attempts
    /\ IF userDisconnected \/ isConnecting \/ state # "offline"
       THEN UNCHANGED <<own, userVars, establish, fetch, connectRest>>
       ELSE \E f \in Fetch : ConnectInternal(f, "auto")

\* startConnection()
StartConnection(s, resuming) ==
    /\ socket[s] = "none"
    /\ webSocket' = s
    /\ socket' = [socket EXCEPT ![s] = "connecting"]
    /\ resume' = IF resuming THEN resume \union {s} ELSE resume
    /\ UNCHANGED suppressed

Settle(f) == fetch' = [fetch EXCEPT ![f] = "none"]

\* The ticket of a connection arrived; a superseded one is dropped.
TicketArrives(f) ==
    /\ fetch[f] \in {"user", "auto"}
    /\ Settle(f)
    /\ isConnecting' = FALSE
    /\ IF f \in own /\ state = "offline"
       THEN \E s \in Socket : StartConnection(s, FALSE) /\ own' = {s}
       ELSE own' = own \ {f} /\ UNCHANGED socketVars
    /\ UNCHANGED <<state, userDisconnected, retryVars, timerVars, peerVars, readyVars,
                   mounted>>

\* It was refused, or the socket could not be created.
TicketFails(f) ==
    /\ fetch[f] \in {"user", "auto"}
    /\ Settle(f)
    /\ isConnecting' = FALSE
    /\ own' = own \ {f}
    /\ establish' = (establish /\ f \notin own)
    /\ IF f \in own /\ fetch[f] = "auto" THEN ScheduleAutoReconnect(retry)
       ELSE UNCHANGED retryVars
    /\ UNCHANGED <<state, userDisconnected, recovery, socketVars, peerVars, readyVars,
                   mounted>>

\* The establishment timer: no connected peer with a picture in time.
EstablishmentTimeout ==
    /\ establish
    /\ establish' = FALSE
    /\ IF \/ userDisconnected
          \/ /\ peerConnection # None /\ peer[peerConnection] = "connected"
             /\ isVideoTrackReady
       THEN UNCHANGED <<state, own, isConnecting, recovery, webSocket, socket,
                        peerConnection, peer, channel, readyVars, retryVars>>
       ELSE /\ TeardownForCycle(None)
            /\ ScheduleAutoReconnect(retry /\ TrulyIdle(None))
    /\ UNCHANGED abandonRest

-----------------------------------------------------------------------------
(* Signaling recovery *)

\* scheduleSignalingRecovery() for the active cycle, with none under way.
ScheduleSignalingRecovery ==
    recovery' = IF ~userDisconnected /\ CanPreserve THEN "timer" ELSE "none"

\* Mutant: the timer stays set after it has fired.
RecoveryTimerStays ==
    /\ recovery = "timer"
    /\ IF userDisconnected \/ ~CanPreserve
       THEN recovery' = "none" /\ UNCHANGED <<own, fetch>>
       ELSE \E f \in Fetch :
              /\ fetch[f] = "none"
              /\ fetch' = [fetch EXCEPT ![f] = "resume"]
              /\ own' = own \union {f}
              /\ UNCHANGED recovery
    /\ UNCHANGED <<state, userVars, retryVars, establish, socketVars, peerVars, readyVars,
                   mounted>>

RecoveryTimer ==
    /\ recovery = "timer"
    /\ IF userDisconnected \/ ~CanPreserve
       THEN recovery' = "none" /\ UNCHANGED <<own, fetch>>
       ELSE \E f \in Fetch :
              /\ fetch[f] = "none"
              /\ fetch' = [fetch EXCEPT ![f] = "resume"]
              /\ own' = own \union {f}
              /\ recovery' = "fetch"
    /\ UNCHANGED <<state, userVars, retryVars, establish, socketVars, peerVars, readyVars,
                   mounted>>

\* signalingRecoveryInFlight is cleared, whichever cycle the request was for.
NotInFlight == IF recovery = "fetch" THEN "none" ELSE recovery

\* The ticket of a recovery arrived: open a socket next to the running peer.
RecoveryTicket(f) ==
    /\ fetch[f] = "resume"
    /\ Settle(f)
    /\ recovery' = NotInFlight
    /\ IF f \in own /\ ~userDisconnected /\ CanPreserve
       THEN \E s \in Socket : StartConnection(s, TRUE) /\ own' = (own \ {f}) \union {s}
       ELSE own' = own \ {f} /\ UNCHANGED socketVars
    /\ UNCHANGED <<state, userVars, retryVars, establish, peerVars, readyVars, mounted>>

RecoveryFails(f) ==
    /\ fetch[f] = "resume"
    /\ Settle(f)
    /\ own' = own \ {f}
    /\ IF f \in own /\ NotInFlight = "none" THEN ScheduleSignalingRecovery
       ELSE recovery' = NotInFlight
    /\ UNCHANGED <<state, userVars, retryVars, establish, socketVars, peerVars, readyVars,
                   mounted>>

-----------------------------------------------------------------------------
(* WebSocket events *)

\* open: a superseded socket, or one without a peer to resume, closes itself; any
\* other sends session.request.
SocketOpens(s) ==
    /\ socket[s] = "connecting"
    /\ IF s \notin own \/ (s \in resume /\ ~CanPreserve)
       THEN socket' = [socket EXCEPT ![s] = "closing"] /\ UNCHANGED state
       ELSE /\ socket' = [socket EXCEPT ![s] = "open"]
            /\ state' = IF s \in resume THEN state ELSE "reserved"
    /\ UNCHANGED <<own, userVars, retryVars, timerVars, fetch, webSocket, resume,
                   suppressed, peerVars, readyVars, mounted>>

\* close, at any time.  The socket's identity is free again.
Forget(s) == resume' = resume \ {s} /\ suppressed' = suppressed \ {s}

Drop(s) ==
    /\ Forget(s)
    /\ socket' = [socket EXCEPT ![s] = "none"]
    /\ webSocket' = SocketWithout(s)
    /\ own' = own \ {s}

\* Of a superseded cycle, or after the user's disconnect: it may still schedule a
\* reconnect.
StaleClose(s) ==
    /\ socket[s] # "none"
    /\ s \notin own \/ userDisconnected
    /\ Drop(s)
    /\ IF s \notin suppressed /\ state = "offline"
       THEN ScheduleAutoReconnect(retry) ELSE UNCHANGED retryVars
    /\ UNCHANGED <<state, userVars, timerVars, fetch, peerVars, readyVars, mounted>>

\* While the peer works without it: only signaling is recovered.
SignalingLost(s) ==
    /\ socket[s] # "none"
    /\ s \in own /\ ~userDisconnected /\ CanPreserve
    /\ Drop(s)
    /\ IF recovery = "none" THEN ScheduleSignalingRecovery ELSE UNCHANGED recovery
    /\ UNCHANGED <<state, userVars, establish, retryVars, fetch, peerVars, readyVars,
                   mounted>>

SocketCloses(s) ==
    /\ socket[s] # "none"
    /\ s \in own /\ ~userDisconnected /\ ~CanPreserve
    /\ Forget(s)
    /\ IF s \in suppressed THEN Abandon(s) ELSE AbandonAndRetry(s)
    /\ UNCHANGED <<userDisconnected, fetch, offering, mounted>>

\* message: only those of the active cycle are looked at.
Delivers(s) == s \in own /\ socket[s] = "open"

\* An unused identity for a new RTCPeerConnection.
Unused(p) == peer[p] = "closed" /\ p \notin offering \union {peerConnection}

\* session.accept: createPeerConnection() up to its first await.
AcceptNegotiates(s, p, control) ==
    /\ Delivers(s) /\ s \notin resume
    /\ state \in {"reserved", "negotiating"} /\ Unused(p)
    /\ granted' = control
    /\ state' = "negotiating"
    /\ peerConnection' = p
    /\ peer' = [peer EXCEPT ![p] = "new"]
    /\ channel' = [channel EXCEPT ![p] = "connecting"]
    /\ offering' = offering \union {p}
    /\ own' = own \union {p}
    /\ UNCHANGED <<userVars, retryVars, timerVars, fetch, webSocket, socket, resume,
                   suppressed, isControlChannelOpen, isVideoTrackReady, mounted>>

\* A session.accept that comes after negotiation is an illegal transition.
AcceptTooLate(s) ==
    /\ Delivers(s) /\ s \notin resume
    /\ state \notin {"reserved", "negotiating"}
    /\ AbandonAndRetry(None)
    /\ UNCHANGED abandonRest

\* session.accept on a resumed socket ends the recovery.
AcceptResumed(s, control) ==
    /\ Delivers(s) /\ s \in resume
    /\ granted' = control
    /\ recovery' = IF CanPreserve THEN "none" ELSE recovery
    /\ UNCHANGED <<state, own, userVars, retryVars, establish, fetch, webSocket, socket,
                   resume, suppressed, peerVars, isControlChannelOpen,
                   isVideoTrackReady, mounted>>

AnswerApplied(s) ==
    /\ Delivers(s) /\ peerConnection # None
    /\ peer[peerConnection] = "new"
    /\ peer' = [peer EXCEPT ![peerConnection] = "answered"]
    /\ UNCHANGED <<state, own, userVars, retryVars, timerVars, fetch, socketVars,
                   peerConnection, channel, offering, readyVars, mounted>>

\* setRemoteDescription() throws.
AnswerRejected(s) ==
    /\ Delivers(s) /\ peerConnection # None
    /\ AbandonAndRetry(None)
    /\ UNCHANGED abandonRest

\* session.policy that takes control away.
PolicyRevokes(s) ==
    /\ Delivers(s)
    /\ granted' = FALSE
    /\ UNCHANGED <<state, own, userVars, retryVars, timerVars, fetch, socketVars, peerVars,
                   isControlChannelOpen, isVideoTrackReady, mounted>>

\* agent.online before negotiation completed.
AgentOnline(s) ==
    /\ Delivers(s) /\ state \in {"reserved", "negotiating"}
    /\ AbandonAndRetry(None)
    /\ UNCHANGED abandonRest

\* session.close or agent.offline.
AgentLeaves(s) ==
    /\ Delivers(s)
    /\ Abandon(None)
    /\ UNCHANGED abandonRest

Tolerated(s, code) ==
    \/ code = "AGENT_OFFLINE" /\ s \in resume
    \/ code = "PEER_OFFLINE" /\ CanPreserve

\* error or session.reject: the socket remembers whether it was replaced.
ServerIssue(s, code) ==
    /\ Delivers(s)
    /\ suppressed' = IF code = "SESSION_REPLACED" THEN suppressed \union {s}
                     ELSE suppressed \ {s}
    /\ IF Tolerated(s, code)
       THEN UNCHANGED <<state, own, isConnecting, retryVars, timerVars, webSocket, socket,
                        peerConnection, peer, channel, readyVars>>
       ELSE Abandon(None)
    /\ UNCHANGED <<userDisconnected, fetch, resume, offering, mounted>>

-----------------------------------------------------------------------------
(* RTCPeerConnection and control channel events *)

\* createPeerConnection() after its awaits: sendSignaling() uses whatever socket is
\* current by then.
OfferSent(p) ==
    /\ p \in offering
    /\ webSocket # None /\ socket[webSocket] = "open"
    /\ offering' = offering \ {p}
    /\ UNCHANGED <<state, own, userVars, retryVars, timerVars, fetch, socketVars,
                   peerConnection, peer, channel, readyVars, mounted>>

\* It throws: no offer, or no open socket.
OfferThrows(p) ==
    /\ p \in offering
    /\ offering' = offering \ {p}
    /\ IF p \in own THEN AbandonAndRetry(None)
       ELSE UNCHANGED <<state, own, isConnecting, retryVars, timerVars, webSocket, socket,
                        peerConnection, peer, channel, readyVars>>
    /\ UNCHANGED <<userDisconnected, fetch, resume, suppressed, mounted>>

\* updateActiveState(): one step at a time towards what is ready, never back.
Advanced(isOpen, isReady) ==
    IF state \notin {"negotiating"} \union Active THEN state
    ELSE IF isReady /\ isOpen THEN "control-active"
    ELSE IF isReady /\ state = "negotiating" THEN "view-active" ELSE state

TrackArrives(p) ==
    /\ p \in own /\ peer[p] \in {"answered", "connected", "disconnected"}
    /\ isVideoTrackReady' = TRUE
    /\ state' = Advanced(isControlChannelOpen, TRUE)
    /\ establish' = (establish /\ peer[p] # "connected")
    /\ UNCHANGED <<own, userVars, retryVars, recovery, fetch, socketVars, peerVars,
                   isControlChannelOpen, granted, mounted>>

\* Mutant: a connection without a picture counts as established.
ConnectionUpIsEnough(p) ==
    /\ peer[p] \in {"answered", "disconnected"}
    /\ peer' = [peer EXCEPT ![p] = "connected"]
    /\ attempts' = 0
    /\ establish' = FALSE
    /\ UNCHANGED <<state, own, userVars, retry, recovery, fetch, socketVars,
                   peerConnection, channel, offering, readyVars, mounted>>

\* connectionstatechange to connected does not ask for the cycle.
ConnectionUp(p) ==
    /\ peer[p] \in {"answered", "disconnected"}
    /\ peer' = [peer EXCEPT ![p] = "connected"]
    /\ attempts' = 0
    /\ establish' = (establish /\ ~isVideoTrackReady)
    /\ UNCHANGED <<state, own, userVars, retry, recovery, fetch, socketVars,
                   peerConnection, channel, offering, readyVars, mounted>>

ConnectionWavers(p) ==
    /\ peer[p] = "connected"
    /\ peer' = [peer EXCEPT ![p] = "disconnected"]
    /\ UNCHANGED <<state, own, userVars, retryVars, timerVars, fetch, socketVars,
                   peerConnection, channel, offering, readyVars, mounted>>

\* Mutant: the failure of a superseded peer tears down the current connection.
ConnectionFailsUnscoped(p) ==
    /\ peer[p] \in {"answered", "connected", "disconnected"}
    /\ AbandonAndRetry(p)
    /\ UNCHANGED abandonRest

\* failed: teardownForCycle() is scoped to the cycle, scheduleAutoReconnect() is not.
ConnectionFails(p) ==
    /\ peer[p] \in {"answered", "connected", "disconnected"}
    /\ IF p \in own THEN AbandonAndRetry(p)
       ELSE /\ peer' = [peer EXCEPT ![p] = "closed"]
            /\ channel' = [channel EXCEPT ![p] = "closed"]
            /\ ScheduleAutoReconnect(retry)
            /\ UNCHANGED <<state, own, isConnecting, timerVars, webSocket, socket,
                           peerConnection, readyVars>>
    /\ UNCHANGED abandonRest

ChannelOpens(p) ==
    /\ peer[p] = "connected" /\ channel[p] = "connecting"
    /\ channel' = [channel EXCEPT ![p] = "open"]
    /\ IF p \in own
       THEN /\ isControlChannelOpen' = TRUE
            /\ state' = Advanced(TRUE, isVideoTrackReady)
       ELSE UNCHANGED <<state, isControlChannelOpen>>
    /\ UNCHANGED <<own, userVars, retryVars, timerVars, fetch, socketVars, peerConnection,
                   peer, offering, isVideoTrackReady, granted, mounted>>

\* recoverControlChannel() renegotiates the whole peer.
MayRecover(p) == p \in own /\ p = peerConnection /\ ~userDisconnected

\* close of a control channel.
ChannelCloses(p) ==
    /\ peer[p] # "closed" /\ channel[p] # "closed"
    /\ IF MayRecover(p) THEN AbandonAndRetry(None)
       ELSE /\ channel' = [channel EXCEPT ![p] = "closed"]
            /\ UNCHANGED <<state, own, isConnecting, retryVars, timerVars, webSocket,
                           socket, peerConnection, peer, readyVars>>
    /\ UNCHANGED abandonRest

\* CONTROL_MAX_MISSED_PONGS unanswered pings, or a send that throws.
PongsMissed(p) ==
    /\ channel[p] = "open" /\ MayRecover(p)
    /\ AbandonAndRetry(None)
    /\ UNCHANGED abandonRest

-----------------------------------------------------------------------------
(* The specification *)

\* The page is opened again: a new instance of the hook, with refs of its own, which
\* the handlers of the old one do not reach.
Remount ==
    /\ ~mounted
    /\ state' = "offline" /\ own' = {}
    /\ isConnecting' = FALSE /\ userDisconnected' = FALSE
    /\ attempts' = 0 /\ retry' = FALSE
    /\ establish' = FALSE /\ recovery' = "none"
    /\ fetch' = [f \in Fetch |-> "none"]
    /\ webSocket' = None /\ socket' = [s \in Socket |-> "none"]
    /\ resume' = {} /\ suppressed' = {}
    /\ peerConnection' = None /\ peer' = [p \in Peer |-> "closed"]
    /\ channel' = [p \in Peer |-> "closed"] /\ offering' = {}
    /\ isControlChannelOpen' = FALSE /\ isVideoTrackReady' = FALSE /\ granted' = FALSE
    /\ mounted' = TRUE

User == (\E f \in Fetch : UserConnects(f)) \/ Disconnect \/ Unmount \/ Remount

Timers == RetryFires \/ EstablishmentTimeout \/ RecoveryTimer

FetchEvent(f) ==
    TicketArrives(f) \/ TicketFails(f) \/ RecoveryTicket(f) \/ RecoveryFails(f)

SocketEvent(s) ==
    \/ SocketOpens(s) \/ StaleClose(s) \/ SignalingLost(s) \/ SocketCloses(s)
    \/ \E p \in Peer, control \in BOOLEAN : AcceptNegotiates(s, p, control)
    \/ AcceptTooLate(s)
    \/ \E control \in BOOLEAN : AcceptResumed(s, control)
    \/ AnswerApplied(s) \/ AnswerRejected(s)
    \/ PolicyRevokes(s) \/ AgentOnline(s) \/ AgentLeaves(s)
    \/ \E code \in {"SESSION_REPLACED", "AGENT_OFFLINE", "PEER_OFFLINE", "OTHER"} :
          ServerIssue(s, code)

PeerEvent(p) ==
    \/ OfferSent(p) \/ OfferThrows(p)
    \/ TrackArrives(p) \/ ConnectionUp(p) \/ ConnectionWavers(p) \/ ConnectionFails(p)
    \/ ChannelOpens(p) \/ ChannelCloses(p) \/ PongsMissed(p)

Next ==
    \/ User
    \/ Timers
    \/ \E f \in Fetch : FetchEvent(f)
    \/ \E s \in Socket : SocketEvent(s)
    \/ \E p \in Peer : PeerEvent(p)

\* The browser fires its timers; the network and the user owe nothing.
Spec ==
    /\ Init
    /\ [][Next]_vars
    /\ WF_vars(RetryFires)
    /\ WF_vars(EstablishmentTimeout)
    /\ WF_vars(RecoveryTimer)

-----------------------------------------------------------------------------
(* Properties *)

\* Being offline, or only waiting for the agent's answer, means that nothing of a
\* connection is left: no peer, no readiness, no permission, no recovery.
\* (releaseResources and the early returns of stale handlers.)
OfflineIsClean ==
    state \in {"offline", "reserved"} =>
        /\ peerConnection = None /\ recovery = "none"
        /\ ~isControlChannelOpen /\ ~isVideoTrackReady /\ ~granted

\* A socket of the active cycle is the one signaling is sent on: recovery never
\* opens a second socket next to a live one, nor does a reconnect.
OneSocketPerCycle ==
    \A s \in Socket : s \in own /\ socket[s] # "none" => webSocket = s

\* While the page is up, a cycle past its reservation has a peer of its own, and
\* "control-active ... can never be reached without a view" (state.ts).
ActiveHasPeer ==
    /\ mounted /\ state \in {"negotiating"} \union Active
          => peerConnection \in own
    /\ state = "control-active" /\ mounted => isVideoTrackReady /\ isControlChannelOpen

\* "A user-initiated close must never trigger auto-reconnect", whatever timers,
\* fetches and late events were under way.
NoRetryAfterDisconnect == userDisconnected => ~retry

\* "A late 'close'/'connectionstatechange' event from an old connection can never
\* tear down a freshly started one."
StaleEventsHarmless ==
    [][(\/ \E s \in Socket \ own : SocketEvent(s)
        \/ \E p \in Peer \ own : PeerEvent(p))
          => UNCHANGED <<state, peerConnection, readyVars, recovery, isConnecting>>]_vars

\* "Instead of leaving the viewer stuck in 'negotiating'": a cycle that asked for a
\* session becomes active or is given up, unless the user closed it, however its
\* socket, its peer and its negotiation fail or fall silent.
NeverStuck ==
    state \in {"reserved", "negotiating"}
        ~> state \notin {"reserved", "negotiating"} \/ userDisconnected
=============================================================================
