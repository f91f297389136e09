---------------------------- MODULE SessionRoom ----------------------------
(***************************************************************************)
(* The signaling room of one device: the SessionRoom Durable Object        *)
(* (sessionRoom.ts).  It admits one agent and one viewer at a time, relays *)
(* their messages, limits session requests and frees the agent's slot when *)
(* its heartbeats stop.                                                    *)
(*                                                                         *)
(* Each handler runs to its end before the next one starts, so a handler   *)
(* is one action.  What surrounds it is concurrent: sockets open, close    *)
(* and fail by themselves, a socket the room has closed may still deliver  *)
(* what its client sent, the alarm may fire early, and the runtime may     *)
(* hibernate the object or restart it.  Ages and deadlines are in ticks.   *)
(***************************************************************************)
EXTENDS SlidingWindow

CONSTANTS
    Socket,          \* identities for WebSockets, reused once closed
    Session,         \* session ids of viewer tickets
    Bootstrap,       \* the session id of the agent's token
    HeartbeatTicks,  \* AGENT_HEARTBEAT_TIMEOUT_MS
    EarlyTicks,      \* external: how early the platform may fire an alarm
    LateFrames,      \* external: may a socket deliver after the room closed it?
    WindowTicks,     \* SESSION_REQUEST_RATE_LIMIT.windowMs
    MaxEvents        \* SESSION_REQUEST_RATE_LIMIT.maxEvents

ASSUME RoomAssumption ==
    /\ Bootstrap \notin Session
    /\ LateFrames \in BOOLEAN
    /\ EarlyTicks \in Nat
    /\ HeartbeatTicks \in Nat /\ HeartbeatTicks > EarlyTicks
    /\ WindowTicks \in Nat \ {0}
    /\ MaxEvents \in Nat \ {0}

VARIABLES
    ready,     \* readyState; "none" once getWebSockets() no longer lists it
    kind,      \* its tag, or "rejected" for an untagged refused viewer
    session,   \* attachment.sessionId
    seen,      \* age of an agent's attachment.lastSeenAt
    alarm,     \* ticks until the storage alarm, or NoAlarm
    requests,  \* sessionRequestTimestamps, as ages, oldest first
    quiet,     \* ticks since the last event of this object
    adopted,   \* external: the session the agent stamps on its messages
    relayed,   \* history: the last agent message, whose and to whom
    admitted   \* history: ages of the session requests let through

socketVars == <<ready, kind, session, seen>>
rateVars == <<requests, admitted>>
relayVars == <<adopted, relayed>>
vars == <<socketVars, alarm, rateVars, quiet, relayVars>>

NoAlarm == -1

AnySession == Session \union {Bootstrap}

SocketType ==
    /\ ready \in [Socket -> {"none", "connecting", "open", "closing"}]
    /\ kind \in [Socket -> {"agent", "viewer", "rejected"}]
    /\ session \in [Socket -> AnySession]
    /\ seen \in [Socket -> 0..HeartbeatTicks]

TypeOK ==
    /\ SocketType
    /\ alarm \in NoAlarm..HeartbeatTicks
    /\ requests \in Seq(0..WindowTicks)
    /\ admitted \in Seq(0..WindowTicks)
    /\ quiet \in 0..WindowTicks
    /\ adopted \in AnySession
    /\ relayed \in [of : AnySession, to : AnySession]

Init ==
    /\ ready = [s \in Socket |-> "none"]
    /\ kind = [s \in Socket |-> "rejected"]
    /\ session = [s \in Socket |-> Bootstrap]
    /\ seen = [s \in Socket |-> 0]
    /\ alarm = NoAlarm
    /\ requests = <<>> /\ admitted = <<>>
    /\ quiet = 0
    /\ adopted = Bootstrap
    /\ relayed = [of |-> Bootstrap, to |-> Bootstrap]

-----------------------------------------------------------------------------
(* Occupancy *)

Occupies(s, role) == kind[s] = role /\ ready[s] \in {"connecting", "open"}

\* Mutant: a socket in its handshake reads as absent.
HasOpenRole(role) == \E s \in Socket : kind[s] = role /\ ready[s] = "open"

\* hasRole(): a socket still in its handshake counts.
HasRole(role) == \E s \in Socket : Occupies(s, role)

\* findSocket(): the open sockets of a role, of which the code takes the first.
Open(role) == {s \in Socket : kind[s] = role /\ ready[s] = "open"}

\* Mutant: the deadline moves away as the agent falls silent.
ScheduleWrongWay(age) == alarm' = HeartbeatTicks + age

\* Mutant: only a heartbeat sets the alarm; an early alarm is not set again.
ScheduleOnHeartbeatOnly(age) == alarm' = IF age = 0 THEN HeartbeatTicks ELSE NoAlarm

\* scheduleHeartbeatDeadline(lastSeenAt), for an agent seen this long ago.
ScheduleHeartbeatDeadline(age) == alarm' = HeartbeatTicks - age

\* acceptWebSocket() with its attachment.
Accept(s, k, state, id, evicted) ==
    /\ ready' = [t \in Socket |-> IF t = s THEN state
                                  ELSE IF t \in evicted THEN "closing" ELSE ready[t]]
    /\ kind' = [kind EXCEPT ![s] = k]
    /\ session' = [session EXCEPT ![s] = id]
    /\ seen' = [seen EXCEPT ![s] = 0]

\* fetch() for the agent: a second one is answered 409 and changes nothing.
\* The agent comes back with the session of a peer it preserved, or without.
AgentConnects(s) ==
    /\ ready[s] = "none" /\ ~HasRole("agent")
    /\ Accept(s, "agent", "connecting", Bootstrap, {})
    /\ ScheduleHeartbeatDeadline(0)
    /\ adopted' \in {adopted, Bootstrap}
    /\ quiet' = 0
    /\ UNCHANGED <<rateVars, relayed>>

\* fetch() for a viewer: evictViewers() first, then the agent must be there, or
\* acceptRejectedViewer() opens an untagged socket only to close it.
ViewerConnects(s, id) ==
    LET evicted == {t \in Socket : Occupies(t, "viewer")}
    IN  /\ ready[s] = "none"
        /\ IF HasRole("agent") THEN Accept(s, "viewer", "connecting", id, evicted)
           ELSE Accept(s, "rejected", "closing", id, evicted)
        /\ quiet' = 0
        /\ UNCHANGED <<alarm, rateVars, relayVars>>

\* The upgrade response reached the client.
Opens(s) ==
    /\ ready[s] = "connecting"
    /\ ready' = [ready EXCEPT ![s] = "open"]
    /\ UNCHANGED <<kind, session, seen, alarm, rateVars, quiet, relayVars>>

-----------------------------------------------------------------------------
(* webSocketMessage() *)

\* The platform may still deliver what the client of a closed socket sent.
Delivers(s) == ready[s] = "open" \/ (LateFrames /\ ready[s] = "closing")

\* Every accepted message refreshes lastSeenAt; only an agent's is ever read.
Sees(s) == seen' = [seen EXCEPT ![s] = 0]

\* rejectMessage(), and the webSocketError() handler.
Closes(s) == ready' = [ready EXCEPT ![s] = "closing"]

\* A binary, oversized or malformed frame, a type the role may not send, a
\* session other than the ticket's, or a transport error.
BadMessage(s) ==
    /\ Delivers(s)
    /\ Closes(s)
    /\ quiet' = 0
    /\ UNCHANGED <<kind, session, seen, alarm, rateVars, relayVars>>

Heartbeat(s) ==
    /\ Delivers(s) /\ kind[s] = "agent"
    /\ Sees(s)
    /\ ScheduleHeartbeatDeadline(0)
    /\ quiet' = 0
    /\ UNCHANGED <<ready, kind, session, rateVars, relayVars>>

\* Any other agent message goes to the open viewer, if there is one; its
\* sessionId is the agent's own and is not compared with the viewer's.
AgentMessage(s) ==
    /\ Delivers(s) /\ kind[s] = "agent"
    /\ Sees(s)
    /\ IF Open("viewer") = {} THEN UNCHANGED relayed
       ELSE \E v \in Open("viewer") : relayed' = [of |-> adopted, to |-> session[v]]
    /\ quiet' = 0
    /\ UNCHANGED <<ready, kind, session, alarm, rateVars, adopted>>

\* evaluateRateLimit(): what is younger than the window stays.
Retained == DropOlder(requests, WindowTicks)

\* Mutant: one request too many per window.
OneMoreAllowed == Len(Retained) <= MaxEvents

RequestAllowed == Len(Retained) < MaxEvents

\* session.request: within the limit it reaches the agent, which adopts the
\* session; beyond it the socket is closed and nothing is recorded.
SessionRequest(s) ==
    /\ Delivers(s) /\ kind[s] # "agent"
    /\ IF RequestAllowed
       THEN /\ requests' = Append(Retained, 0)
            /\ admitted' = Append(admitted, 0)
            /\ adopted' = IF Open("agent") = {} THEN adopted ELSE session[s]
            /\ UNCHANGED ready
       ELSE /\ requests' = Retained
            /\ Closes(s)
            /\ UNCHANGED <<admitted, adopted>>
    /\ quiet' = 0
    /\ UNCHANGED <<kind, session, seen, alarm, relayed>>

\* session.close, session.configure, webrtc.offer and webrtc.ice of a viewer go
\* to the open agent, or are answered PEER_OFFLINE.
ViewerMessage(s) ==
    /\ Delivers(s) /\ kind[s] # "agent"
    /\ Sees(s)
    /\ quiet' = 0
    /\ UNCHANGED <<ready, kind, session, alarm, rateVars, relayVars>>

-----------------------------------------------------------------------------
(* Sockets, the alarm and the runtime *)

\* The client's closing handshake starts ...
ClientCloses(s) ==
    /\ ready[s] \in {"connecting", "open"}
    /\ Closes(s)
    /\ quiet' = 0
    /\ UNCHANGED <<kind, session, seen, alarm, rateVars, relayVars>>

\* ... and one started by either side ends: webSocketClose() only logs.
CloseCompletes(s) ==
    /\ ready[s] = "closing"
    /\ ready' = [ready EXCEPT ![s] = "none"]
    /\ kind' = [kind EXCEPT ![s] = "rejected"]
    /\ session' = [session EXCEPT ![s] = Bootstrap]
    /\ seen' = [seen EXCEPT ![s] = 0]
    /\ quiet' = 0
    /\ UNCHANGED <<alarm, rateVars, relayVars>>

\* alarm(): it may fire a little early (EarlyTicks), and is consumed unless it is
\* set again.
Alarm ==
    /\ alarm \in 0..EarlyTicks
    /\ \/ /\ Open("agent") = {}
          /\ alarm' = NoAlarm
          /\ UNCHANGED ready
       \/ \E a \in Open("agent") :
             IF seen[a] >= HeartbeatTicks
             THEN alarm' = NoAlarm /\ Closes(a)
             ELSE ScheduleHeartbeatDeadline(seen[a]) /\ UNCHANGED ready
    /\ quiet' = 0
    /\ UNCHANGED <<kind, session, seen, rateVars, relayVars>>

\* The runtime hibernates an idle object: sockets, attachments and the alarm
\* survive, the rate window does not.
Hibernate ==
    /\ quiet = WindowTicks /\ requests # <<>>
    /\ requests' = <<>>
    /\ UNCHANGED <<socketVars, alarm, admitted, quiet, relayVars>>

\* A deployment or a crash starts the object again without its sockets.
Restart ==
    /\ ready' = [s \in Socket |-> "none"]
    /\ kind' = [s \in Socket |-> "rejected"]
    /\ session' = [s \in Socket |-> Bootstrap]
    /\ seen' = [s \in Socket |-> 0]
    /\ requests' = <<>> /\ admitted' = <<>>
    /\ quiet' = 0
    /\ UNCHANGED <<alarm, relayVars>>

\* An agent's handshake takes less than a tick, and an alarm that is due has fired.
Tick ==
    /\ alarm # 0
    /\ \A s \in Socket : kind[s] = "agent" => ready[s] # "connecting"
    /\ alarm' = IF alarm = NoAlarm THEN NoAlarm ELSE alarm - 1
    /\ seen' = [s \in Socket |->
                  IF kind[s] = "agent" /\ seen[s] < HeartbeatTicks
                  THEN seen[s] + 1 ELSE seen[s]]
    /\ requests' = Grow(requests, WindowTicks)
    /\ admitted' = DropOlder(Grow(admitted, WindowTicks), WindowTicks)
    /\ quiet' = IF quiet < WindowTicks THEN quiet + 1 ELSE quiet
    /\ UNCHANGED <<ready, kind, session, relayVars>>

FromSocket(s) ==
    \/ AgentConnects(s)
    \/ \E id \in Session : ViewerConnects(s, id)
    \/ Opens(s) \/ BadMessage(s) \/ Heartbeat(s) \/ AgentMessage(s)
    \/ ViewerMessage(s) \/ SessionRequest(s)
    \/ ClientCloses(s) \/ CloseCompletes(s)

Next ==
    \/ \E s \in Socket : FromSocket(s)
    \/ Alarm \/ Hibernate \/ Restart
    \/ Tick

\* The platform finishes handshakes, delivers the alarm and lets time pass, which
\* agents that keep connecting cannot stop (strong fairness, because Tick waits
\* for their handshake); clients owe nothing.
Spec ==
    /\ Init
    /\ [][Next]_vars
    /\ \A s \in Socket : WF_vars(Opens(s)) /\ WF_vars(CloseCompletes(s))
    /\ WF_vars(Alarm)
    /\ SF_vars(Tick)

-----------------------------------------------------------------------------
(* Properties *)

\* One agent and one viewer at a time, sockets still in their handshake
\* included, whatever the order of joins, takeovers and closes; so findSocket()
\* never has a choice.
SingleOccupancy ==
    \A role \in {"agent", "viewer"} : \A s, t \in Socket :
        Occupies(s, role) /\ Occupies(t, role) => s = t

\* An agent in the room always has an alarm pending, at most one timeout away:
\* no early alarm, reconnect or late heartbeat of a closed socket loses it.
AgentHasDeadline == HasRole("agent") => alarm \in 0..HeartbeatTicks

\* Within one life of the object no window of time lets more than MaxEvents
\* session requests through, although hibernation forgets the window.
RequestsBounded == Len(admitted) <= MaxEvents

\* "Its auto-reconnect retries until the stale one's heartbeat watchdog frees the
\* slot": an agent's socket is heard from again and again, or gives up its slot.
SilentAgentFreed ==
    \A s \in Socket : []<>(~Occupies(s, "agent") \/ seen[s] = 0)
=============================================================================
