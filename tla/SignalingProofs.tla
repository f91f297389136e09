-------------------------- MODULE SignalingProofs --------------------------
(***************************************************************************)
(* What the signaling worker guarantees: its room, for any number of       *)
(* sockets and sessions and for any timeout, and, below, its tickets.      *)
(*                                                                         *)
(* AgentHasDeadline is not inductive: an alarm that fires while the agent  *)
(* is still in its handshake would be lost, because alarm() looks for an   *)
(* open agent.  FreshHandshake excludes it, and SingleOccupancy is what    *)
(* lets alarm() close the one agent it finds without orphaning another.    *)
(***************************************************************************)
EXTENDS SessionRoom, Access, SlidingWindowProofs

FreshHandshake ==
    \A s \in Socket :
        kind[s] = "agent" /\ ready[s] = "connecting" => alarm = HeartbeatTicks

RoomInv ==
    /\ SocketType
    /\ alarm \in NoAlarm..HeartbeatTicks
    /\ SingleOccupancy
    /\ AgentHasDeadline
    /\ FreshHandshake

\* A step that leaves the sockets' states and kinds and the alarm alone keeps the
\* invariant if it keeps the types.
LEMMA SocketsKept ==
    ASSUME RoomInv, UNCHANGED <<ready, kind, alarm>>, SocketType'
    PROVE  RoomInv'
BY DEF RoomInv, SingleOccupancy, AgentHasDeadline, FreshHandshake, Occupies, HasRole

\* Closing or forgetting sockets, with the alarm left alone, keeps the invariant:
\* it frees slots and never takes one.
LEMMA SocketsLeave ==
    ASSUME RoomInv, SocketType', UNCHANGED alarm,
           \A s \in Socket : \/ ready'[s] = ready[s] /\ kind'[s] = kind[s]
                             \/ ready'[s] \in {"none", "closing"}
    PROVE  RoomInv'
<1>1. \A s \in Socket, role \in {"agent", "viewer"} :
         Occupies(s, role)' => Occupies(s, role) /\ ready'[s] = ready[s]
  BY DEF Occupies
<1>2. SingleOccupancy'
  BY <1>1 DEF RoomInv, SingleOccupancy
<1>3. AgentHasDeadline'
  BY <1>1 DEF RoomInv, AgentHasDeadline, HasRole
<1>4. FreshHandshake'
  BY DEF RoomInv, FreshHandshake
<1> QED
  BY <1>2, <1>3, <1>4 DEF RoomInv

\* The empty room satisfies the invariant.
THEOREM InitRoomInv == Init => RoomInv
BY RoomAssumption
   DEF Init, RoomInv, SocketType, SingleOccupancy, AgentHasDeadline, FreshHandshake,
       Occupies, HasRole, NoAlarm, AnySession

\* Every handler, and everything that happens around it, keeps the invariant.
THEOREM NextRoomInv == RoomInv /\ [Next]_vars => RoomInv'
<1> SUFFICES ASSUME RoomInv, [Next]_vars
             PROVE  RoomInv'
  OBVIOUS
<1>0. HeartbeatTicks \in 0..HeartbeatTicks /\ HeartbeatTicks \in NoAlarm..HeartbeatTicks
  BY RoomAssumption DEF NoAlarm
<1>1. ASSUME NEW s \in Socket, AgentConnects(s)
      PROVE  RoomInv'
  <2> USE DEF AnySession
  <2>1. /\ \A t \in Socket : ready'[t] = IF t = s THEN "connecting" ELSE ready[t]
        /\ \A t \in Socket : kind'[t] = IF t = s THEN "agent" ELSE kind[t]
        /\ alarm' = HeartbeatTicks
    BY <1>1, RoomAssumption DEF AgentConnects, Accept, ScheduleHeartbeatDeadline, RoomInv,
       SocketType
  <2>2. SocketType'
    BY <1>1, RoomAssumption DEF AgentConnects, Accept, RoomInv, SocketType
  <2>3. \A t \in Socket : Occupies(t, "agent")' => t = s
    BY <1>1, <2>1 DEF AgentConnects, Occupies, HasRole
  <2>4. \A t \in Socket : Occupies(t, "viewer")' => Occupies(t, "viewer")
    BY <2>1 DEF Occupies
  <2>5. SingleOccupancy'
    BY <2>3, <2>4 DEF RoomInv, SingleOccupancy
  <2> QED
    BY <1>0, <2>1, <2>2, <2>5 DEF RoomInv, AgentHasDeadline, FreshHandshake
<1>2. ASSUME NEW s \in Socket, NEW id \in Session, ViewerConnects(s, id)
      PROVE  RoomInv'
  <2>1. SocketType'
    BY <1>2, RoomAssumption DEF ViewerConnects, Accept, RoomInv, SocketType, AnySession
  <2>2. CASE HasRole("agent")
    <3>1. \A t \in Socket :
             /\ kind'[t] = IF t = s THEN "viewer" ELSE kind[t]
             /\ ready'[t] = IF t = s THEN "connecting"
                            ELSE IF Occupies(t, "viewer") THEN "closing" ELSE ready[t]
      BY <1>2, <2>2 DEF ViewerConnects, Accept, RoomInv, SocketType
    <3>2. UNCHANGED alarm
      BY <1>2 DEF ViewerConnects
    <3>3. \A t \in Socket : Occupies(t, "viewer")' => t = s
      BY <3>1 DEF Occupies
    <3>4. \A t \in Socket : Occupies(t, "agent")' => Occupies(t, "agent")
      BY <3>1 DEF Occupies
    <3>5. SingleOccupancy'
      BY <3>3, <3>4 DEF RoomInv, SingleOccupancy
    <3>6. AgentHasDeadline' /\ FreshHandshake'
      BY <3>1, <3>2, <3>4 DEF RoomInv, AgentHasDeadline, FreshHandshake, HasRole
    <3> QED
      BY <2>1, <3>2, <3>5, <3>6 DEF RoomInv
  <2>3. CASE ~HasRole("agent")
    <3>1. \A t \in Socket : \/ ready'[t] = ready[t] /\ kind'[t] = kind[t]
                            \/ ready'[t] \in {"none", "closing"}
      BY <1>2, <2>3 DEF ViewerConnects, Accept, RoomInv, SocketType
    <3> QED
      BY <1>2, <2>1, <3>1, SocketsLeave DEF ViewerConnects
  <2> QED
    BY <2>2, <2>3
<1>3. ASSUME NEW s \in Socket, Opens(s)
      PROVE  RoomInv'
  <2>1. SocketType'
    BY <1>3 DEF Opens, RoomInv, SocketType
  <2>2. \A t \in Socket, role \in {"agent", "viewer"} :
           Occupies(t, role)' => Occupies(t, role)
    BY <1>3 DEF Opens, Occupies, RoomInv, SocketType
  <2>3. SingleOccupancy'
    BY <2>2 DEF RoomInv, SingleOccupancy
  <2>4. AgentHasDeadline' /\ FreshHandshake'
    BY <1>3, <2>2 DEF Opens, RoomInv, AgentHasDeadline, FreshHandshake, HasRole, SocketType
  <2> QED
    BY <1>3, <2>1, <2>3, <2>4 DEF Opens, RoomInv
<1>4. ASSUME NEW s \in Socket, BadMessage(s) \/ ClientCloses(s) \/ CloseCompletes(s)
      PROVE  RoomInv'
  <2>1. SocketType' /\ UNCHANGED alarm
    BY <1>4, RoomAssumption
       DEF BadMessage, ClientCloses, CloseCompletes, Closes, RoomInv, SocketType, AnySession
  <2>2. \A t \in Socket : \/ ready'[t] = ready[t] /\ kind'[t] = kind[t]
                          \/ ready'[t] \in {"none", "closing"}
    BY <1>4 DEF BadMessage, ClientCloses, CloseCompletes, Closes, RoomInv, SocketType
  <2> QED
    BY <2>1, <2>2, SocketsLeave
<1>5. ASSUME NEW s \in Socket, Heartbeat(s)
      PROVE  RoomInv'
  <2>1. SocketType'
    BY <1>5, RoomAssumption DEF Heartbeat, Sees, RoomInv, SocketType
  <2>2. alarm' = HeartbeatTicks /\ UNCHANGED <<ready, kind>>
    BY <1>5, RoomAssumption DEF Heartbeat, ScheduleHeartbeatDeadline
  <2>3. SingleOccupancy'
    BY <2>2 DEF RoomInv, SingleOccupancy, Occupies
  <2> QED
    BY <1>0, <2>1, <2>2, <2>3 DEF RoomInv, AgentHasDeadline, FreshHandshake
<1>6. ASSUME NEW s \in Socket, AgentMessage(s) \/ ViewerMessage(s)
      PROVE  RoomInv'
  <2>1. SocketType' /\ UNCHANGED <<ready, kind, alarm>>
    <3>1. UNCHANGED <<ready, kind, session, alarm>> /\ Sees(s)
      BY <1>6 DEF AgentMessage, ViewerMessage
    <3> QED
      BY <3>1, RoomAssumption DEF Sees, RoomInv, SocketType
  <2> QED
    BY <2>1, SocketsKept
<1>7. ASSUME NEW s \in Socket, SessionRequest(s)
      PROVE  RoomInv'
  <2>1. SocketType' /\ UNCHANGED alarm
    BY <1>7 DEF SessionRequest, Closes, RoomInv, SocketType
  <2>2. \A t \in Socket : \/ ready'[t] = ready[t] /\ kind'[t] = kind[t]
                          \/ ready'[t] \in {"none", "closing"}
    BY <1>7 DEF SessionRequest, Closes, RoomInv, SocketType
  <2> QED
    BY <2>1, <2>2, SocketsLeave
<1>8. CASE Alarm
  <2>1. \A s \in Socket : ~(kind[s] = "agent" /\ ready[s] = "connecting")
    BY <1>8, RoomAssumption DEF Alarm, RoomInv, FreshHandshake
  <2>2. CASE Open("agent") = {}
    <3>1. ~HasRole("agent")
      BY <2>1, <2>2 DEF Open, HasRole, Occupies
    <3>2. UNCHANGED <<ready, kind, session, seen>> /\ alarm' = NoAlarm
      BY <1>8, <2>2 DEF Alarm
    <3> QED
      BY <2>1, <3>1, <3>2, RoomAssumption
         DEF RoomInv, SocketType, SingleOccupancy, AgentHasDeadline, FreshHandshake,
             HasRole, Occupies, NoAlarm
  <2>3. ASSUME NEW a \in Open("agent"), seen[a] >= HeartbeatTicks,
               alarm' = NoAlarm, Closes(a), UNCHANGED <<kind, session, seen>>
        PROVE  RoomInv'
    <3>1. SocketType' /\ a \in Socket
      BY <2>3 DEF Closes, RoomInv, SocketType, Open
    <3>2. \A t \in Socket : /\ kind'[t] = kind[t]
                            /\ ready'[t] = IF t = a THEN "closing" ELSE ready[t]
      BY <2>3, <3>1 DEF Closes, RoomInv, SocketType
    <3>3. \A t \in Socket, role \in {"agent", "viewer"} :
             Occupies(t, role)' => Occupies(t, role) /\ t # a
      BY <3>2 DEF Occupies
    <3>4. SingleOccupancy'
      BY <3>3 DEF RoomInv, SingleOccupancy
    <3>5. Occupies(a, "agent")
      BY <2>3 DEF Open, Occupies
    <3>6. ~HasRole("agent")'
      BY <3>1, <3>3, <3>5 DEF RoomInv, SingleOccupancy, HasRole
    <3>7. FreshHandshake'
      BY <2>1, <3>2 DEF FreshHandshake
    <3>8. alarm' \in NoAlarm..HeartbeatTicks
      BY <2>3, RoomAssumption DEF NoAlarm
    <3> QED
      BY <3>1, <3>4, <3>6, <3>7, <3>8 DEF RoomInv, AgentHasDeadline
  <2>4. ASSUME NEW a \in Open("agent"), ScheduleHeartbeatDeadline(seen[a]),
               UNCHANGED <<ready, kind, session, seen>>
        PROVE  RoomInv'
    <3>1. seen[a] \in 0..HeartbeatTicks
      BY DEF Open, RoomInv, SocketType
    <3>2. alarm' \in 0..HeartbeatTicks /\ alarm' \in NoAlarm..HeartbeatTicks
      BY <2>4, <3>1, RoomAssumption DEF ScheduleHeartbeatDeadline, NoAlarm
    <3> QED
      BY <2>1, <2>4, <3>2
         DEF RoomInv, SocketType, SingleOccupancy, AgentHasDeadline, FreshHandshake,
             Occupies
  <2> QED
    BY <1>8, <2>2, <2>3, <2>4 DEF Alarm
<1>9. CASE Hibernate
  <2>1. SocketType' /\ UNCHANGED <<ready, kind, alarm>>
    BY <1>9 DEF Hibernate, socketVars, RoomInv, SocketType
  <2> QED
    BY <2>1, SocketsKept
<1>10. CASE Restart
  <2>1. SocketType' /\ UNCHANGED alarm
    BY <1>10, RoomAssumption DEF Restart, SocketType, AnySession
  <2>2. \A t \in Socket : ready'[t] \in {"none", "closing"}
    BY <1>10 DEF Restart
  <2> QED
    BY <2>1, <2>2, SocketsLeave
<1>11. CASE Tick
  <2>1. UNCHANGED <<ready, kind, session>>
    BY <1>11 DEF Tick
  <2>2. \A s \in Socket : ~(kind[s] = "agent" /\ ready[s] = "connecting")
    BY <1>11 DEF Tick
  <2>3. seen' \in [Socket -> 0..HeartbeatTicks]
    BY <1>11, RoomAssumption DEF Tick, RoomInv, SocketType
  <2>4. SocketType'
    BY <2>1, <2>3 DEF RoomInv, SocketType
  <2>5. alarm' \in NoAlarm..HeartbeatTicks /\ (alarm # NoAlarm => alarm' \in 0..HeartbeatTicks)
    BY <1>11, RoomAssumption DEF Tick, RoomInv, NoAlarm
  <2>6. SingleOccupancy' /\ FreshHandshake'
    BY <2>1, <2>2 DEF RoomInv, SingleOccupancy, FreshHandshake, Occupies
  <2>7. HasRole("agent")' => HasRole("agent")
    BY <2>1 DEF HasRole, Occupies
  <2>8. AgentHasDeadline'
    BY <2>5, <2>7 DEF RoomInv, AgentHasDeadline, NoAlarm
  <2> QED
    BY <2>4, <2>5, <2>6, <2>8 DEF RoomInv
<1>12. CASE UNCHANGED vars
  <2>1. SocketType' /\ UNCHANGED <<ready, kind, alarm>>
    BY <1>12 DEF vars, socketVars, RoomInv, SocketType
  <2> QED
    BY <2>1, SocketsKept
<1> QED
  BY <1>1, <1>2, <1>3, <1>4, <1>5, <1>6, <1>7, <1>8, <1>9, <1>10, <1>11, <1>12
     DEF Next, FromSocket

\* The invariant holds throughout.
THEOREM RoomInvariance == Spec => []RoomInv
BY InitRoomInv, NextRoomInv, PTL DEF Spec

\* The room never holds two agents or two viewers, handshakes included.
THEOREM RoomIsExclusive == Spec => []SingleOccupancy
<1>1. RoomInv => SingleOccupancy
  BY DEF RoomInv
<1> QED
  BY <1>1, RoomInvariance, PTL

\* An agent in the room always has its heartbeat alarm pending.
THEOREM AgentAlwaysHasDeadline == Spec => []AgentHasDeadline
<1>1. RoomInv => AgentHasDeadline
  BY DEF RoomInv
<1> QED
  BY <1>1, RoomInvariance, PTL

-----------------------------------------------------------------------------
(* The limit on session requests.  Hibernation forgets the window, and the requests it still
   counted with it; Remembered says why none of them is within the last window by then. *)

\* What was let through is at least as old as the object has been quiet.
Remembered(log, age) == \A i \in DOMAIN log : log[i] >= age

RateInv ==
    /\ requests \in Seq(0..WindowTicks) /\ admitted \in Seq(0..WindowTicks)
    /\ quiet \in 0..WindowTicks
    /\ Limited(requests, admitted, WindowTicks, MaxEvents)
    /\ Remembered(admitted, quiet)

\* A tick ages what was let through as it ages the silence.
LEMMA RememberedGrows ==
    ASSUME NEW limit \in Nat, NEW log \in Seq(Nat), NEW age \in Nat,
           Recent(log, limit), Remembered(log, age),
           NEW d, d = DropOlder(Grow(log, limit), limit)
    PROVE  Remembered(d, age + 1)
<1>1. PICK l : l = Grow(log, limit)
  OBVIOUS
<1>2. /\ Len(log) \in Nat /\ DOMAIN log = 1..Len(log) /\ \A i \in 1..Len(log) : log[i] \in Nat
  BY AgesAt
<1>3. /\ l \in Seq(Nat) /\ Len(l) = Len(log)
      /\ \A i \in 1..Len(log) : l[i] = IF log[i] < limit THEN log[i] + 1 ELSE log[i]
  BY <1>1, GrowAt
<1>4. \A i \in 1..Len(log) : l[i] >= age + 1
  <2> SUFFICES ASSUME NEW i \in 1..Len(log) PROVE l[i] >= age + 1
    OBVIOUS
  <2>1. log[i] < limit /\ log[i] >= age /\ log[i] \in Nat
    BY <1>2 DEF Recent, Remembered
  <2> QED
    BY <1>3, <2>1
<1>5. \E k \in 0..Len(l) :
        /\ k = Cardinality(Stale(l, limit))
        /\ DropOlder(l, limit) \in Seq(Nat)
        /\ Len(DropOlder(l, limit)) = Len(l) - k
        /\ \A i \in 1..(Len(l) - k) : DropOlder(l, limit)[i] = l[i + k]
  BY <1>3, DropOlderAt
<1>6. PICK k \in 0..Len(l) :
        /\ d \in Seq(Nat) /\ Len(d) = Len(l) - k
        /\ \A i \in 1..(Len(l) - k) : d[i] = l[i + k]
  BY <1>1, <1>5
<1>7. DOMAIN d = 1..(Len(log) - k)
  BY <1>3, <1>6, AgesAt
<1>8. ASSUME NEW i \in DOMAIN d PROVE d[i] >= age + 1
  <2>1. i \in 1..(Len(l) - k) /\ i + k \in 1..Len(log)
    <3>1. i \in 1..(Len(log) - k) /\ k \in 0..Len(log) /\ Len(l) = Len(log)
      BY <1>3, <1>6, <1>7
    <3> QED
      BY <1>2, <3>1
  <2>2. d[i] = l[i + k]
    BY <1>6, <2>1
  <2> QED
    BY <1>4, <2>1, <2>2
<1> QED
  BY <1>8 DEF Remembered

\* An object that was quiet for a whole window let nothing through in it.
LEMMA QuietForgets ==
    ASSUME RateInv, quiet = WindowTicks
    PROVE  admitted = <<>>
<1>1. WindowTicks \in Nat /\ admitted \in Seq(Nat)
  BY RoomAssumption, AgesAreNat DEF RateInv
<1>2. /\ Len(admitted) \in Nat /\ DOMAIN admitted = 1..Len(admitted)
      /\ \A i \in 1..Len(admitted) : admitted[i] \in Nat
  BY <1>1, AgesAt
<1>3. \A i \in DOMAIN admitted : admitted[i] < WindowTicks /\ admitted[i] >= WindowTicks
  BY DEF RateInv, Limited, Recent, Remembered
<1>4. ~(1 \in DOMAIN admitted)
  BY <1>1, <1>2, <1>3
<1>5. Len(admitted) = 0
  BY <1>2, <1>4
<1> QED
  BY <1>1, <1>5, EmptySeq

\* Any age is at least 0.
LEMMA RememberedAtOnce ==
    ASSUME NEW n \in Nat, NEW log \in Seq(0..n)
    PROVE  Remembered(log, 0)
<1>1. log \in Seq(Nat)
  BY AgesAreNat
<1> QED
  BY <1>1, AgesAt DEF Remembered

\* session.request: evaluateRateLimit() admits it only if the pruned window has room.
LEMMA RequestRate ==
    ASSUME RateInv, NEW s \in Socket, SessionRequest(s)
    PROVE  RateInv'
<1>1. WindowTicks \in Nat \ {0} /\ MaxEvents \in Nat
  BY RoomAssumption
<1>2. requests \in Seq(0..WindowTicks) /\ admitted \in Seq(0..WindowTicks)
  BY DEF RateInv
<1>3. requests \in Seq(Nat) /\ admitted \in Seq(Nat)
  BY <1>1, <1>2, AgesAreNat
<1>4. Limited(requests, admitted, WindowTicks, MaxEvents)
  BY DEF RateInv
<1>5. Retained \in Seq(0..WindowTicks)
  BY <1>2, DropOlderType DEF Retained
<1>6. /\ Limited(Retained, admitted, WindowTicks, MaxEvents)
      /\ Len(Retained) < MaxEvents
           => Limited(Append(Retained, 0), Append(admitted, 0), WindowTicks, MaxEvents)
  BY <1>1, <1>3, <1>4, LimitedSpends DEF Retained
<1>7. quiet' = 0
  BY DEF SessionRequest
<1>8. CASE RequestAllowed
  <2>1. requests' = Append(Retained, 0) /\ admitted' = Append(admitted, 0)
    BY <1>8 DEF SessionRequest
  <2>2. requests' \in Seq(0..WindowTicks) /\ admitted' \in Seq(0..WindowTicks)
    BY <1>1, <1>2, <1>5, <2>1, AppendZeroType
  <2>3. Limited(requests', admitted', WindowTicks, MaxEvents)
    BY <1>6, <1>8, <2>1 DEF RequestAllowed
  <2>4. Remembered(admitted', quiet')
    BY <1>1, <1>7, <2>2, RememberedAtOnce
  <2> QED
    BY <1>1, <1>7, <2>2, <2>3, <2>4 DEF RateInv
<1>9. CASE ~RequestAllowed
  <2>1. requests' = Retained /\ admitted' = admitted
    BY <1>9 DEF SessionRequest
  <2>2. Remembered(admitted', quiet')
    BY <1>1, <1>2, <1>7, <2>1, RememberedAtOnce
  <2> QED
    BY <1>1, <1>2, <1>5, <1>6, <1>7, <2>1, <2>2 DEF RateInv
<1> QED
  BY <1>8, <1>9

\* Time passes.
LEMMA TickRate ==
    ASSUME RateInv, Tick
    PROVE  RateInv'
<1>1. WindowTicks \in Nat \ {0} /\ MaxEvents \in Nat /\ WindowTicks \in Nat
  BY RoomAssumption
<1>2. requests \in Seq(0..WindowTicks) /\ admitted \in Seq(0..WindowTicks)
  BY DEF RateInv
<1>3. requests \in Seq(Nat) /\ admitted \in Seq(Nat)
  BY <1>1, <1>2, AgesAreNat
<1>4. /\ requests' = Grow(requests, WindowTicks)
      /\ admitted' = DropOlder(Grow(admitted, WindowTicks), WindowTicks)
      /\ quiet' = IF quiet < WindowTicks THEN quiet + 1 ELSE quiet
  BY DEF Tick
<1>5. requests' \in Seq(0..WindowTicks) /\ admitted' \in Seq(0..WindowTicks)
  BY <1>1, <1>2, <1>4, GrowType, DropOlderType
<1>6. quiet \in 0..WindowTicks /\ quiet' \in 0..WindowTicks
  BY <1>1, <1>4 DEF RateInv
<1>7. Limited(requests', admitted', WindowTicks, MaxEvents)
  BY <1>1, <1>3, <1>4, LimitedGrows DEF RateInv
<1>8. Remembered(admitted', quiet + 1)
  BY <1>1, <1>3, <1>4, <1>6, RememberedGrows DEF RateInv, Limited
<1>9. Remembered(admitted', quiet')
  <2>1. admitted' \in Seq(Nat)
    BY <1>1, <1>5, AgesAreNat
  <2>2. \A i \in DOMAIN admitted' : admitted'[i] \in Nat
    BY <2>1, AgesAt
  <2> QED
    BY <1>1, <1>4, <1>6, <1>8, <2>2 DEF Remembered
<1> QED
  BY <1>5, <1>6, <1>7, <1>9 DEF RateInv

\* Every other step leaves the two windows alone, or empties them.
LEMMA StepRate ==
    ASSUME RateInv, [Next]_vars
    PROVE  RateInv'
<1>1. WindowTicks \in Nat /\ MaxEvents \in Nat
  BY RoomAssumption
<1>2. ASSUME UNCHANGED rateVars, quiet' = quiet \/ quiet' = 0 PROVE RateInv'
  <2>1. requests' = requests /\ admitted' = admitted
    BY <1>2 DEF rateVars
  <2>2. Remembered(admitted, 0)
    BY <1>1, RememberedAtOnce DEF RateInv
  <2>3. Remembered(admitted', quiet') /\ quiet' \in 0..WindowTicks
    BY <1>1, <1>2, <2>1, <2>2 DEF RateInv
  <2> QED
    BY <2>1, <2>3 DEF RateInv
<1>3. ASSUME requests' = <<>>, admitted' = <<>>, quiet' \in 0..WindowTicks PROVE RateInv'
  <2>1. Limited(<<>>, <<>>, WindowTicks, MaxEvents)
    BY <1>1, LimitedEmpty
  <2>2. requests' \in Seq(0..WindowTicks) /\ admitted' \in Seq(0..WindowTicks)
    BY <1>3
  <2>3. Remembered(admitted', quiet')
    BY <1>3 DEF Remembered
  <2> QED
    BY <1>3, <2>1, <2>2, <2>3 DEF RateInv
<1>4. ASSUME NEW s \in Socket, FromSocket(s) PROVE RateInv'
  <2>1. CASE SessionRequest(s)
    BY <2>1, RequestRate
  <2>2. CASE ~SessionRequest(s)
    <3>1. UNCHANGED rateVars /\ (quiet' = quiet \/ quiet' = 0)
      BY <1>4, <2>2 DEF FromSocket, AgentConnects, ViewerConnects, Opens, BadMessage,
                        Heartbeat, AgentMessage, ViewerMessage, ClientCloses, CloseCompletes
    <3> QED
      BY <1>2, <3>1
  <2> QED
    BY <2>1, <2>2
<1>5. CASE Alarm
  BY <1>2, <1>5 DEF Alarm
<1>6. CASE Hibernate
  <2>1. requests' = <<>> /\ admitted' = admitted /\ quiet' = quiet /\ quiet = WindowTicks
    BY <1>6 DEF Hibernate
  <2>2. admitted = <<>>
    BY <2>1, QuietForgets
  <2>3. quiet' \in 0..WindowTicks
    BY <2>1 DEF RateInv
  <2> QED
    BY <1>3, <2>1, <2>2, <2>3
<1>7. CASE Restart
  BY <1>1, <1>3, <1>7 DEF Restart
<1>8. CASE Tick
  BY <1>8, TickRate
<1>9. CASE UNCHANGED vars
  BY <1>2, <1>9 DEF vars, rateVars
<1> QED
  BY <1>4, <1>5, <1>6, <1>7, <1>8, <1>9 DEF Next

\* Both windows, and the silence, are as RateInv says in every reachable state.
THEOREM RateInvariance == Spec => []RateInv
<1>1. Init => RateInv
  <2> SUFFICES ASSUME Init PROVE RateInv
    OBVIOUS
  <2>1. requests = <<>> /\ admitted = <<>> /\ quiet = 0
    BY DEF Init
  <2>2. WindowTicks \in Nat /\ MaxEvents \in Nat
    BY RoomAssumption
  <2>3. Limited(<<>>, <<>>, WindowTicks, MaxEvents)
    BY <2>2, LimitedEmpty
  <2>4. requests \in Seq(0..WindowTicks) /\ admitted \in Seq(0..WindowTicks)
    BY <2>1
  <2>5. Remembered(admitted, quiet)
    BY <2>1 DEF Remembered
  <2> QED
    BY <2>1, <2>2, <2>3, <2>4, <2>5 DEF RateInv
<1>2. RateInv /\ [Next]_vars => RateInv'
  BY StepRate
<1> QED
  BY <1>1, <1>2, PTL DEF Spec

\* RequestsBounded: no stretch of windowMs lets more than maxEvents session requests through
\* (evaluateRateLimit(), rateLimit.ts), although a hibernating object forgets them.
THEOREM RequestsAreLimited == Spec => []RequestsBounded
<1>1. RateInv => RequestsBounded
  <2> SUFFICES ASSUME RateInv PROVE RequestsBounded
    OBVIOUS
  <2>1. WindowTicks \in Nat /\ MaxEvents \in Nat
    BY RoomAssumption
  <2>2. requests \in Seq(Nat) /\ admitted \in Seq(Nat)
    BY <2>1, AgesAreNat DEF RateInv
  <2> QED
    BY <2>1, <2>2, LimitedBounds DEF RateInv, RequestsBounded
<1> QED
  BY <1>1, RateInvariance, PTL

\* The sessions on the agent's messages are sessions of tickets, or its own.
RelayType == adopted \in AnySession /\ relayed \in [of : AnySession, to : AnySession]

\* A session the agent adopts, or a message is relayed to, is a socket's.
LEMMA StepRelay ==
    ASSUME SocketType, RelayType, [Next]_vars
    PROVE  RelayType'
<1> USE DEF RelayType, SocketType, AnySession, relayVars
<1>1. ASSUME NEW s \in Socket, FromSocket(s) PROVE RelayType'
  <2>1. CASE AgentConnects(s)
    BY <2>1 DEF AgentConnects
  <2>2. CASE AgentMessage(s)
    <3>1. CASE Open("viewer") = {}
      BY <2>2, <3>1 DEF AgentMessage
    <3>2. CASE Open("viewer") # {}
      <4>1. PICK v \in Open("viewer") : relayed' = [of |-> adopted, to |-> session[v]]
        BY <2>2, <3>2 DEF AgentMessage
      <4>2. v \in Socket /\ adopted' = adopted
        BY <2>2 DEF AgentMessage, Open
      <4> QED
        BY <4>1, <4>2
    <3> QED
      BY <3>1, <3>2
  <2>3. CASE SessionRequest(s)
    <3>1. adopted' \in {adopted, session[s]} /\ relayed' = relayed
      BY <2>3 DEF SessionRequest
    <3> QED
      BY <3>1
  <2>4. CASE ~(AgentConnects(s) \/ AgentMessage(s) \/ SessionRequest(s))
    <3>1. UNCHANGED relayVars
      BY <1>1, <2>4 DEF FromSocket, ViewerConnects, Opens, BadMessage, Heartbeat,
                        ViewerMessage, ClientCloses, CloseCompletes
    <3> QED
      BY <3>1
  <2> QED
    BY <2>1, <2>2, <2>3, <2>4
<1>2. CASE Alarm \/ Hibernate \/ Restart \/ Tick
  BY <1>2 DEF Alarm, Hibernate, Restart, Tick
<1>3. CASE UNCHANGED vars
  BY <1>3 DEF vars
<1> QED
  BY <1>1, <1>2, <1>3 DEF Next

\* TypeOK: the room's state keeps its type; ages and deadlines stay within their limits.
THEOREM RoomTypeCorrect == Spec => []TypeOK
<1>1. Init => RelayType
  BY DEF Init, RelayType, AnySession
<1>2. RoomInv /\ RelayType /\ [Next]_vars => RelayType'
  BY StepRelay DEF RoomInv
<1>3. RoomInv /\ RateInv /\ RelayType => TypeOK
  BY DEF RoomInv, RateInv, RelayType, TypeOK
<1> QED
  BY <1>1, <1>2, <1>3, RoomInvariance, RateInvariance, PTL DEF Spec

-----------------------------------------------------------------------------
(* Access, for any accounts, secrets, lifetimes and clocks.  A reply is about a token,
   and what it says of the user comes from the step that signed it: every session ticket in
   circulation has the grant it was made from, of the same time, session and subject. *)

\* Who signs what: a session ticket stands for a grant of Access.
TokenOK(t) ==
    /\ t.key \in Secret /\ t.iat \in Int /\ t.exp \in Int /\ t.iat < t.exp
    /\ t.iss = "my-mirror-prod-v1" =>
         /\ t.role = "viewer" /\ t.exp = t.iat + Lifetime
         /\ \E g \in grants : g.sub = t.sub /\ g.sessionId = t.sessionId /\ g.at = t.iat

TokensOK == IsFiniteSet(tokens) /\ \A t \in tokens : TokenOK(t)

GrantsOK == \A g \in grants : g.at \in Int

\* What the last reply says is right.
RepliesRight == RolesKeptApart /\ FreshTicketAccepted /\ RelayForPeersOnly /\ ViewersWereEntitled

AccessIInv == AccessTypeOK /\ TokensOK /\ GrantsOK /\ RepliesRight

\* A ticket's subject is one of the ids its account is known by.
EveryoneNamed == \A a \in Account : Sub(a) \in Ids(a)

-----------------------------------------------------------------------------
\* An account has at least a subject.
LEMMA AccountsNamed == EveryoneNamed
  BY AccountAssumption, Zenon DEF EveryoneNamed, Sub, Ids

\* Clocks and lifetimes are numbers.
LEMMA Numbers ==
    ASSUME AccessTypeOK
    PROVE  /\ time \in Nat /\ time <= MaxTime /\ MaxTime \in Nat
           /\ offset \in Int /\ Skew \in Nat /\ Lifetime \in Nat /\ Lifetime > 0
           /\ DeviceLifetime \in Nat /\ DeviceLifetime > 0 /\ AssertionLifetime \in Nat
           /\ MaxTokens \in Nat
<1>1. time \in 0..MaxTime /\ offset \in Offset
  BY DEF AccessTypeOK
<1>2. MaxTime \in Nat /\ Offset \subseteq Int /\ MaxTokens \in Nat
  BY AccessAssumption
<1>3. /\ Lifetime \in Nat \ {0} /\ DeviceLifetime \in Nat \ {0} /\ Skew \in Nat
      /\ AssertionLifetime \in Nat \ {0}
  BY AccessAssumption
<1> QED
  BY <1>1, <1>2, <1>3

-----------------------------------------------------------------------------
(* Replies *)

\* Only the Worker's replies are about a token that was presented.
LEMMA OtherReply ==
    ASSUME reply'.what \in {"none", "ticket"}
    PROVE  RepliesRight'
  BY DEF RepliesRight, RolesKeptApart, FreshTicketAccepted, RelayForPeersOnly,
         ViewersWereEntitled, Accepted

\* A step that answers no request leaves no reply.
LEMMA QuietReply ==
    ASSUME Quiet
    PROVE  RepliesRight'
<1>1. reply'.what = "none"
  BY DEF Quiet, NoReply
<1> QED
  BY <1>1, OtherReply

\* handleTurnRequest() gives credentials for a token one of its secrets signed, in time.
LEMMA TurnRight ==
    ASSUME AccessIInv, NEW t \in tokens \union {None}, Turn(t)
    PROVE  RepliesRight'
<1>1. /\ reply'.what = "turn" /\ reply'.token = t /\ UNCHANGED <<time, configVars>>
      /\ reply'.code = "ok" => t # None /\ IsAuthenticatedPeer(t)
  BY DEF Turn, Respond
<1>2. RelayForPeersOnly'
  BY <1>1 DEF RelayForPeersOnly, IsAuthenticatedPeer, VerifySessionTicket,
     VerifyDeviceToken,
              SignedWith, IsSessionTicketPayload, IsDeviceTokenPayload, InTime,
              WorkerNow, configVars
<1> QED
  BY <1>1, <1>2 DEF RepliesRight, RolesKeptApart, FreshTicketAccepted,
     ViewersWereEntitled, Accepted

\* handleWebSocketUpgrade() accepts a viewer with a session ticket of its own key, in time.
LEMMA UpgradeRight ==
    ASSUME AccessIInv, NEW t \in tokens \union {None},
           NEW o \in Origins, NEW local \in BOOLEAN,
           Upgrade(t, o, local)
    PROVE  RepliesRight'
<1> DEFINE role == IF local /\ t # None THEN t.role ELSE IF o = None THEN "agent" ELSE "viewer"
<1>1. /\ reply'.what = "ws" /\ reply'.token = t /\ reply'.origin = o /\ reply'.local = local
      /\ reply'.role = role
      /\ reply'.code = IF local THEN DevUpgrade(t, o) ELSE ProductionUpgrade(t, o)
  BY DEF Upgrade, Respond
<1>2. UNCHANGED <<time, configVars, tokens, grants>>
  BY DEF Upgrade
<1>3. RelayForPeersOnly'
  BY <1>1 DEF RelayForPeersOnly
<1>4. ASSUME local
      PROVE  RolesKeptApart' /\ FreshTicketAccepted' /\ ViewersWereEntitled'
  <2>1. reply'.code = "accepted" => t.iss = "my-mirror-m0-local"
    BY <1>1, <1>4 DEF DevUpgrade, VerifyDevelopmentTicket,
       IsDevelopmentTicketPayload
  <2> QED
    BY <1>1, <1>4, <2>1 DEF RolesKeptApart, FreshTicketAccepted,
       ViewersWereEntitled, Accepted
<1>5. ASSUME ~local, o = None
      PROVE  RolesKeptApart' /\ FreshTicketAccepted' /\ ViewersWereEntitled'
  <2>1. reply'.code = "accepted" => t.iss = "my-mirror-device-v1"
    BY <1>1, <1>5 DEF ProductionUpgrade, AgentUpgrade, VerifyDeviceToken,
       IsDeviceTokenPayload
  <2>2. o # AppOrigin
    BY <1>5, AccessAssumption DEF AppOrigin
  <2> QED
    BY <1>1, <1>5, <2>1, <2>2
       DEF RolesKeptApart, FreshTicketAccepted, ViewersWereEntitled, Accepted
<1>6. ASSUME ~local, o # None
      PROVE  RolesKeptApart' /\ FreshTicketAccepted' /\ ViewersWereEntitled'
  <2>1. reply'.code = ViewerUpgrade(t, o) /\ reply'.role = "viewer"
    BY <1>1, <1>6 DEF ProductionUpgrade
  <2>2. ASSUME reply'.code = "accepted"
        PROVE  t \in tokens /\ t.iss = "my-mirror-prod-v1" /\ t.exp > WorkerNow
    BY <2>1, <2>2 DEF ViewerUpgrade, VerifySessionTicket, IsSessionTicketPayload,
       InTime
  <2>3. RolesKeptApart'
    BY <1>1, <1>6, <2>1, <2>2 DEF RolesKeptApart, Accepted
  <2>4. ViewersWereEntitled'
    <3> SUFFICES ASSUME reply'.code = "accepted"
                 PROVE  \E g \in grants : /\ g.sub = t.sub /\ g.sessionId = t.sessionId
                                          /\ time - g.at < Lifetime - offset
      BY <1>1, <1>2 DEF ViewersWereEntitled, Accepted, configVars
    <3>1. PICK g \in grants : g.sub = t.sub /\ g.sessionId = t.sessionId /\ g.at = t.iat
      BY <2>2 DEF AccessIInv, TokensOK, TokenOK
    <3>2. t.iat \in Int /\ t.exp = t.iat + Lifetime /\ t.exp > time + offset
      BY <2>2 DEF AccessIInv, TokensOK, TokenOK, WorkerNow
    <3>3. time \in Int /\ offset \in Int /\ Lifetime \in Int
      BY Numbers DEF AccessIInv
    <3>4. time - g.at < Lifetime - offset
      BY <3>1, <3>2, <3>3
    <3> QED
      BY <3>1, <3>4
  <2>5. FreshTicketAccepted'
    <3> SUFFICES ASSUME o = AppOrigin, t # None, t.iss = "my-mirror-prod-v1", t.iat = time,
                        t.key = ticketSecret, -Skew <= offset, offset < Lifetime
                 PROVE  reply'.code = "accepted"
      BY <1>1, <1>2 DEF FreshTicketAccepted, configVars
    <3>1. t \in tokens
      OBVIOUS
    <3>2. t.key \in Secret /\ t.role = "viewer" /\ t.exp = t.iat + Lifetime
      BY <3>1 DEF AccessIInv, TokensOK, TokenOK
    <3>3. ticketSecret # None
      BY <3>2, AccessAssumption
    <3>4. ~(viewerOrigin # None /\ o # viewerOrigin)
      BY DEF AccessIInv, AccessTypeOK
    <3>5. time \in Int /\ offset \in Int /\ Skew \in Nat /\ Lifetime \in Nat
      BY Numbers DEF AccessIInv
    <3>6. InTime(t, 3 * Lifetime)
      BY <3>2, <3>5 DEF InTime, WorkerNow
    <3> QED
      BY <2>1, <3>2, <3>3, <3>4, <3>6
         DEF ViewerUpgrade, VerifySessionTicket, SignedWith,
             IsSessionTicketPayload
  <2> QED
    BY <2>3, <2>4, <2>5
<1> QED
  BY <1>3, <1>4, <1>5, <1>6 DEF RepliesRight

-----------------------------------------------------------------------------
(* Tokens *)

\* A service that signs one more token keeps the others, and the grants they stand for.
LEMMA AddToken ==
    ASSUME AccessTypeOK, TokensOK, NEW t, Add(t), TokenOK(t)',
           grants \subseteq grants'
    PROVE  /\ TokensOK' /\ Cardinality(tokens') <= MaxTokens
           /\ \A u \in tokens' : u.key \in Secret /\ u.iat < u.exp
<1>1. /\ IsFiniteSet(tokens') /\ Cardinality(tokens') \in Nat
      /\ Cardinality(tokens') <= Cardinality(tokens) + 1
  BY FS_AddElement, FS_CardinalityType DEF Add, TokensOK
<1>2. Cardinality(tokens') <= MaxTokens
  <2>1. Cardinality(tokens) \in Nat
    BY FS_CardinalityType DEF TokensOK
  <2> QED
    BY <1>1, <2>1, Numbers DEF Add
<1>3. ASSUME NEW u \in tokens PROVE TokenOK(u)'
  BY <1>3 DEF TokensOK, TokenOK
<1>4. \A u \in tokens' : TokenOK(u)'
  BY <1>3 DEF Add
<1> QED
  BY <1>1, <1>2, <1>4 DEF TokensOK, TokenOK

\* The step of handleSessionTicketRequest() that signs a ticket is the one that looks at
\* the assertion and the list.
LEMMA TicketStep ==
    ASSUME AccessIInv, NEW a \in Account,
           NEW r \in SessionId \union {None, "bad"}, SessionTicket(a, r)
    PROVE  AccessIInv'
<1>1. UNCHANGED <<time, configVars, allowed, assertion>>
  BY DEF SessionTicket
<1>2. RepliesRight'
  <2>1. reply'.what = "ticket"
    BY DEF SessionTicket, Refuse, Respond
  <2> QED
    BY <2>1, OtherReply
<1>3. CASE UNCHANGED <<tokens, grants>>
  BY <1>1, <1>2, <1>3 DEF AccessIInv, AccessTypeOK, TokensOK, TokenOK, GrantsOK, configVars
<1>4. CASE ~UNCHANGED <<tokens, grants>>
  <2>1. /\ issuerSecret # None /\ VerifyAccessJwt(a) /\ issuerSecret # ShortSecret
        /\ \E s \in SessionFor(r) :
             /\ Add(Token("my-mirror-prod-v1", "viewer", issuerSecret, time, Lifetime, Sub(a), s))
             /\ grants' = IF Entitled(a)
                          THEN grants \union {[sub |-> Sub(a), sessionId |-> s, at |-> time]}
                          ELSE grants
    BY <1>4 DEF SessionTicket, Refuse
  <2>2. PICK s \in SessionFor(r) :
             /\ Add(Token("my-mirror-prod-v1", "viewer", issuerSecret, time, Lifetime, Sub(a), s))
             /\ grants' = IF Entitled(a)
                          THEN grants \union {[sub |-> Sub(a), sessionId |-> s, at |-> time]}
                          ELSE grants
    BY <2>1
  <2>t. PICK t : t = Token("my-mirror-prod-v1", "viewer", issuerSecret, time, Lifetime, Sub(a), s)
    OBVIOUS
  <2>g. PICK g : g = [sub |-> Sub(a), sessionId |-> s, at |-> time]
    OBVIOUS
  <2>3. Add(t) /\ grants' = grants \union {g}
    BY <2>1, <2>2, <2>t, <2>g DEF Entitled, VerifyAccessJwt
  <2>4. issuerSecret \in Secret
    BY <2>1 DEF AccessIInv, AccessTypeOK
  <2>5. TokenOK(t)'
    <3>1. /\ t.key = issuerSecret /\ t.iat = time /\ t.exp = time + Lifetime
          /\ t.role = "viewer" /\ t.sub = Sub(a) /\ t.sessionId = s
      BY <2>t DEF Token
    <3>2. g.sub = t.sub /\ g.sessionId = t.sessionId /\ g.at = t.iat
      BY <2>g, <3>1
    <3>3. t.iat \in Int /\ t.exp \in Int /\ t.iat < t.exp
      BY <3>1, Numbers DEF AccessIInv
    <3>4. g \in grants'
      BY <2>3
    <3> QED
      BY <2>4, <3>1, <3>2, <3>3, <3>4 DEF TokenOK
  <2>6. /\ TokensOK' /\ Cardinality(tokens') <= MaxTokens
        /\ \A u \in tokens' : u.key \in Secret /\ u.iat < u.exp
    BY <2>3, <2>5, AddToken DEF AccessIInv
  <2>7. \A h \in grants' : h.at \in Int /\ h.at <= time
    BY <2>g, <2>3, Numbers DEF AccessIInv, GrantsOK, AccessTypeOK
  <2> QED
    BY <1>1, <1>2, <2>6, <2>7 DEF AccessIInv, AccessTypeOK, GrantsOK,
       configVars
<1> QED
  BY <1>3, <1>4

\* The operator's tokens are of other issuers.
LEMMA MintStep ==
    ASSUME AccessIInv, Quiet, NEW t, Add(t), t.key \in Secret,
           t.iat \in Int, t.exp \in Int,
           t.iat < t.exp, t.iss # "my-mirror-prod-v1",
           UNCHANGED <<time, configVars, allowed, assertion, grants>>
    PROVE  AccessIInv'
<1>1. /\ TokensOK' /\ Cardinality(tokens') <= MaxTokens
      /\ \A u \in tokens' : u.key \in Secret /\ u.iat < u.exp
  BY AddToken DEF AccessIInv, TokenOK
<1> QED
  BY <1>1, QuietReply DEF AccessIInv, AccessTypeOK, GrantsOK, configVars

-----------------------------------------------------------------------------
(* The invariant is inductive *)

\* Nothing is signed and nobody is signed in at first.
LEMMA InitAccess == AccessInit => AccessIInv
<1> SUFFICES ASSUME AccessInit PROVE AccessIInv
  OBVIOUS
<1>1. RepliesRight
  BY DEF AccessInit, NoReply, RepliesRight, RolesKeptApart, FreshTicketAccepted,
     RelayForPeersOnly,
         ViewersWereEntitled, Accepted
<1>2. IsFiniteSet(tokens) /\ Cardinality(tokens) <= MaxTokens
  <2>1. MaxTokens \in Nat
    BY AccessAssumption
  <2> QED
    BY <2>1, FS_EmptySet DEF AccessInit
<1>3. time \in 0..MaxTime /\ assertion \in [Account -> 0..MaxTime + AssertionLifetime]
  <2>1. MaxTime \in Nat /\ AssertionLifetime \in Nat
    BY AccessAssumption
  <2> QED
    BY <2>1 DEF AccessInit
<1> QED
  BY <1>1, <1>2, <1>3 DEF AccessInit, AccessIInv, AccessTypeOK, TokensOK, GrantsOK

\* Every step of the services, their operator and their users keeps it.
LEMMA AccessStep ==
    AccessIInv /\ [AccessNext]_accessVars => AccessIInv'
<1> SUFFICES ASSUME AccessIInv, [AccessNext]_accessVars
             PROVE AccessIInv'
  OBVIOUS
<1>1. CASE ClockTick
  <2>1. time' \in 0..MaxTime /\ \A g \in grants : g.at <= time'
    BY <1>1, Numbers DEF ClockTick, AccessIInv, AccessTypeOK, GrantsOK
  <2> QED
    BY <1>1, <2>1, QuietReply DEF ClockTick, AccessIInv, AccessTypeOK, TokensOK, TokenOK, GrantsOK,
       configVars
<1>2. CASE MintDeviceToken
  <2>1. PICK s \in SessionId : Add(Token("my-mirror-device-v1", "agent", deviceAuthSecret,
                                       WorkerNow, DeviceLifetime, "owner", s))
    BY <1>2 DEF MintDeviceToken
  <2>2. WorkerNow \in Int /\ WorkerNow + DeviceLifetime \in Int /\ WorkerNow < WorkerNow + DeviceLifetime
    BY Numbers DEF AccessIInv, WorkerNow
  <2> QED
    BY <1>2, <2>1, <2>2, MintStep DEF MintDeviceToken, Token
<1>3. ASSUME NEW role \in {"agent", "viewer"}, MintDevelopmentTicket(role) PROVE AccessIInv'
  <2>1. PICK s \in SessionId : Add(Token("my-mirror-m0-local", role, devSecret, WorkerNow,
                                       Lifetime, LocalUser, s))
    BY <1>3 DEF MintDevelopmentTicket
  <2>2. WorkerNow \in Int /\ WorkerNow + Lifetime \in Int /\ WorkerNow < WorkerNow + Lifetime
    BY Numbers DEF AccessIInv, WorkerNow
  <2> QED
    BY <1>3, <2>1, <2>2, MintStep DEF MintDevelopmentTicket, Token
<1>4. ASSUME NEW a \in Account, SignIn(a) PROVE AccessIInv'
  <2>1. assertion' \in [Account -> 0..MaxTime + AssertionLifetime]
    BY <1>4, Numbers DEF SignIn, AccessIInv, AccessTypeOK
  <2> QED
    BY <1>4, <2>1, QuietReply DEF SignIn, AccessIInv, AccessTypeOK, TokensOK, TokenOK,
       GrantsOK, configVars
<1>5. ASSUME NEW a \in Account, SignOut(a) PROVE AccessIInv'
  <2>1. assertion' \in [Account -> 0..MaxTime + AssertionLifetime]
    BY <1>5, Numbers DEF SignOut, AccessIInv, AccessTypeOK
  <2> QED
    BY <1>5, <2>1, QuietReply DEF SignOut, AccessIInv, AccessTypeOK, TokensOK, TokenOK,
       GrantsOK, configVars
<1>6. ASSUME NEW a \in Account, SetAllowed({Sub(a)}) PROVE AccessIInv'
  <2>1. Sub(a) \in Ids(a)
    BY AccountsNamed DEF EveryoneNamed
  <2>2. allowed' \subseteq UNION {Ids(b) : b \in Account}
    BY <1>6, <2>1 DEF SetAllowed
  <2> QED
    BY <1>6, <2>2, QuietReply DEF SetAllowed, AccessIInv, AccessTypeOK, TokensOK, TokenOK,
       GrantsOK, configVars
<1>7. ASSUME NEW a \in Account, NEW r \in SessionId \union {None, "bad"}, SessionTicket(a, r)
      PROVE  AccessIInv'
  BY <1>7, TicketStep
<1>8. ASSUME NEW t \in tokens \union {None}, Turn(t) PROVE AccessIInv'
  BY <1>8, TurnRight DEF Turn, AccessIInv, AccessTypeOK, TokensOK, TokenOK, GrantsOK,
     configVars
<1>9. ASSUME NEW t \in tokens \union {None}, NEW o \in Origins, NEW local \in BOOLEAN,
             Upgrade(t, o, local)
      PROVE  AccessIInv'
  BY <1>9, UpgradeRight DEF Upgrade, AccessIInv, AccessTypeOK, TokensOK, TokenOK, GrantsOK,
     configVars
<1>10. CASE UNCHANGED accessVars
  BY <1>10 DEF accessVars, configVars, AccessIInv, AccessTypeOK, TokensOK, TokenOK, GrantsOK,
     RepliesRight,
     RolesKeptApart, FreshTicketAccepted, RelayForPeersOnly,
     ViewersWereEntitled, Accepted
<1> QED
  BY <1>1, <1>2, <1>3, <1>4, <1>5, <1>6, <1>7, <1>8, <1>9, <1>10 DEF AccessNext

\* Every ticket in circulation stands for a grant, and every reply is right about its token.
THEOREM TicketsCorrect == AccessSpec => []AccessIInv
  BY InitAccess, AccessStep, PTL DEF AccessSpec

\* The kind of a token decides the role it is accepted for, a fresh ticket is accepted
\* within the clocks' tolerance, and relay credentials go to authenticated peers only
\* (productionWebSocket.ts, turnCredentials.ts).
THEOREM AccessCorrect == AccessSpec => []AccessInv
<1>1. AccessIInv => AccessInv
  BY DEF AccessIInv, RepliesRight, AccessInv
<1> QED
  BY <1>1, TicketsCorrect, PTL

\* A viewer in the production room is one Access vouched for less than a ticket's lifetime
\* ago, up to the difference of the clocks (ticket.ts, sessionTicket.ts).
THEOREM EntitledCorrect == AccessSpec => []ViewersWereEntitled
<1>1. AccessIInv => ViewersWereEntitled
  BY DEF AccessIInv, RepliesRight
<1> QED
  BY <1>1, TicketsCorrect, PTL

=============================================================================
