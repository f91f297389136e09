---------------------------- MODULE ViewerProofs ----------------------------
(***************************************************************************)
(* What the viewer guarantees: its connection cycle, for any number of     *)
(* ticket requests, sockets and peers that outlive their cycle, and,       *)
(* below, its capture of the user's input.                                 *)
(*                                                                         *)
(* The properties are not inductive by themselves: that a reservation      *)
(* starts clean depends on a socket being opened only while offline, and   *)
(* that recovery opens no second socket on the one before being gone.      *)
(* OwnFetch, OwnSocket, OwnPeer and RecoveryAlone say what the active      *)
(* cycle can own at each stage.                                            *)
(***************************************************************************)
EXTENDS ViewerSession, InputCapture, TLAPS

\* A ticket request of the active cycle is either all the cycle has, before its first
\* socket, or a recovery's, while no socket is left.
OwnFetch ==
    /\ \A f \in Fetch : f \in own =>
          \/ fetch[f] \in {"user", "auto"} /\ own = {f} /\ state = "offline"
          \/ fetch[f] = "resume" /\ state \in Active /\ \A s \in Socket : s \notin own
    /\ \A f, g \in Fetch : f \in own /\ g \in own => f = g

\* A socket of the active cycle is live; one that resumes has an active session, one
\* that does not is opened while offline.
OwnSocket ==
    /\ \A s \in Socket : s \in own =>
          /\ socket[s] # "none" /\ webSocket = s
          /\ s \in resume => state \in Active
          /\ s \notin resume /\ socket[s] = "connecting" => state = "offline"
    /\ \A s \in Socket : socket[s] = "none" => s \notin resume

\* A peer of the active cycle means negotiation at least.
OwnPeer == \A p \in Peer : p \in own => state \in {"negotiating"} \union Active

\* A recovery under way replaces a socket that is gone, and its timer is the only one.
RecoveryAlone ==
    /\ recovery # "none" => state \in Active /\ \A s \in Socket : s \notin own
    /\ recovery = "timer" => \A f \in Fetch : f \notin own

IInv ==
    /\ TypeOK
    /\ OwnFetch /\ OwnSocket /\ OwnPeer /\ RecoveryAlone
    /\ OfflineIsClean
    /\ ActiveHasPeer
    /\ NoRetryAfterDisconnect
\* Nothing is open at the start.
THEOREM InitIInv == Init => IInv
<1> SUFFICES ASSUME Init
             PROVE  IInv
  OBVIOUS
<1>1. TypeOK
  <2>1. HandleType
    BY ViewerAssumption DEF Init, HandleType
  <2>2. FlagType
    BY DEF Init, FlagType
  <2> QED
    BY <2>1, <2>2 DEF TypeOK
<1>2. OwnFetch /\ OwnSocket /\ OwnPeer /\ RecoveryAlone
  BY DEF Init, OwnFetch, OwnSocket, OwnPeer, RecoveryAlone
<1>3. OfflineIsClean /\ ActiveHasPeer /\ NoRetryAfterDisconnect
  BY DEF Init, OfflineIsClean, ActiveHasPeer, NoRetryAfterDisconnect, Active
<1> QED
  BY <1>1, <1>2, <1>3 DEF IInv

\* teardownForCycle() keeps the types, whatever is being torn down.
LEMMA TeardownTypes ==
    ASSUME TypeOK, NEW gone, TeardownForCycle(gone),
           retry' \in BOOLEAN, attempts' \in 0..MaxAttempts, establish' \in BOOLEAN,
           resume' \subseteq Socket, suppressed' \subseteq Socket, offering' \subseteq
           Peer,
           userDisconnected' \in BOOLEAN, UNCHANGED <<fetch, mounted>>
    PROVE  TypeOK'
<1>1. HandleType'
  BY DEF TypeOK, HandleType, TeardownForCycle, ReleaseResources
<1>2. FlagType'
  <2>1. CASE TrulyIdle(gone)
    BY <2>1 DEF TypeOK, FlagType, TeardownForCycle, readyVars
  <2>2. CASE ~TrulyIdle(gone)
    BY <2>2 DEF TypeOK, FlagType, TeardownForCycle, ReleaseResources
  <2> QED
    BY <2>1, <2>2
<1> QED
  BY <1>1, <1>2 DEF TypeOK

\* scheduleAutoReconnect() keeps the types and is silent after a disconnect.
LEMMA ScheduleTypes ==
    ASSUME TypeOK, NEW pending \in BOOLEAN, ScheduleAutoReconnect(pending)
    PROVE  /\ attempts' \in 0..MaxAttempts /\ retry' \in BOOLEAN
           /\ userDisconnected /\ ~pending => ~retry'
<1>1. attempts' \in 0..MaxAttempts
  BY ViewerAssumption DEF TypeOK, HandleType, ScheduleAutoReconnect
<1>2. retry' \in BOOLEAN
  BY DEF ScheduleAutoReconnect
<1>3. userDisconnected /\ ~pending => ~retry'
  BY DEF ScheduleAutoReconnect
<1> QED
  BY <1>1, <1>2, <1>3

\* What a teardown leaves behind satisfies the invariant.
LEMMA TornDown ==
    ASSUME IInv, NEW gone, TeardownForCycle(gone), TypeOK',
           UNCHANGED <<fetch, mounted>>, resume' = resume \/ resume' = resume \ {gone},
           gone \in Socket => resume' = resume \ {gone},
           NoRetryAfterDisconnect'
    PROVE  IInv'
<1>1. CASE TrulyIdle(gone)
  BY <1>1, ViewerAssumption
     DEF IInv, TypeOK, HandleType, TeardownForCycle, TrulyIdle, SocketWithout,
         readyVars, OwnFetch,
         OwnSocket, OwnPeer, RecoveryAlone, OfflineIsClean, ActiveHasPeer, Active
<1>2. CASE ~TrulyIdle(gone)
  BY <1>2, ViewerAssumption
     DEF IInv, TypeOK, HandleType, TeardownForCycle, ReleaseResources, OwnFetch,
         OwnSocket, OwnPeer, RecoveryAlone, OfflineIsClean, ActiveHasPeer, Active
<1> QED
  BY <1>1, <1>2

\* A teardown, with or without a retry after it, keeps the invariant.
LEMMA Abandoned ==
    ASSUME IInv, NEW gone, Abandon(gone) \/ AbandonAndRetry(gone),
           UNCHANGED <<userDisconnected, fetch, mounted>>,
           suppressed' \subseteq Socket, offering' \subseteq Peer,
           resume' = resume \/ resume' = resume \ {gone},
           gone \in Socket => resume' = resume \ {gone}
    PROVE  IInv'
<1>1. TeardownForCycle(gone)
  BY DEF Abandon, AbandonAndRetry
<1>2. establish' \in BOOLEAN
  BY DEF Abandon, AbandonAndRetry
<1>3. attempts' \in 0..MaxAttempts /\ retry' \in BOOLEAN /\ NoRetryAfterDisconnect'
  <2>1. (retry /\ TrulyIdle(gone)) \in BOOLEAN
    OBVIOUS
  <2>2. CASE AbandonAndRetry(gone)
    BY <2>1, <2>2, ScheduleTypes DEF AbandonAndRetry, IInv, NoRetryAfterDisconnect
  <2>3. CASE Abandon(gone)
    <3>1. attempts' \in 0..MaxAttempts
      BY <2>3 DEF Abandon, IInv, TypeOK, HandleType
    <3>2. retry' \in BOOLEAN /\ NoRetryAfterDisconnect'
      BY <2>3 DEF Abandon, IInv, NoRetryAfterDisconnect
    <3> QED
      BY <3>1, <3>2
  <2> QED
    BY <2>2, <2>3
<1>4. resume' \subseteq Socket /\ userDisconnected' \in BOOLEAN
  <2>1. resume' \subseteq Socket
    BY DEF IInv, TypeOK, HandleType
  <2>2. userDisconnected' \in BOOLEAN
    BY DEF IInv, TypeOK, FlagType
  <2> QED
    BY <2>1, <2>2
<1>5. TypeOK'
  BY <1>1, <1>2, <1>3, <1>4, TeardownTypes DEF IInv
<1> QED
  BY <1>1, <1>3, <1>5, TornDown

\* A step that leaves the cycle and its handles alone keeps the invariant.
LEMMA CycleKept ==
    ASSUME IInv, TypeOK', NoRetryAfterDisconnect',
           UNCHANGED <<state, own, recovery, fetch, webSocket, socket, resume,
                       peerConnection, readyVars, mounted>>
    PROVE  IInv'
BY DEF IInv, OwnFetch, OwnSocket, OwnPeer, RecoveryAlone, OfflineIsClean, ActiveHasPeer,
       readyVars

\* Every event handler, timer and continuation, of any cycle, keeps the invariant.
THEOREM NextIInv == IInv /\ [Next]_vars => IInv'
<1> SUFFICES ASSUME IInv, [Next]_vars
             PROVE  IInv'
  OBVIOUS
<1>1. ASSUME NEW f \in Fetch, UserConnects(f)
      PROVE  IInv'
  <2>1. HandleType'
    BY <1>1, ViewerAssumption
       DEF UserConnects, IInv, TypeOK, HandleType, ConnectInternal, connectRest,
           socketVars, peerVars, readyVars
  <2>2. FlagType'
    BY <1>1
       DEF UserConnects, IInv, TypeOK, FlagType, ConnectInternal, connectRest,
           socketVars, peerVars, readyVars
  <2>3. OwnFetch' /\ OwnSocket' /\ OwnPeer' /\ RecoveryAlone'
    BY <1>1, ViewerAssumption
       DEF UserConnects, IInv, TypeOK, HandleType, OwnFetch, OwnSocket, OwnPeer,
           RecoveryAlone,
           Active, ConnectInternal, connectRest, socketVars, peerVars, readyVars
  <2>4. OfflineIsClean' /\ ActiveHasPeer' /\ NoRetryAfterDisconnect'
    BY <1>1, ViewerAssumption
       DEF UserConnects, IInv, TypeOK, HandleType, OwnFetch, OwnSocket, OwnPeer,
           RecoveryAlone,
           OfflineIsClean, ActiveHasPeer, NoRetryAfterDisconnect, Active,
           ConnectInternal, connectRest, socketVars, peerVars, readyVars
  <2> QED
    BY <2>1, <2>2, <2>3, <2>4 DEF IInv, TypeOK
<1>2. ASSUME Disconnect
      PROVE  IInv'
  <2>1. attempts' \in 0..MaxAttempts
    BY <1>2, ViewerAssumption DEF Disconnect
  <2>2. retry' \in BOOLEAN /\ establish' \in BOOLEAN /\ userDisconnected' \in BOOLEAN
    BY <1>2 DEF Disconnect
  <2>3. resume' \subseteq Socket /\ suppressed' \subseteq Socket /\ offering' \subseteq
  Peer
    BY <1>2 DEF Disconnect, IInv, TypeOK, HandleType
  <2>4. TypeOK'
    BY <1>2, <2>1, <2>2, <2>3, TeardownTypes DEF Disconnect, IInv
  <2> QED
    BY <1>2, <2>4, ViewerAssumption, TornDown DEF Disconnect, NoRetryAfterDisconnect
<1>3. ASSUME Unmount
      PROVE  IInv'
  <2>1. HandleType'
    BY <1>3, ViewerAssumption DEF Unmount, IInv, TypeOK, HandleType, ReleaseResources
  <2>2. FlagType'
    BY <1>3 DEF Unmount, IInv, TypeOK, FlagType, ReleaseResources
  <2>3. OwnFetch' /\ OwnSocket' /\ OwnPeer' /\ RecoveryAlone'
    BY <1>3, ViewerAssumption
       DEF Unmount, IInv, TypeOK, HandleType, OwnFetch, OwnSocket, OwnPeer,
           RecoveryAlone,
           Active, ReleaseResources
  <2>4. OfflineIsClean' /\ ActiveHasPeer' /\ NoRetryAfterDisconnect'
    BY <1>3, ViewerAssumption
       DEF Unmount, IInv, TypeOK, HandleType, OwnFetch, OwnSocket, OwnPeer,
           RecoveryAlone,
           OfflineIsClean, ActiveHasPeer, NoRetryAfterDisconnect, Active,
           ReleaseResources
  <2> QED
    BY <2>1, <2>2, <2>3, <2>4 DEF IInv, TypeOK
<1>4. ASSUME Remount
      PROVE  IInv'
  <2>1. HandleType'
    BY <1>4, ViewerAssumption DEF Remount, IInv, TypeOK, HandleType
  <2>2. FlagType'
    BY <1>4 DEF Remount, IInv, TypeOK, FlagType
  <2>3. OwnFetch' /\ OwnSocket' /\ OwnPeer' /\ RecoveryAlone'
    BY <1>4, ViewerAssumption
       DEF Remount, IInv, TypeOK, HandleType, OwnFetch, OwnSocket, OwnPeer,
           RecoveryAlone,
           Active
  <2>4. OfflineIsClean' /\ ActiveHasPeer' /\ NoRetryAfterDisconnect'
    BY <1>4, ViewerAssumption
       DEF Remount, IInv, TypeOK, HandleType, OwnFetch, OwnSocket, OwnPeer,
           RecoveryAlone,
           OfflineIsClean, ActiveHasPeer, NoRetryAfterDisconnect, Active
  <2> QED
    BY <2>1, <2>2, <2>3, <2>4 DEF IInv, TypeOK
<1>5. ASSUME RetryFires
      PROVE  IInv'
  <2>1. CASE userDisconnected \/ isConnecting \/ state # "offline"
    <3>1. HandleType'
      BY <1>5, <2>1
         DEF RetryFires, IInv, TypeOK, HandleType, connectRest, socketVars, peerVars
    <3>2. FlagType'
      BY <1>5, <2>1
         DEF RetryFires, IInv, TypeOK, FlagType, userVars, connectRest, readyVars
    <3>3. NoRetryAfterDisconnect'
      BY <1>5 DEF RetryFires, NoRetryAfterDisconnect
    <3> QED
      BY <1>5, <2>1, <3>1, <3>2, <3>3, CycleKept
         DEF RetryFires, TypeOK, connectRest, socketVars, peerVars
  <2>2. ASSUME NEW f \in Fetch, ConnectInternal(f, "auto"), ~retry', UNCHANGED attempts
        PROVE  IInv'
    <3>1. HandleType'
      BY <2>2
         DEF ConnectInternal, connectRest, socketVars, peerVars, IInv, TypeOK,
             HandleType
    <3>2. retry' \in BOOLEAN
      BY <1>5 DEF RetryFires
    <3>3. FlagType'
      BY <2>2, <3>2 DEF ConnectInternal, connectRest, readyVars, IInv, TypeOK, FlagType
    <3>4. OwnFetch' /\ OwnSocket' /\ OwnPeer' /\ RecoveryAlone'
      BY <2>2, ViewerAssumption
         DEF ConnectInternal, connectRest, socketVars, peerVars, IInv, TypeOK,
             HandleType,
             OwnFetch, OwnSocket, OwnPeer, RecoveryAlone, Active
    <3>5. OfflineIsClean' /\ ActiveHasPeer' /\ NoRetryAfterDisconnect'
      BY <2>2
         DEF ConnectInternal, connectRest, peerVars, readyVars, IInv, OfflineIsClean,
                  ActiveHasPeer, NoRetryAfterDisconnect, Active
    <3> QED
      BY <3>1, <3>3, <3>4, <3>5 DEF IInv, TypeOK
  <2> QED
    BY <1>5, <2>1, <2>2 DEF RetryFires
<1>6. ASSUME EstablishmentTimeout
      PROVE  IInv'
  <2>1. establish' \in BOOLEAN /\ ~establish'
    BY <1>6 DEF EstablishmentTimeout
  <2>2. CASE UNCHANGED <<state, own, isConnecting, recovery, webSocket, socket,
                         peerConnection, peer, channel, readyVars, retryVars>>
    <3>1. HandleType'
      BY <1>6, <2>2
         DEF EstablishmentTimeout, abandonRest, retryVars, IInv, TypeOK, HandleType
    <3>2. FlagType'
      BY <1>6, <2>1, <2>2
         DEF EstablishmentTimeout, abandonRest, readyVars, retryVars, IInv,
                            TypeOK, FlagType
    <3>3. NoRetryAfterDisconnect'
      BY <1>6, <2>2 DEF EstablishmentTimeout, abandonRest, retryVars, IInv,
                     NoRetryAfterDisconnect
    <3> QED
      BY <1>6, <2>2, <3>1, <3>2, <3>3, CycleKept
         DEF EstablishmentTimeout, abandonRest, TypeOK
  <2>3. CASE TeardownForCycle(None) /\ ScheduleAutoReconnect(retry /\ TrulyIdle(None))
    <3>1. (retry /\ TrulyIdle(None)) \in BOOLEAN
      OBVIOUS
    <3>2. attempts' \in 0..MaxAttempts /\ retry' \in BOOLEAN /\ NoRetryAfterDisconnect'
      BY <1>6, <2>3, <3>1, ScheduleTypes
         DEF EstablishmentTimeout, abandonRest, IInv, NoRetryAfterDisconnect
    <3>3. resume' \subseteq Socket /\ suppressed' \subseteq Socket /\ offering'
    \subseteq Peer
      BY <1>6 DEF EstablishmentTimeout, abandonRest, IInv, TypeOK, HandleType
    <3>4. userDisconnected' \in BOOLEAN
      BY <1>6 DEF EstablishmentTimeout, abandonRest, IInv, TypeOK, FlagType
    <3>5. TypeOK'
      BY <1>6, <2>1, <2>3, <3>2, <3>3, <3>4, TeardownTypes
         DEF EstablishmentTimeout, abandonRest, IInv
    <3> QED
      BY <1>6, <2>3, <3>2, <3>5, ViewerAssumption, TornDown
         DEF EstablishmentTimeout, abandonRest
  <2> QED
    BY <1>6, <2>2, <2>3 DEF EstablishmentTimeout
<1>7. ASSUME RecoveryTimer
      PROVE  IInv'
  <2>1. HandleType'
    BY <1>7, ViewerAssumption
       DEF RecoveryTimer, IInv, TypeOK, HandleType, socketVars, peerVars, retryVars
  <2>2. FlagType'
    BY <1>7 DEF RecoveryTimer, IInv, TypeOK, FlagType, userVars, retryVars, readyVars
  <2>3. OwnFetch' /\ OwnSocket' /\ OwnPeer' /\ RecoveryAlone'
    BY <1>7, ViewerAssumption
       DEF RecoveryTimer, IInv, TypeOK, HandleType, OwnFetch, OwnSocket, OwnPeer,
           RecoveryAlone,
           Active, CanPreserve, socketVars, peerVars
  <2>4. OfflineIsClean' /\ ActiveHasPeer' /\ NoRetryAfterDisconnect'
    BY <1>7, ViewerAssumption
       DEF RecoveryTimer, IInv, TypeOK, HandleType, OwnFetch, OwnSocket, OwnPeer,
           RecoveryAlone,
           OfflineIsClean, ActiveHasPeer, NoRetryAfterDisconnect, Active, CanPreserve,
           userVars, retryVars, readyVars, peerVars
  <2> QED
    BY <2>1, <2>2, <2>3, <2>4 DEF IInv, TypeOK
<1>8. ASSUME NEW f \in Fetch, TicketArrives(f)
      PROVE  IInv'
  <2>1. HandleType'
    BY <1>8, ViewerAssumption
       DEF TicketArrives, IInv, TypeOK, HandleType, Settle, StartConnection, socketVars,
           retryVars, timerVars, peerVars
  <2>2. FlagType'
    BY <1>8 DEF TicketArrives, IInv, TypeOK, FlagType, retryVars, timerVars, readyVars
  <2>3. OwnFetch' /\ OwnSocket' /\ OwnPeer' /\ RecoveryAlone'
    BY <1>8, ViewerAssumption
       DEF TicketArrives, IInv, TypeOK, HandleType, OwnFetch, OwnSocket, OwnPeer,
           RecoveryAlone,
           Active, Settle, StartConnection, socketVars, timerVars
  <2>4. OfflineIsClean' /\ ActiveHasPeer' /\ NoRetryAfterDisconnect'
    BY <1>8, ViewerAssumption
       DEF TicketArrives, IInv, TypeOK, HandleType, OwnFetch, OwnSocket, OwnPeer,
           RecoveryAlone,
           OfflineIsClean, ActiveHasPeer, NoRetryAfterDisconnect, Active, retryVars,
           timerVars, peerVars, readyVars
  <2> QED
    BY <2>1, <2>2, <2>3, <2>4 DEF IInv, TypeOK
<1>9. ASSUME NEW f \in Fetch, TicketFails(f)
      PROVE  IInv'
  <2>1. attempts' \in 0..MaxAttempts /\ retry' \in BOOLEAN /\ NoRetryAfterDisconnect'
    <3>1. retry \in BOOLEAN
      BY DEF IInv, TypeOK, FlagType
    <3>2. CASE ScheduleAutoReconnect(retry)
      BY <1>9, <3>1, <3>2, ScheduleTypes DEF TicketFails, IInv, NoRetryAfterDisconnect
    <3>3. CASE UNCHANGED retryVars
      BY <1>9, <3>1, <3>3
         DEF TicketFails, retryVars, IInv, TypeOK, HandleType, NoRetryAfterDisconnect
    <3> QED
      BY <1>9, <3>2, <3>3 DEF TicketFails
  <2>2. HandleType'
    BY <1>9, <2>1
       DEF TicketFails, Settle, socketVars, peerVars, IInv, TypeOK, HandleType
  <2>3. FlagType'
    BY <1>9, <2>1 DEF TicketFails, readyVars, IInv, TypeOK, FlagType
  <2>4. OwnFetch' /\ OwnSocket' /\ OwnPeer' /\ RecoveryAlone'
    BY <1>9, ViewerAssumption
       DEF TicketFails, Settle, socketVars, IInv, TypeOK, HandleType, OwnFetch,
           OwnSocket,
           OwnPeer, RecoveryAlone
  <2>5. OfflineIsClean' /\ ActiveHasPeer'
    BY <1>9, ViewerAssumption
       DEF TicketFails, peerVars, readyVars, IInv, TypeOK, HandleType, OfflineIsClean,
           ActiveHasPeer, OwnFetch, Active
  <2> QED
    BY <2>1, <2>2, <2>3, <2>4, <2>5 DEF IInv, TypeOK
<1>10. ASSUME NEW f \in Fetch, RecoveryTicket(f)
      PROVE  IInv'
  <2>1. HandleType'
    BY <1>10, ViewerAssumption
       DEF RecoveryTicket, IInv, TypeOK, HandleType, Settle, NotInFlight,
           StartConnection, socketVars, retryVars, peerVars
  <2>2. FlagType'
    BY <1>10 DEF RecoveryTicket, IInv, TypeOK, FlagType, userVars, retryVars, readyVars
  <2>3. OwnFetch' /\ OwnSocket' /\ OwnPeer' /\ RecoveryAlone'
    BY <1>10, ViewerAssumption
       DEF RecoveryTicket, IInv, TypeOK, HandleType, OwnFetch, OwnSocket, OwnPeer,
           RecoveryAlone,
           Active, Settle, NotInFlight, CanPreserve, StartConnection, socketVars
  <2>4. OfflineIsClean' /\ ActiveHasPeer' /\ NoRetryAfterDisconnect'
    <3>1. OfflineIsClean'
      BY <1>10 DEF RecoveryTicket, NotInFlight, IInv, OfflineIsClean, peerVars, readyVars
    <3>2. f \notin Peer /\ own \ {f} \subseteq own'
      BY <1>10, ViewerAssumption DEF RecoveryTicket
    <3>3. ActiveHasPeer'
      BY <1>10, <3>2, ViewerAssumption
         DEF RecoveryTicket, IInv, TypeOK, HandleType, ActiveHasPeer, Active, peerVars,
             readyVars
    <3>4. NoRetryAfterDisconnect'
      BY <1>10 DEF RecoveryTicket, IInv, NoRetryAfterDisconnect, userVars, retryVars
    <3> QED
      BY <3>1, <3>3, <3>4
  <2> QED
    BY <2>1, <2>2, <2>3, <2>4 DEF IInv, TypeOK
<1>11. ASSUME NEW f \in Fetch, RecoveryFails(f)
      PROVE  IInv'
  <2>1. HandleType'
    BY <1>11, ViewerAssumption
       DEF RecoveryFails, IInv, TypeOK, HandleType, Settle, NotInFlight,
           ScheduleSignalingRecovery, socketVars, retryVars, peerVars
  <2>2. FlagType'
    BY <1>11 DEF RecoveryFails, IInv, TypeOK, FlagType, userVars, retryVars, readyVars
  <2>3. OwnFetch' /\ OwnSocket' /\ OwnPeer' /\ RecoveryAlone'
    BY <1>11, ViewerAssumption
       DEF RecoveryFails, IInv, TypeOK, HandleType, OwnFetch, OwnSocket, OwnPeer,
           RecoveryAlone,
           Active, Settle, NotInFlight, ScheduleSignalingRecovery, CanPreserve,
           socketVars
  <2>4. OfflineIsClean' /\ ActiveHasPeer' /\ NoRetryAfterDisconnect'
    BY <1>11, ViewerAssumption
       DEF RecoveryFails, IInv, TypeOK, HandleType, OwnFetch, OwnSocket, OwnPeer,
           RecoveryAlone,
           OfflineIsClean, ActiveHasPeer, NoRetryAfterDisconnect, Active, NotInFlight,
           ScheduleSignalingRecovery, CanPreserve, userVars, retryVars, peerVars,
           readyVars
  <2> QED
    BY <2>1, <2>2, <2>3, <2>4 DEF IInv, TypeOK
<1>12. ASSUME NEW s \in Socket, SocketOpens(s)
      PROVE  IInv'
  <2>1. HandleType'
    BY <1>12, ViewerAssumption
       DEF SocketOpens, IInv, TypeOK, HandleType, retryVars, timerVars, peerVars
  <2>2. FlagType'
    BY <1>12
       DEF SocketOpens, IInv, TypeOK, FlagType, userVars, retryVars, timerVars,
           readyVars
  <2>3. OwnFetch' /\ OwnSocket' /\ OwnPeer' /\ RecoveryAlone'
    BY <1>12, ViewerAssumption
       DEF SocketOpens, IInv, TypeOK, HandleType, OwnFetch, OwnSocket, OwnPeer,
           RecoveryAlone,
           Active, timerVars
  <2>4. OfflineIsClean' /\ ActiveHasPeer' /\ NoRetryAfterDisconnect'
    BY <1>12, ViewerAssumption
       DEF SocketOpens, IInv, TypeOK, HandleType, OwnFetch, OwnSocket, OwnPeer,
           RecoveryAlone,
           OfflineIsClean, ActiveHasPeer, NoRetryAfterDisconnect, Active, timerVars,
           userVars, retryVars, peerVars, readyVars
  <2> QED
    BY <2>1, <2>2, <2>3, <2>4 DEF IInv, TypeOK
<1>13. ASSUME NEW s \in Socket, StaleClose(s)
      PROVE  IInv'
  <2>1. attempts' \in 0..MaxAttempts /\ retry' \in BOOLEAN /\ NoRetryAfterDisconnect'
    <3>1. retry \in BOOLEAN
      BY DEF IInv, TypeOK, FlagType
    <3>2. CASE ScheduleAutoReconnect(retry)
      BY <1>13, <3>1, <3>2, ScheduleTypes
         DEF StaleClose, userVars, IInv, NoRetryAfterDisconnect
    <3>3. CASE UNCHANGED retryVars
      BY <1>13, <3>1, <3>3
         DEF StaleClose, userVars, retryVars, IInv, TypeOK, HandleType,
             NoRetryAfterDisconnect
    <3> QED
      BY <1>13, <3>2, <3>3 DEF StaleClose
  <2>2. HandleType'
    BY <1>13, <2>1
       DEF StaleClose, Drop, Forget, SocketWithout, timerVars, peerVars, IInv,
                   TypeOK, HandleType
  <2>3. FlagType'
    BY <1>13, <2>1
       DEF StaleClose, userVars, timerVars, readyVars, IInv, TypeOK, FlagType
  <2>4. OwnFetch' /\ OwnSocket' /\ OwnPeer' /\ RecoveryAlone'
    BY <1>13, ViewerAssumption
       DEF StaleClose, Drop, Forget, SocketWithout, timerVars, IInv, TypeOK, HandleType,
           OwnFetch, OwnSocket, OwnPeer, RecoveryAlone
  <2>5. OfflineIsClean' /\ ActiveHasPeer'
    BY <1>13, ViewerAssumption
       DEF StaleClose, Drop, timerVars, peerVars, readyVars, IInv, TypeOK, HandleType,
           OfflineIsClean, ActiveHasPeer, Active
  <2> QED
    BY <2>1, <2>2, <2>3, <2>4, <2>5 DEF IInv, TypeOK
<1>14. ASSUME NEW s \in Socket, SignalingLost(s)
      PROVE  IInv'
  <2>1. HandleType'
    BY <1>14, ViewerAssumption
       DEF SignalingLost, IInv, TypeOK, HandleType, Drop, Forget, SocketWithout,
           ScheduleSignalingRecovery, retryVars, peerVars
  <2>2. FlagType'
    BY <1>14 DEF SignalingLost, IInv, TypeOK, FlagType, userVars, retryVars, readyVars
  <2>3. OwnFetch' /\ OwnSocket' /\ OwnPeer' /\ RecoveryAlone'
    BY <1>14, ViewerAssumption
       DEF SignalingLost, IInv, TypeOK, HandleType, OwnFetch, OwnSocket, OwnPeer,
           RecoveryAlone,
           Active, Drop, Forget, SocketWithout, ScheduleSignalingRecovery, CanPreserve
  <2>4. OfflineIsClean' /\ ActiveHasPeer' /\ NoRetryAfterDisconnect'
    BY <1>14, ViewerAssumption
       DEF SignalingLost, IInv, TypeOK, HandleType, OwnFetch, OwnSocket, OwnPeer,
           RecoveryAlone,
           OfflineIsClean, ActiveHasPeer, NoRetryAfterDisconnect, Active, Drop,
           ScheduleSignalingRecovery, CanPreserve, userVars, retryVars, peerVars,
           readyVars
  <2> QED
    BY <2>1, <2>2, <2>3, <2>4 DEF IInv, TypeOK
<1>15. ASSUME NEW s \in Socket, SocketCloses(s)
      PROVE  IInv'
  BY <1>15, Abandoned DEF SocketCloses, Forget, IInv, TypeOK, HandleType
<1>16. ASSUME NEW s \in Socket, NEW p \in Peer, NEW control \in BOOLEAN,
AcceptNegotiates(s, p, control)
      PROVE  IInv'
  <2>1. HandleType'
    BY <1>16, ViewerAssumption
       DEF AcceptNegotiates, IInv, TypeOK, HandleType, retryVars, timerVars
  <2>2. FlagType'
    BY <1>16
       DEF AcceptNegotiates, IInv, TypeOK, FlagType, userVars, retryVars, timerVars
  <2>3. OwnFetch' /\ OwnSocket' /\ OwnPeer' /\ RecoveryAlone'
    BY <1>16, ViewerAssumption
       DEF AcceptNegotiates, IInv, TypeOK, HandleType, OwnFetch, OwnSocket, OwnPeer,
           RecoveryAlone,
           Active, Delivers, timerVars
  <2>4. OfflineIsClean' /\ ActiveHasPeer' /\ NoRetryAfterDisconnect'
    BY <1>16, ViewerAssumption
       DEF AcceptNegotiates, IInv, TypeOK, HandleType, OwnFetch, OwnSocket, OwnPeer,
           RecoveryAlone,
           OfflineIsClean, ActiveHasPeer, NoRetryAfterDisconnect, Active, timerVars,
           userVars, retryVars
  <2> QED
    BY <2>1, <2>2, <2>3, <2>4 DEF IInv, TypeOK
<1>17. ASSUME NEW s \in Socket, AcceptTooLate(s)
      PROVE  IInv'
  BY <1>17, ViewerAssumption, Abandoned
     DEF AcceptTooLate, abandonRest, IInv, TypeOK, HandleType
<1>18. ASSUME NEW s \in Socket, NEW control \in BOOLEAN, AcceptResumed(s, control)
      PROVE  IInv'
  <2>1. HandleType'
    BY <1>18, ViewerAssumption
       DEF AcceptResumed, IInv, TypeOK, HandleType, retryVars, peerVars
  <2>2. FlagType'
    BY <1>18 DEF AcceptResumed, IInv, TypeOK, FlagType, userVars, retryVars
  <2>3. OwnFetch' /\ OwnSocket' /\ OwnPeer' /\ RecoveryAlone'
    BY <1>18, ViewerAssumption
       DEF AcceptResumed, IInv, TypeOK, HandleType, OwnFetch, OwnSocket, OwnPeer,
           RecoveryAlone,
           Active, Delivers
  <2>4. OfflineIsClean' /\ ActiveHasPeer' /\ NoRetryAfterDisconnect'
    BY <1>18, ViewerAssumption
       DEF AcceptResumed, IInv, TypeOK, HandleType, OwnFetch, OwnSocket, OwnPeer,
           RecoveryAlone,
           OfflineIsClean, ActiveHasPeer, NoRetryAfterDisconnect, Active, Delivers,
           userVars, retryVars, peerVars
  <2> QED
    BY <2>1, <2>2, <2>3, <2>4 DEF IInv, TypeOK
<1>19. ASSUME NEW s \in Socket, AnswerApplied(s)
      PROVE  IInv'
  <2>1. HandleType'
    BY <1>19, ViewerAssumption
       DEF AnswerApplied, IInv, TypeOK, HandleType, retryVars, timerVars, socketVars
  <2>2. FlagType'
    BY <1>19
       DEF AnswerApplied, IInv, TypeOK, FlagType, userVars, retryVars, timerVars,
           readyVars
  <2>3. NoRetryAfterDisconnect'
    BY <1>19
       DEF AnswerApplied, IInv, NoRetryAfterDisconnect, userVars, retryVars, timerVars,
           readyVars
  <2> QED
    BY <1>19, <2>1, <2>2, <2>3, CycleKept
       DEF AnswerApplied, TypeOK, retryVars, timerVars, socketVars
<1>20. ASSUME NEW s \in Socket, AnswerRejected(s)
      PROVE  IInv'
  BY <1>20, ViewerAssumption, Abandoned
     DEF AnswerRejected, abandonRest, IInv, TypeOK, HandleType
<1>21. ASSUME NEW s \in Socket, PolicyRevokes(s)
      PROVE  IInv'
  <2>1. HandleType'
    BY <1>21, ViewerAssumption
       DEF PolicyRevokes, IInv, TypeOK, HandleType, retryVars, timerVars, socketVars,
           peerVars
  <2>2. FlagType'
    BY <1>21 DEF PolicyRevokes, IInv, TypeOK, FlagType, userVars, retryVars, timerVars
  <2>3. OwnFetch' /\ OwnSocket' /\ OwnPeer' /\ RecoveryAlone'
    BY <1>21, ViewerAssumption
       DEF PolicyRevokes, IInv, TypeOK, HandleType, OwnFetch, OwnSocket, OwnPeer,
           RecoveryAlone,
           Active, timerVars, socketVars
  <2>4. OfflineIsClean' /\ ActiveHasPeer' /\ NoRetryAfterDisconnect'
    BY <1>21, ViewerAssumption
       DEF PolicyRevokes, IInv, TypeOK, HandleType, OwnFetch, OwnSocket, OwnPeer,
           RecoveryAlone,
           OfflineIsClean, ActiveHasPeer, NoRetryAfterDisconnect, Active, userVars,
           retryVars, timerVars, peerVars
  <2> QED
    BY <2>1, <2>2, <2>3, <2>4 DEF IInv, TypeOK
<1>22. ASSUME NEW s \in Socket, AgentOnline(s)
      PROVE  IInv'
  BY <1>22, ViewerAssumption, Abandoned
     DEF AgentOnline, abandonRest, IInv, TypeOK, HandleType
<1>23. ASSUME NEW s \in Socket, AgentLeaves(s)
      PROVE  IInv'
  BY <1>23, ViewerAssumption, Abandoned
     DEF AgentLeaves, abandonRest, IInv, TypeOK, HandleType
<1>24. ASSUME NEW s \in Socket, NEW code \in {"SESSION_REPLACED", "AGENT_OFFLINE",
"PEER_OFFLINE", "OTHER"},
             ServerIssue(s, code)
      PROVE  IInv'
  <2>1. suppressed' \subseteq Socket
    BY <1>24 DEF ServerIssue, IInv, TypeOK, HandleType
  <2>2. CASE Tolerated(s, code)
    <3>1. HandleType'
      BY <1>24, <2>1, <2>2
         DEF ServerIssue, retryVars, timerVars, IInv, TypeOK, HandleType
    <3>2. FlagType'
      BY <1>24, <2>2
         DEF ServerIssue, retryVars, timerVars, readyVars, IInv, TypeOK, FlagType
    <3>3. NoRetryAfterDisconnect'
      BY <1>24, <2>2 DEF ServerIssue, retryVars, IInv, NoRetryAfterDisconnect
    <3> QED
      BY <1>24, <2>2, <3>1, <3>2, <3>3, CycleKept DEF ServerIssue, timerVars, TypeOK
  <2>3. CASE ~Tolerated(s, code)
    BY <1>24, <2>1, <2>3, ViewerAssumption, Abandoned
       DEF ServerIssue, IInv, TypeOK, HandleType
  <2> QED
    BY <2>2, <2>3
<1>25. ASSUME NEW p \in Peer, OfferSent(p)
      PROVE  IInv'
  <2>1. HandleType'
    BY <1>25, ViewerAssumption
       DEF OfferSent, IInv, TypeOK, HandleType, retryVars, timerVars, socketVars
  <2>2. FlagType'
    BY <1>25
       DEF OfferSent, IInv, TypeOK, FlagType, userVars, retryVars, timerVars, readyVars
  <2>3. NoRetryAfterDisconnect'
    BY <1>25
       DEF OfferSent, IInv, NoRetryAfterDisconnect, userVars, retryVars, timerVars,
           readyVars
  <2> QED
    BY <1>25, <2>1, <2>2, <2>3, CycleKept
       DEF OfferSent, TypeOK, retryVars, timerVars, socketVars
<1>26. ASSUME NEW p \in Peer, OfferThrows(p)
      PROVE  IInv'
  <2>1. offering' \subseteq Peer
    BY <1>26 DEF OfferThrows, IInv, TypeOK, HandleType
  <2>2. CASE p \in own
    BY <1>26, <2>1, <2>2, ViewerAssumption, Abandoned
       DEF OfferThrows, IInv, TypeOK, HandleType
  <2>3. CASE p \notin own
    <3>1. HandleType'
      BY <1>26, <2>1, <2>3
         DEF OfferThrows, retryVars, timerVars, IInv, TypeOK, HandleType
    <3>2. FlagType'
      BY <1>26, <2>3
         DEF OfferThrows, retryVars, timerVars, readyVars, IInv, TypeOK, FlagType
    <3>3. NoRetryAfterDisconnect'
      BY <1>26, <2>3 DEF OfferThrows, retryVars, IInv, NoRetryAfterDisconnect
    <3> QED
      BY <1>26, <2>3, <3>1, <3>2, <3>3, CycleKept DEF OfferThrows, timerVars, TypeOK
  <2> QED
    BY <2>2, <2>3
<1>27. ASSUME NEW p \in Peer, TrackArrives(p)
      PROVE  IInv'
  <2>1. HandleType'
    BY <1>27, ViewerAssumption
       DEF TrackArrives, IInv, TypeOK, HandleType, Advanced, Active, retryVars,
           socketVars, peerVars
  <2>2. FlagType'
    BY <1>27 DEF TrackArrives, IInv, TypeOK, FlagType, userVars, retryVars
  <2>3. OwnFetch' /\ OwnSocket' /\ OwnPeer' /\ RecoveryAlone'
    BY <1>27, ViewerAssumption
       DEF TrackArrives, IInv, TypeOK, HandleType, OwnFetch, OwnSocket, OwnPeer,
           RecoveryAlone,
           Active, Advanced, socketVars
  <2>4. OfflineIsClean' /\ ActiveHasPeer' /\ NoRetryAfterDisconnect'
    BY <1>27, ViewerAssumption
       DEF TrackArrives, IInv, TypeOK, HandleType, OwnFetch, OwnSocket, OwnPeer,
           RecoveryAlone,
           OfflineIsClean, ActiveHasPeer, NoRetryAfterDisconnect, Active, Advanced,
           userVars, retryVars, peerVars
  <2> QED
    BY <2>1, <2>2, <2>3, <2>4 DEF IInv, TypeOK
<1>28. ASSUME NEW p \in Peer, ConnectionUp(p)
      PROVE  IInv'
  <2>1. HandleType'
    BY <1>28, ViewerAssumption DEF ConnectionUp, IInv, TypeOK, HandleType, socketVars
  <2>2. FlagType'
    BY <1>28 DEF ConnectionUp, IInv, TypeOK, FlagType, userVars, readyVars
  <2>3. NoRetryAfterDisconnect'
    BY <1>28 DEF ConnectionUp, IInv, NoRetryAfterDisconnect, userVars, readyVars
  <2> QED
    BY <1>28, <2>1, <2>2, <2>3, CycleKept DEF ConnectionUp, TypeOK, socketVars
<1>29. ASSUME NEW p \in Peer, ConnectionWavers(p)
      PROVE  IInv'
  <2>1. HandleType'
    BY <1>29, ViewerAssumption
       DEF ConnectionWavers, IInv, TypeOK, HandleType, retryVars, timerVars, socketVars
  <2>2. FlagType'
    BY <1>29
       DEF ConnectionWavers, IInv, TypeOK, FlagType, userVars, retryVars, timerVars,
           readyVars
  <2>3. NoRetryAfterDisconnect'
    BY <1>29
       DEF ConnectionWavers, IInv, NoRetryAfterDisconnect, userVars, retryVars,
           timerVars, readyVars
  <2> QED
    BY <1>29, <2>1, <2>2, <2>3, CycleKept
       DEF ConnectionWavers, TypeOK, retryVars, timerVars, socketVars
<1>30. ASSUME NEW p \in Peer, ConnectionFails(p)
      PROVE  IInv'
  <2>1. CASE p \in own
    BY <1>30, <2>1, ViewerAssumption, Abandoned
       DEF ConnectionFails, abandonRest, IInv, TypeOK, HandleType
  <2>2. CASE p \notin own
    <3>1. retry \in BOOLEAN
      BY DEF IInv, TypeOK, FlagType
    <3>2. attempts' \in 0..MaxAttempts /\ retry' \in BOOLEAN /\ NoRetryAfterDisconnect'
      BY <1>30, <2>2, <3>1, ScheduleTypes
         DEF ConnectionFails, abandonRest, IInv, NoRetryAfterDisconnect
    <3>3. HandleType'
      BY <1>30, <2>2, <3>2
         DEF ConnectionFails, abandonRest, timerVars, IInv, TypeOK, HandleType
    <3>4. FlagType'
      BY <1>30, <2>2, <3>2
         DEF ConnectionFails, abandonRest, timerVars, readyVars, IInv, TypeOK, FlagType
    <3> QED
      BY <1>30, <2>2, <3>2, <3>3, <3>4, CycleKept
         DEF ConnectionFails, abandonRest, timerVars, TypeOK
  <2> QED
    BY <2>1, <2>2
<1>31. ASSUME NEW p \in Peer, ChannelOpens(p)
      PROVE  IInv'
  <2>1. HandleType'
    BY <1>31, ViewerAssumption
       DEF ChannelOpens, IInv, TypeOK, HandleType, Advanced, Active, retryVars,
           timerVars, socketVars
  <2>2. FlagType'
    BY <1>31 DEF ChannelOpens, IInv, TypeOK, FlagType, userVars, retryVars, timerVars
  <2>3. OwnFetch' /\ OwnSocket' /\ OwnPeer' /\ RecoveryAlone'
    BY <1>31, ViewerAssumption
       DEF ChannelOpens, IInv, TypeOK, HandleType, OwnFetch, OwnSocket, OwnPeer,
           RecoveryAlone,
           Active, Advanced, timerVars, socketVars
  <2>4. OfflineIsClean' /\ ActiveHasPeer' /\ NoRetryAfterDisconnect'
    BY <1>31, ViewerAssumption
       DEF ChannelOpens, IInv, TypeOK, HandleType, OwnFetch, OwnSocket, OwnPeer,
           RecoveryAlone,
           OfflineIsClean, ActiveHasPeer, NoRetryAfterDisconnect, Active, Advanced,
           userVars, retryVars, timerVars
  <2> QED
    BY <2>1, <2>2, <2>3, <2>4 DEF IInv, TypeOK
<1>32. ASSUME NEW p \in Peer, ChannelCloses(p)
      PROVE  IInv'
  <2>1. CASE MayRecover(p)
    BY <1>32, <2>1, ViewerAssumption, Abandoned
       DEF ChannelCloses, abandonRest, IInv, TypeOK, HandleType
  <2>2. CASE ~MayRecover(p)
    <3>1. HandleType'
      BY <1>32, <2>2
         DEF ChannelCloses, abandonRest, retryVars, timerVars, IInv, TypeOK, HandleType
    <3>2. FlagType'
      BY <1>32, <2>2
         DEF ChannelCloses, abandonRest, retryVars, timerVars, readyVars, IInv, TypeOK,
             FlagType
    <3>3. NoRetryAfterDisconnect'
      BY <1>32, <2>2
         DEF ChannelCloses, abandonRest, retryVars, IInv, NoRetryAfterDisconnect
    <3> QED
      BY <1>32, <2>2, <3>1, <3>2, <3>3, CycleKept
         DEF ChannelCloses, abandonRest, timerVars, TypeOK
  <2> QED
    BY <2>1, <2>2
<1>33. ASSUME NEW p \in Peer, PongsMissed(p)
      PROVE  IInv'
  BY <1>33, ViewerAssumption, Abandoned
     DEF PongsMissed, abandonRest, IInv, TypeOK, HandleType
<1>34. ASSUME UNCHANGED vars
      PROVE  IInv'
  <2>1. HandleType'
    BY <1>34
       DEF vars, retryVars, timerVars, socketVars, peerVars, IInv, TypeOK, HandleType
  <2>2. FlagType'
    BY <1>34 DEF vars, userVars, retryVars, timerVars, readyVars, IInv, TypeOK, FlagType
  <2>3. NoRetryAfterDisconnect'
    BY <1>34 DEF vars, userVars, retryVars, IInv, NoRetryAfterDisconnect
  <2> QED
    BY <1>34, <2>1, <2>2, <2>3, CycleKept
       DEF vars, timerVars, socketVars, peerVars, TypeOK
<1> QED
  BY <1>1, <1>2, <1>3, <1>4, <1>5, <1>6, <1>7, <1>8, <1>9, <1>10, <1>11, <1>12, <1>13,
     <1>14, <1>15, <1>16, <1>17, <1>18, <1>19, <1>20, <1>21, <1>22, <1>23, <1>24, <1>25,
     <1>26, <1>27, <1>28, <1>29, <1>30, <1>31, <1>32, <1>33, <1>34
     DEF Next, User, Timers, FetchEvent, SocketEvent, PeerEvent

\* IInv holds in every reachable state.
THEOREM AlwaysIInv == Spec => []IInv
BY InitIInv, NextIInv, PTL DEF Spec

\* The session's state keeps its types: refs, timers, retry budget and handles.
THEOREM TypeCorrect == Spec => []TypeOK
<1>1. IInv => TypeOK
  BY DEF IInv
<1> QED
  BY <1>1, AlwaysIInv, PTL

\* Offline or reserved, nothing of a connection is left (releaseResources), for any
\* number of requests, sockets and peers that outlive their cycle.
THEOREM OfflineStaysClean == Spec => []OfflineIsClean
<1>1. IInv => OfflineIsClean
  BY DEF IInv
<1> QED
  BY <1>1, AlwaysIInv, PTL

\* Recovery and reconnection never leave the cycle two sockets (startConnection).
THEOREM CycleHasOneSocket == Spec => []OneSocketPerCycle
<1>1. IInv => OneSocketPerCycle
  BY DEF IInv, OwnSocket, OneSocketPerCycle
<1> QED
  BY <1>1, AlwaysIInv, PTL

\* An active session has its own peer, and control never comes without a view
\* (updateActiveState, deriveActiveState).
THEOREM ActiveAlwaysHasPeer == Spec => []ActiveHasPeer
<1>1. IInv => ActiveHasPeer
  BY DEF IInv
<1> QED
  BY <1>1, AlwaysIInv, PTL

\* An event of a superseded socket or peer changes neither the state, the peer, the
\* readiness nor the recovery of the current cycle (the handlers' early returns).
THEOREM StaleEventsAreHarmless == Spec => StaleEventsHarmless
<1>1. ASSUME NEW s \in Socket \ own, SocketEvent(s)
      PROVE  UNCHANGED <<state, peerConnection, readyVars, recovery, isConnecting>>
  BY <1>1 DEF SocketEvent, SocketOpens, StaleClose, SignalingLost, SocketCloses,
              AcceptNegotiates, AcceptTooLate, AcceptResumed, AnswerApplied,
              AnswerRejected, PolicyRevokes, AgentOnline, AgentLeaves, ServerIssue,
              Delivers, userVars, timerVars, peerVars
<1>2. ASSUME NEW p \in Peer \ own, PeerEvent(p)
      PROVE  UNCHANGED <<state, peerConnection, readyVars, recovery, isConnecting>>
  BY <1>2 DEF PeerEvent, OfferSent, OfferThrows, TrackArrives, ConnectionUp,
              ConnectionWavers, ConnectionFails, ChannelOpens, ChannelCloses,
              PongsMissed, MayRecover, userVars, timerVars, readyVars
<1>3. [Next]_vars =>
        [(\/ \E s \in Socket \ own : SocketEvent(s)
          \/ \E p \in Peer \ own : PeerEvent(p))
            => UNCHANGED <<state, peerConnection, readyVars, recovery,
                           isConnecting>>]_vars
  BY <1>1, <1>2
<1> QED
  BY <1>3, PTL DEF Spec, StaleEventsHarmless

\* After disconnect() no retry is pending, whatever comes late (scheduleAutoReconnect).
THEOREM DisconnectEndsRetries == Spec => []NoRetryAfterDisconnect
<1>1. IInv => NoRetryAfterDisconnect
  BY DEF IInv
<1> QED
  BY <1>1, AlwaysIInv, PTL

-----------------------------------------------------------------------------
(* InputCapture, for any keys, fingers, picture and element.  What the agent holds down is
   related to the user through what the hook remembers: forwardedKeys for the keys, the
   gesture's phase and the number of fingers for the left button, and pendingPointerMove
   for the cursor. *)

-----------------------------------------------------------------------------
(* The inductive invariant *)

\* The hook forgets no key the agent still holds, and none is forwarded in the background.
KeysTracked ==
    active => /\ keys \subseteq forwardedKeys
              /\ focus = "away" => forwardedKeys = {} /\ synthesizedShift = Null

\* A made-up Shift is in use as long as a forwarded letter is held: its keyup, which
\* takes the Shift along, is not ignored even when a toolbar has the focus.
RepairHasKey ==
    active /\ synthesizedShift # Null => held \intersect forwardedKeys \intersect Letter # {}

\* Buttons that are down without a mouse button: a finger's left button.
Dragged == buttons \ (mouse \union swallowed)

\* Only the left button, and only while a finger is down.
DragHasFinger ==
    active => Dragged \subseteq {"left"} /\ (Dragged # {} => fingers # {})

\* When a gesture starts while another finger's drag has the left button down, its end
\* may leave the button down (a long press): the other finger is still there to lift it.
TwoFingers ==
    active /\ touchPhase \in {"pending", "converted"} /\ Dragged # {}
        => \A f \in fingers : fingers \ {f} # {}

\* The numbers of pointer events among the type invariant.
Times == now \in 0..MaxEvents /\ pendingPointerMove \in 0..now /\ cursor \in 0..now

\* A queued move is newer than the cursor.
QueueIsNewer == pendingPointerMove = 0 \/ pendingPointerMove > cursor

CaptureIInv ==
    /\ CaptureTypeOK /\ NoStuckKey
    /\ KeysTracked /\ RepairHasKey
    /\ DragHasFinger /\ TwoFingers
    /\ QueueIsNewer

-----------------------------------------------------------------------------
(* The invariant is inductive *)

\* Events are numbered in order, and a queued move stays newer than the cursor.
LEMMA PointerStep ==
    ASSUME Times, QueueIsNewer, [CaptureNext]_captureVars
    PROVE  (Times /\ QueueIsNewer)'
<1>0. MaxEvents \in Nat
  BY CaptureAssumption
<1> USE <1>0 DEF Times, QueueIsNewer
<1>1. CASE Activate
  BY <1>1 DEF Activate, handVars, pointerVars
<1>2. CASE Deactivate
  BY <1>2 DEF Deactivate, handVars, keyVars
<1>3. CASE AgentReleases
  BY <1>3 DEF AgentReleases, handVars, keyVars, pointerVars
<1>4. CASE Blur
  BY <1>4 DEF Blur, handVars, keyVars, pointerVars
<1>5. ASSUME NEW f \in {"video", "toolbar"}, MoveFocus(f) PROVE (Times /\ QueueIsNewer)'
  BY <1>5 DEF MoveFocus, handVars, keyVars, pointerVars
<1>6. ASSUME NEW k \in Key, PressKey(k) PROVE (Times /\ QueueIsNewer)'
  BY <1>6 DEF PressKey, pointerVars
<1>7. ASSUME NEW k \in Key, ReleaseKey(k) PROVE (Times /\ QueueIsNewer)'
  BY <1>7 DEF ReleaseKey, pointerVars
<1>8. CASE Frame
  BY <1>8 DEF Frame, handVars, keyVars
<1>9. CASE LongPress
  BY <1>9 DEF LongPress, handVars, keyVars
<1>10. ASSUME NEW p \in Pixel, MouseMove(p) PROVE (Times /\ QueueIsNewer)'
  BY <1>10 DEF MouseMove, handVars, keyVars, Event, QueuePointerMove
<1>11. ASSUME NEW p \in Pixel, NEW b \in Button, MousePress(b, p)
       PROVE (Times /\ QueueIsNewer)'
  BY <1>11 DEF MousePress, keyVars, Event, QueuePointerMove,
     SendPointerMoveImmediately
<1>12. ASSUME NEW p \in Pixel, NEW b \in Button, MouseRelease(b, p)
       PROVE (Times /\ QueueIsNewer)'
  BY <1>12 DEF MouseRelease, keyVars, Event, QueuePointerMove,
     FlushPointerMove
<1>13. ASSUME NEW p \in Pixel, NEW f \in Finger, TouchDown(f, p)
       PROVE (Times /\ QueueIsNewer)'
  BY <1>13 DEF TouchDown, keyVars, Event, SendPointerMoveImmediately
<1>14. ASSUME NEW p \in Pixel, NEW f \in Finger, NEW far \in BOOLEAN, TouchMove(f, p, far)
       PROVE (Times /\ QueueIsNewer)'
  BY <1>14 DEF TouchMove, handVars, keyVars, Event, QueuePointerMove,
     Left
<1>15. ASSUME NEW f \in Finger, TouchUp(f) PROVE (Times /\ QueueIsNewer)'
  BY <1>15 DEF TouchUp, keyVars, FlushPointerMove, Left
<1>16. ASSUME NEW f \in Finger, TouchCancel(f) PROVE (Times /\ QueueIsNewer)'
  BY <1>16 DEF TouchCancel, keyVars
<1>17. CASE UNCHANGED captureVars
  BY <1>17 DEF captureVars, handVars, keyVars, pointerVars
<1> QED
  BY <1>1, <1>2, <1>3, <1>4, <1>5, <1>6, <1>7, <1>8, <1>9, <1>10, <1>11, <1>12, <1>13,
           <1>14, <1>15, <1>16, <1>17 DEF CaptureNext

\* Every step keeps the type of the rest of the state.
LEMMA TypeStepCapture ==
    ASSUME CaptureTypeOK, Times', [CaptureNext]_captureVars
    PROVE  CaptureTypeOK'
<1> USE DEF CaptureTypeOK, Times, Key, Shift, Button
<1>1. CASE Activate
  BY <1>1 DEF Activate, handVars, pointerVars
<1>2. CASE Deactivate
  <2>1. CASE UNCHANGED <<keys, buttons, swallowed>>
    BY <1>2, <2>1 DEF Deactivate, handVars, keyVars
  <2>2. CASE keys' = {} /\ buttons' = {} /\ swallowed' = {}
    BY <1>2, <2>2 DEF Deactivate, handVars, keyVars
  <2> QED
    BY <1>2, <2>1, <2>2 DEF Deactivate
<1>3. CASE AgentReleases
  BY <1>3 DEF AgentReleases, handVars, keyVars, pointerVars
<1>4. CASE Blur
  BY <1>4 DEF Blur, handVars, keyVars, pointerVars
<1>5. ASSUME NEW f \in {"video", "toolbar"}, MoveFocus(f) PROVE CaptureTypeOK'
  BY <1>5 DEF MoveFocus, handVars, keyVars, pointerVars
<1>6. ASSUME NEW k \in Key, PressKey(k) PROVE CaptureTypeOK'
  BY <1>6 DEF PressKey, keyVars, pointerVars, HandleKeyDown, NoKeyEvent
<1>7. ASSUME NEW k \in Key, ReleaseKey(k) PROVE CaptureTypeOK'
  BY <1>7 DEF ReleaseKey, keyVars, pointerVars, HandleKeyUp, NoKeyEvent
<1>8. CASE Frame
  BY <1>8 DEF Frame, handVars, keyVars
<1>9. CASE LongPress
  BY <1>9 DEF LongPress, handVars, keyVars
<1>10. ASSUME NEW p \in Pixel, MouseMove(p) PROVE CaptureTypeOK'
  BY <1>10 DEF MouseMove, handVars, keyVars, Event, QueuePointerMove
<1>11. ASSUME NEW p \in Pixel, NEW b \in Button, MousePress(b, p) PROVE CaptureTypeOK'
  <2>1. CASE mouse = {}
    BY <1>11, <2>1 DEF MousePress, keyVars, Event, SendPointerMoveImmediately
  <2>2. CASE mouse # {}
    BY <1>11, <2>2 DEF MousePress, keyVars, Event, QueuePointerMove
  <2> QED
    BY <2>1, <2>2
<1>12. ASSUME NEW p \in Pixel, NEW b \in Button, MouseRelease(b, p) PROVE CaptureTypeOK'
  BY <1>12 DEF MouseRelease, keyVars, Event, QueuePointerMove,
     FlushPointerMove
<1>13. ASSUME NEW p \in Pixel, NEW f \in Finger, TouchDown(f, p) PROVE CaptureTypeOK'
  BY <1>13 DEF TouchDown, keyVars, Event, SendPointerMoveImmediately
<1>14. ASSUME NEW p \in Pixel, NEW f \in Finger, NEW far \in BOOLEAN, TouchMove(f, p, far)
       PROVE CaptureTypeOK'
  BY <1>14 DEF TouchMove, handVars, keyVars, Event, QueuePointerMove,
     Left
<1>15. ASSUME NEW f \in Finger, TouchUp(f) PROVE CaptureTypeOK'
  <2>1. CASE active
    BY <1>15, <2>1 DEF TouchUp, keyVars, FlushPointerMove, Left
  <2>2. CASE ~active
    BY <1>15, <2>2 DEF TouchUp, keyVars
  <2> QED
    BY <2>1, <2>2
<1>16. ASSUME NEW f \in Finger, TouchCancel(f) PROVE CaptureTypeOK'
  BY <1>16 DEF TouchCancel, keyVars
<1>17. CASE UNCHANGED captureVars
  BY <1>17 DEF captureVars, handVars, keyVars, pointerVars
<1> QED
  BY <1>1, <1>2, <1>3, <1>4, <1>5, <1>6, <1>7, <1>8, <1>9, <1>10, <1>11, <1>12, <1>13,
           <1>14, <1>15, <1>16, <1>17 DEF CaptureNext

\* The keys the agent holds stay among the forwarded ones, the letters among the held ones,
\* and a made-up Shift keeps its letter.
LEMMA KeyStep ==
    ASSUME CaptureTypeOK, NoStuckKey, KeysTracked, RepairHasKey,
           [CaptureNext]_captureVars
    PROVE  (NoStuckKey /\ KeysTracked /\ RepairHasKey)'
<1> USE CaptureAssumption DEF CaptureTypeOK, NoStuckKey, KeysTracked, RepairHasKey,
        Key, Shift
<1>1. CASE Activate
  BY <1>1 DEF Activate, handVars, pointerVars
<1>2. CASE Deactivate
  BY <1>2 DEF Deactivate, handVars, keyVars
<1>3. CASE AgentReleases
  BY <1>3 DEF AgentReleases, handVars, keyVars, pointerVars
<1>4. CASE Blur
  BY <1>4 DEF Blur, handVars, keyVars, pointerVars
<1>5. ASSUME NEW f \in {"video", "toolbar"}, MoveFocus(f)
      PROVE (NoStuckKey /\ KeysTracked /\ RepairHasKey)'
  BY <1>5 DEF MoveFocus, handVars, keyVars, pointerVars
<1>6. ASSUME NEW k \in Key, PressKey(k)
      PROVE (NoStuckKey /\ KeysTracked /\ RepairHasKey)'
  BY <1>6 DEF PressKey, keyVars, pointerVars, HandleKeyDown, NoKeyEvent
<1>7. ASSUME NEW k \in Key, ReleaseKey(k)
      PROVE (NoStuckKey /\ KeysTracked /\ RepairHasKey)'
  BY <1>7 DEF ReleaseKey, keyVars, pointerVars, HandleKeyUp, NoKeyEvent
<1>8. CASE Frame
  BY <1>8 DEF Frame, handVars, keyVars
<1>9. CASE LongPress
  BY <1>9 DEF LongPress, handVars, keyVars
<1>10. ASSUME NEW p \in Pixel, MouseMove(p)
       PROVE (NoStuckKey /\ KeysTracked /\ RepairHasKey)'
  BY <1>10 DEF MouseMove, handVars, keyVars
<1>11. ASSUME NEW p \in Pixel, NEW b \in Button, MousePress(b, p)
       PROVE (NoStuckKey /\ KeysTracked /\ RepairHasKey)'
  BY <1>11 DEF MousePress, keyVars
<1>12. ASSUME NEW p \in Pixel, NEW b \in Button, MouseRelease(b, p)
       PROVE (NoStuckKey /\ KeysTracked /\ RepairHasKey)'
  BY <1>12 DEF MouseRelease, keyVars
<1>13. ASSUME NEW p \in Pixel, NEW f \in Finger, TouchDown(f, p)
       PROVE (NoStuckKey /\ KeysTracked /\ RepairHasKey)'
  BY <1>13 DEF TouchDown, keyVars
<1>14. ASSUME NEW p \in Pixel, NEW f \in Finger, NEW far \in BOOLEAN, TouchMove(f, p, far)
       PROVE (NoStuckKey /\ KeysTracked /\ RepairHasKey)'
  BY <1>14 DEF TouchMove, handVars, keyVars
<1>15. ASSUME NEW f \in Finger, TouchUp(f)
       PROVE (NoStuckKey /\ KeysTracked /\ RepairHasKey)'
  BY <1>15 DEF TouchUp, keyVars
<1>16. ASSUME NEW f \in Finger, TouchCancel(f)
       PROVE (NoStuckKey /\ KeysTracked /\ RepairHasKey)'
  BY <1>16 DEF TouchCancel, keyVars
<1>17. CASE UNCHANGED captureVars
  BY <1>17 DEF captureVars, handVars, keyVars, pointerVars
<1> QED
  BY <1>1, <1>2, <1>3, <1>4, <1>5, <1>6, <1>7, <1>8, <1>9, <1>10, <1>11, <1>12, <1>13,
           <1>14, <1>15, <1>16, <1>17 DEF CaptureNext

\* A finger's button stays down only while a finger that lifts it is down.
LEMMA ButtonStep ==
    ASSUME CaptureTypeOK, DragHasFinger, TwoFingers, [CaptureNext]_captureVars
    PROVE  (DragHasFinger /\ TwoFingers)'
<1> USE CaptureAssumption DEF CaptureTypeOK, DragHasFinger, TwoFingers, Dragged, Button,
        Left
<1>1. CASE Activate
  BY <1>1 DEF Activate, handVars, pointerVars
<1>2. CASE Deactivate
  BY <1>2 DEF Deactivate, handVars, keyVars
<1>3. CASE AgentReleases
  BY <1>3 DEF AgentReleases, handVars, keyVars, pointerVars
<1>4. CASE Blur
  BY <1>4 DEF Blur, handVars, keyVars, pointerVars
<1>5. ASSUME NEW f \in {"video", "toolbar"}, MoveFocus(f)
      PROVE (DragHasFinger /\ TwoFingers)'
  BY <1>5 DEF MoveFocus, handVars, keyVars, pointerVars
<1>6. ASSUME NEW k \in Key, PressKey(k) PROVE (DragHasFinger /\ TwoFingers)'
  BY <1>6 DEF PressKey, pointerVars
<1>7. ASSUME NEW k \in Key, ReleaseKey(k) PROVE (DragHasFinger /\ TwoFingers)'
  BY <1>7 DEF ReleaseKey, pointerVars
<1>8. CASE Frame
  BY <1>8 DEF Frame, handVars, keyVars
<1>9. CASE LongPress
  BY <1>9 DEF LongPress, handVars, keyVars
<1>10. ASSUME NEW p \in Pixel, MouseMove(p) PROVE (DragHasFinger /\ TwoFingers)'
  BY <1>10 DEF MouseMove, handVars, keyVars
<1>11. ASSUME NEW p \in Pixel, NEW b \in Button, MousePress(b, p)
       PROVE (DragHasFinger /\ TwoFingers)'
  BY <1>11 DEF MousePress, keyVars
<1>12. ASSUME NEW p \in Pixel, NEW b \in Button, MouseRelease(b, p)
       PROVE (DragHasFinger /\ TwoFingers)'
  BY <1>12 DEF MouseRelease, keyVars
<1>13. ASSUME NEW p \in Pixel, NEW f \in Finger, TouchDown(f, p)
       PROVE (DragHasFinger /\ TwoFingers)'
  BY <1>13 DEF TouchDown, keyVars
<1>14. ASSUME NEW p \in Pixel, NEW f \in Finger, NEW far \in BOOLEAN, TouchMove(f, p, far)
       PROVE (DragHasFinger /\ TwoFingers)'
  BY <1>14 DEF TouchMove, handVars, keyVars
<1>15. ASSUME NEW f \in Finger, TouchUp(f) PROVE (DragHasFinger /\ TwoFingers)'
  BY <1>15 DEF TouchUp, keyVars
<1>16. ASSUME NEW f \in Finger, TouchCancel(f) PROVE (DragHasFinger /\ TwoFingers)'
  BY <1>16 DEF TouchCancel, keyVars
<1>17. CASE UNCHANGED captureVars
  BY <1>17 DEF captureVars, handVars, keyVars, pointerVars
<1> QED
  BY <1>1, <1>2, <1>3, <1>4, <1>5, <1>6, <1>7, <1>8, <1>9, <1>10, <1>11, <1>12, <1>13,
           <1>14, <1>15, <1>16, <1>17 DEF CaptureNext

\* Init establishes the invariant: nothing is held, queued or forwarded.
LEMMA InitCapture ==
    ASSUME CaptureInit
    PROVE  CaptureIInv
<1>1. Times
  BY CaptureAssumption DEF CaptureInit, Times
<1>2. CaptureTypeOK
  BY <1>1 DEF CaptureInit, CaptureTypeOK, Times, Key, Shift, Button
<1> QED
  BY <1>2 DEF CaptureInit, CaptureIInv, NoStuckKey, KeysTracked, RepairHasKey, DragHasFinger,
     TwoFingers,
              QueueIsNewer, Dragged

\* Every step of the hook, the user or the agent keeps it.
LEMMA StepCapture ==
    ASSUME CaptureIInv, [CaptureNext]_captureVars
    PROVE  CaptureIInv'
<1>1. (Times /\ QueueIsNewer)'
  BY PointerStep DEF CaptureIInv, CaptureTypeOK, Times
<1> QED
  BY <1>1, TypeStepCapture, KeyStep, ButtonStep DEF CaptureIInv

\* The hook's bookkeeping (forwardedKeys, the gesture, the queued move) matches what the
\* user and the agent hold in every reachable state.
THEOREM CaptureIInvCorrect == CaptureSpec => []CaptureIInv
<1>1. CaptureInit => CaptureIInv
  BY InitCapture
<1>2. CaptureIInv /\ [CaptureNext]_captureVars => CaptureIInv'
  BY StepCapture
<1> QED
  BY <1>1, <1>2, PTL DEF CaptureSpec

-----------------------------------------------------------------------------
(* What it is for *)

\* A button that is down although no finger is: the mouse has it, or its release was
\* inside a chord; and a made-up Shift has a held letter.
LEMMA CaptureIInvImplies == CaptureIInv => CaptureInv
<1> SUFFICES ASSUME CaptureIInv PROVE CaptureInv
  OBVIOUS
<1>1. RepairIsTemporary
  BY DEF CaptureIInv, RepairHasKey, RepairIsTemporary
<1>2. NoStuckButton
  BY DEF CaptureIInv, DragHasFinger, Dragged, NoStuckButton
<1> QED
  BY <1>1, <1>2 DEF CaptureIInv, CaptureInv

\* During control the agent holds no letter the user let go of, no made-up Shift without
\* a letter, and no button without a mouse button or a finger (useInputCapture.ts).
THEOREM CaptureCorrect == CaptureSpec => []CaptureInv
  BY CaptureIInvCorrect, CaptureIInvImplies, PTL

\* Only a keydown gives the agent a new key.
LEMMA OnlyPressAdds ==
    ASSUME [CaptureNext]_captureVars, ~(keys' \subseteq keys)
    PROVE  \E k \in Key : PressKey(k)
  BY DEF CaptureNext, captureVars, handVars, keyVars, pointerVars, Activate,
     Deactivate, AgentReleases,
         Blur, MoveFocus, ReleaseKey, HandleKeyUp, NoKeyEvent, Frame,
         LongPress,
         MouseMove, MousePress, MouseRelease, TouchDown, TouchMove,
         TouchUp, TouchCancel

\* handleKeyDown() takes every forwarded Shift back before it forwards an unshifted
\* letter, and the agent holds no Shift that is not forwarded.
LEMMA ShiftStep ==
    ASSUME KeysTracked, [CaptureNext]_captureVars,
           NEW c \in Letter, c \in keys' \ keys, held' \intersect Shift = {}
    PROVE  keys' \intersect Shift = {}
<1>1. PICK k \in Key : PressKey(k)
  BY OnlyPressAdds
<1>2. /\ active /\ held' = held \union {k}
      /\ HandleKeyDown(k, held' \intersect Shift # {})
  BY <1>1 DEF PressKey, NoKeyEvent
<1>3. k \notin Shift
  BY <1>2
<1> QED
  BY <1>2, <1>3 DEF HandleKeyDown, KeysTracked, Shift

\* A letter typed without Shift never reaches the agent shifted, whatever keydowns and
\* keyups of Shift the browser lost before.
THEOREM ShiftCorrect == CaptureSpec => NeverWronglyShifted
<1>1. CaptureIInv /\ [CaptureNext]_captureVars =>
        [\A k \in Letter :
          k \in keys' \ keys /\ held' \intersect Shift = {} => keys' \intersect Shift = {}]_captureVars
  BY ShiftStep DEF CaptureIInv
<1> QED
  BY <1>1, CaptureIInvCorrect, PTL DEF CaptureSpec, NeverWronglyShifted

\* The cursor never goes back: what it moves to is the queued move or the event at hand,
\* both newer.
LEMMA CursorStep ==
    ASSUME CaptureTypeOK, QueueIsNewer, [CaptureNext]_captureVars
    PROVE  cursor' >= cursor
<1> USE CaptureAssumption DEF CaptureTypeOK, QueueIsNewer
<1>1. CASE Activate
  BY <1>1 DEF Activate, handVars, pointerVars
<1>2. CASE Deactivate
  BY <1>2 DEF Deactivate, handVars, keyVars
<1>3. CASE AgentReleases
  BY <1>3 DEF AgentReleases, handVars, keyVars, pointerVars
<1>4. CASE Blur
  BY <1>4 DEF Blur, handVars, keyVars, pointerVars
<1>5. ASSUME NEW f \in {"video", "toolbar"}, MoveFocus(f) PROVE cursor' >= cursor
  BY <1>5 DEF MoveFocus, handVars, keyVars, pointerVars
<1>6. ASSUME NEW k \in Key, PressKey(k) PROVE cursor' >= cursor
  BY <1>6 DEF PressKey, pointerVars
<1>7. ASSUME NEW k \in Key, ReleaseKey(k) PROVE cursor' >= cursor
  BY <1>7 DEF ReleaseKey, pointerVars
<1>8. CASE Frame
  BY <1>8 DEF Frame, handVars, keyVars
<1>9. CASE LongPress
  BY <1>9 DEF LongPress, handVars, keyVars
<1>10. ASSUME NEW p \in Pixel, MouseMove(p) PROVE cursor' >= cursor
  BY <1>10 DEF MouseMove, handVars, keyVars, Event, QueuePointerMove
<1>11. ASSUME NEW p \in Pixel, NEW b \in Button, MousePress(b, p)
       PROVE cursor' >= cursor
  BY <1>11 DEF MousePress, keyVars, Event, QueuePointerMove,
     SendPointerMoveImmediately
<1>12. ASSUME NEW p \in Pixel, NEW b \in Button, MouseRelease(b, p)
       PROVE cursor' >= cursor
  BY <1>12 DEF MouseRelease, keyVars, Event, QueuePointerMove,
     FlushPointerMove
<1>13. ASSUME NEW p \in Pixel, NEW f \in Finger, TouchDown(f, p) PROVE cursor' >= cursor
  BY <1>13 DEF TouchDown, keyVars, Event, SendPointerMoveImmediately
<1>14. ASSUME NEW p \in Pixel, NEW f \in Finger, NEW far \in BOOLEAN, TouchMove(f, p, far)
       PROVE cursor' >= cursor
  BY <1>14 DEF TouchMove, handVars, keyVars, Event, QueuePointerMove,
     Left
<1>15. ASSUME NEW f \in Finger, TouchUp(f) PROVE cursor' >= cursor
  BY <1>15 DEF TouchUp, keyVars, FlushPointerMove, Left
<1>16. ASSUME NEW f \in Finger, TouchCancel(f) PROVE cursor' >= cursor
  BY <1>16 DEF TouchCancel, keyVars
<1>17. CASE UNCHANGED captureVars
  BY <1>17 DEF captureVars, handVars, keyVars, pointerVars
<1> QED
  BY <1>1, <1>2, <1>3, <1>4, <1>5, <1>6, <1>7, <1>8, <1>9, <1>10, <1>11, <1>12, <1>13,
           <1>14, <1>15, <1>16, <1>17 DEF CaptureNext

\* The release that lifts a mouse button flushes the queued move first; a press lifts none.
LEMMA FlushStep ==
    ASSUME CaptureTypeOK, QueueIsNewer, [CaptureNext]_captureVars,
           mouse' # mouse, buttons' # buttons, buttons' \subseteq buttons
    PROVE  cursor' >= pendingPointerMove
<1>1. PICK b \in Button, p \in Pixel : MousePress(b, p) \/ MouseRelease(b, p)
  BY DEF CaptureNext, captureVars, handVars, keyVars, pointerVars, Activate,
     Deactivate, AgentReleases,
         Blur, MoveFocus, PressKey, ReleaseKey, Frame, LongPress,
         MouseMove, TouchDown, TouchMove, TouchUp, TouchCancel
<1>2. MouseRelease(b, p)
  BY <1>1 DEF MousePress
<1>3. FlushPointerMove
  BY <1>2 DEF MouseRelease
<1> QED
  BY <1>3 DEF FlushPointerMove, CaptureTypeOK, QueueIsNewer

\* Moves reach the agent in order, and none is left behind by the release of a button.
THEOREM PointerCorrect == CaptureSpec => PointerInOrder
<1>1. CaptureIInv /\ [CaptureNext]_captureVars =>
        [/\ cursor' >= cursor
         /\ mouse' # mouse /\ buttons' # buttons /\ buttons' \subseteq buttons
              => cursor' >= pendingPointerMove]_captureVars
  BY CursorStep, FlushStep DEF CaptureIInv
<1> QED
  BY <1>1, CaptureIInvCorrect, PTL DEF CaptureSpec, PointerInOrder

=============================================================================
