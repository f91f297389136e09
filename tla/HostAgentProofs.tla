-------------------------- MODULE HostAgentProofs --------------------------
(***************************************************************************)
(* What HostAgent guarantees for any number of sessions, connections and   *)
(* inputs, and for any lease, health and watchdog windows.                 *)
(*                                                                         *)
(* The inductive invariant IInv joins three facts none of which is         *)
(* inductive alone.  The lock keeps control out because a controller needs *)
(* a grant and a grant needs the policy the lock cleared; _start_control() *)
(* may use a prepared sink without asking the policy again because a sink, *)
(* too, exists only inside a grant.                                        *)
(***************************************************************************)
EXTENDS HostAgent, TLAPS

Safe == ControllerSupervised /\ LockFailsClosed /\ GrantUnderPolicy

IInv == TypeOK /\ Safe

-----------------------------------------------------------------------------
(* Types *)

\* A group of variables an action leaves alone keeps its type.
LEMMA Frame ==
    ASSUME TypeOK
    PROVE  /\ UNCHANGED policyVars => PolicyType'
           /\ UNCHANGED grantVars => GrantType'
           /\ UNCHANGED runtimeVars => RuntimeType'
           /\ UNCHANGED signalVars => SignalType'
           /\ UNCHANGED connVars => ConnType'
           /\ UNCHANGED channelVars => ChannelType'
           /\ UNCHANGED noticeVars => NoticeType'
<1> USE DEF TypeOK
<1>1. UNCHANGED policyVars => PolicyType'
  BY DEF policyVars, PolicyType
<1>2. UNCHANGED grantVars => GrantType'
  BY DEF grantVars, GrantType
<1>3. UNCHANGED runtimeVars => RuntimeType'
  BY DEF runtimeVars, RuntimeType, Guard!GuardTypeOK
<1>4. UNCHANGED signalVars => SignalType'
  BY DEF signalVars, SignalType
<1>5. UNCHANGED connVars => ConnType'
  BY DEF connVars, ConnType
<1>6. UNCHANGED channelVars => ChannelType'
  BY DEF channelVars, ChannelType
<1>7. UNCHANGED noticeVars => NoticeType'
  BY DEF noticeVars, NoticeType
<1> QED
  BY <1>1, <1>2, <1>3, <1>4, <1>5, <1>6, <1>7

\* Nothing armed and nothing granted are values of their variables.
LEMMA NoneTypes ==
    /\ NoLease \in NoLease..LeaseTicks
    /\ NoPing \in NoPing..(HealthTicks + 1)
    /\ Guard!NotArmed \in Guard!NotArmed..WatchdogTicks
BY AgentAssumption DEF NoLease, NoPing, Guard!NotArmed

\* _stop_control_runtime() and _revoke_control() leave well-typed state.
LEMMA StopTypes ==
    /\ StopControlRuntime => RuntimeType'
    /\ RevokeControl => RuntimeType' /\ GrantType'
<1>1. StopControlRuntime => RuntimeType'
  BY NoneTypes DEF StopControlRuntime, RuntimeType, Guard!Drop, Guard!GuardTypeOK
<1> QED
  BY <1>1, NoneTypes DEF RevokeControl, GrantType

\* _close_peer() up to its await, wherever the coroutine goes next.
LEMMA ClosePeerTypes ==
    ASSUME TypeOK, NEW next \in {"receive", "ice", "offline", "stopped"},
           ClosePeer(next), UNCHANGED session_id
    PROVE  /\ RuntimeType' /\ SignalType' /\ ConnType' /\ ChannelType'
           /\ status' \in {"offline", "online", "viewing", "controlling", "locked"}
<1> USE DEF TypeOK, ClosePeer, Resume, Notify
<1>1. RuntimeType'
  BY StopTypes
<1>2. SignalType'
  BY DEF SignalType
<1>3. ConnType'
  BY DEF ConnType
<1>4. ChannelType'
  BY NoneTypes DEF ChannelType
<1>5. status' \in {"offline", "online", "viewing", "controlling", "locked"}
  BY DEF NoticeType
<1> QED
  BY <1>1, <1>2, <1>3, <1>4, <1>5

\* Every action keeps every variable in its type.
LEMMA NextTypes ==
    ASSUME TypeOK, Next
    PROVE  TypeOK'
<1> USE DEF TypeOK
<1>1. CASE Redial
  <2>1. SignalType'
    BY <1>1 DEF Redial, SignalType, AnySession
  <2> QED
    BY <1>1, Frame, <2>1 DEF Redial
<1>2. CASE Connect
  <2>1. SignalType'
    BY <1>2 DEF Connect, SignalType
  <2>2. NoticeType'
    BY <1>2 DEF Connect, NoticeType, Notify, SessionStatus
  <2> QED
    BY <1>2, Frame, <2>1, <2>2 DEF Connect
<1>3. CASE ConnectFails
  <2>1. SignalType'
    BY <1>3 DEF ConnectFails, SignalType
  <2> QED
    BY <1>3, Frame, <2>1 DEF ConnectFails
<1>4. CASE LeaveRun
  <2>1. RuntimeType'
    BY <1>4, ClosePeerTypes, Frame DEF LeaveRun
  <2>2. SignalType'
    BY <1>4, ClosePeerTypes, Frame DEF LeaveRun, SignalType
  <2>3. ConnType'
    BY <1>4, ClosePeerTypes, Frame DEF LeaveRun
  <2>4. ChannelType'
    BY <1>4, ClosePeerTypes, Frame DEF LeaveRun
  <2>5. NoticeType'
    BY <1>4, ClosePeerTypes, Frame DEF LeaveRun, Notify, SessionStatus, NoticeType
  <2> QED
    BY <1>4, Frame, <2>1, <2>2, <2>3, <2>4, <2>5 DEF LeaveRun
<1>5. ASSUME NEW s \in Session, NEW requested \in {"view", "control"},
             NEW sinkOk \in SinkResult, SessionRequest(s, requested, sinkOk)
      PROVE  TypeOK'
  <2>1. GrantType'
    <3>1. CASE EchoesLease(requested)
      BY <1>5, <3>1, Frame DEF SessionRequest
    <3>2. CASE ~EchoesLease(requested)
      <4> DEFINE can == CanControl(requested, sinkOk)
      <4>1. /\ granted_control' = can /\ pending_sink' = can
            /\ expires' = IF can THEN LeaseTicks ELSE NoLease
        BY <1>5, <3>2 DEF SessionRequest
      <4>2. LeaseTicks \in NoLease..LeaseTicks /\ NoLease \in NoLease..LeaseTicks
        BY AgentAssumption, NoneTypes DEF NoLease
      <4>3. can \in BOOLEAN
        BY DEF CanControl
      <4> QED
        BY <4>1, <4>2, <4>3 DEF GrantType
    <3> QED
      BY <3>1, <3>2
  <2>2. RuntimeType'
    BY <1>5, StopTypes, Frame DEF SessionRequest
  <2>3. SignalType'
    BY <1>5 DEF SessionRequest, SignalType, AnySession
  <2>4. NoticeType'
    BY <1>5 DEF SessionRequest, NoticeType, Permission
  <2> QED
    BY <1>5, Frame, <2>1, <2>2, <2>3, <2>4 DEF SessionRequest
<1>6. CASE Offer
  <2>1. RuntimeType' /\ SignalType' /\ ConnType' /\ ChannelType'
    BY <1>6, ClosePeerTypes DEF Offer
  <2>2. NoticeType'
    BY <1>6, ClosePeerTypes DEF Offer, NoticeType
  <2> QED
    BY <1>6, Frame, <2>1, <2>2 DEF Offer
<1>7. CASE SessionClose
  <2>1. RuntimeType' /\ SignalType' /\ ConnType' /\ ChannelType'
    BY <1>7, ClosePeerTypes DEF SessionClose
  <2>2. GrantType'
    BY <1>7, NoneTypes DEF SessionClose, GrantType
  <2>3. NoticeType'
    BY <1>7, ClosePeerTypes DEF SessionClose, NoticeType
  <2> QED
    BY <1>7, Frame, <2>1, <2>2, <2>3 DEF SessionClose
<1>8. ASSUME NEW p \in PeerId, NEW sinkOk \in SinkResult, CreatePeer(p, sinkOk)
      PROVE  TypeOK'
  <2>1. RuntimeType'
    BY <1>8, StopTypes, Frame
       DEF CreatePeer, StartControl, RuntimeType, Guard!GuardTypeOK
  <2>2. GrantType'
    BY <1>8, StopTypes, Frame DEF CreatePeer, StartControl, GrantType
  <2>3. SignalType'
    BY <1>8 DEF CreatePeer, SignalType
  <2>4. ConnType'
    BY <1>8 DEF CreatePeer, ConnType, AnySession, SignalType
  <2>5. NoticeType'
    BY <1>8 DEF CreatePeer, NoticeType, StartControl, Notify
  <2> QED
    BY <1>8, Frame, <2>1, <2>2, <2>3, <2>4, <2>5 DEF CreatePeer
<1>9. ASSUME NEW p \in PeerId, CaptureFails(p)
      PROVE  TypeOK'
  <2>1. RuntimeType'
    BY <1>9, StopTypes DEF CaptureFails
  <2>2. SignalType'
    BY <1>9 DEF CaptureFails, SignalType
  <2>3. ConnType'
    BY <1>9 DEF CaptureFails, ConnType
  <2>4. ChannelType'
    BY <1>9, NoneTypes DEF CaptureFails, ChannelType
  <2>5. NoticeType'
    BY <1>9 DEF CaptureFails, NoticeType
  <2> QED
    BY <1>9, Frame, <2>1, <2>2, <2>3, <2>4, <2>5 DEF CaptureFails
<1>10. CASE AnswerSent
  <2>1. SignalType'
    BY <1>10 DEF AnswerSent, SignalType
  <2>2. ConnType'
    BY <1>10 DEF AnswerSent, ConnType
  <2>3. NoticeType'
    BY <1>10 DEF AnswerSent, NoticeType, Notify, SessionStatus
  <2> QED
    BY <1>10, Frame, <2>1, <2>2, <2>3 DEF AnswerSent
<1>11. CASE PeerCloseDone
  <2>1. SignalType'
    BY <1>11 DEF PeerCloseDone, SignalType, Resume
  <2>2. ConnType'
    BY <1>11 DEF PeerCloseDone, ConnType, ConnectionGone, AnySession
  <2>3. ChannelType'
    BY <1>11, NoneTypes DEF PeerCloseDone, ChannelType, ConnectionGone
  <2>4. NoticeType'
    BY <1>11 DEF PeerCloseDone, NoticeType, Resume, Notify
  <2> QED
    BY <1>11, Frame, <2>1, <2>2, <2>3, <2>4 DEF PeerCloseDone
<1>12. CASE PeerCloseTimeout
  <2>1. SignalType'
    BY <1>12 DEF PeerCloseTimeout, SignalType, Resume
  <2>2. ConnType'
    BY <1>12 DEF PeerCloseTimeout, ConnType
  <2>3. NoticeType'
    BY <1>12 DEF PeerCloseTimeout, NoticeType, Resume, Notify
  <2> QED
    BY <1>12, Frame, <2>1, <2>2, <2>3 DEF PeerCloseTimeout
<1>13. ASSUME NEW p \in PeerId, OrphanDies(p)
      PROVE  TypeOK'
  <2>1. ConnType'
    BY <1>13 DEF OrphanDies, ConnType, ConnectionGone, AnySession
  <2>2. ChannelType'
    BY <1>13, NoneTypes DEF OrphanDies, ChannelType, ConnectionGone
  <2> QED
    BY <1>13, Frame, <2>1, <2>2 DEF OrphanDies
<1>14. ASSUME NEW p \in PeerId, ConnectionUp(p)
      PROVE  TypeOK'
  <2>1. ConnType'
    BY <1>14 DEF ConnectionUp, ConnType
  <2> QED
    BY <1>14, Frame, <2>1 DEF ConnectionUp
<1>15. ASSUME NEW p \in PeerId, ConnectionFails(p)
      PROVE  TypeOK'
  <2>1. ConnType'
    BY <1>15 DEF ConnectionFails, ConnType
  <2> QED
    BY <1>15, Frame, <2>1 DEF ConnectionFails
<1>16. ASSUME NEW p \in PeerId, ChannelOpen(p)
      PROVE  TypeOK'
  <2>1. ConnType'
    BY <1>16 DEF ChannelOpen, ConnType
  <2>2. ChannelType'
    BY <1>16, NoneTypes DEF ChannelOpen, ChannelType
  <2> QED
    BY <1>16, Frame, <2>1, <2>2 DEF ChannelOpen
<1>17. ASSUME NEW p \in PeerId, ChannelClose(p)
      PROVE  TypeOK'
  <2>1. ConnType'
    BY <1>17 DEF ChannelClose, ConnType
  <2>2. ChannelType'
    BY <1>17, NoneTypes DEF ChannelClose, ChannelType
  <2> QED
    BY <1>17, Frame, <2>1, <2>2 DEF ChannelClose
<1>18. ASSUME NEW p \in PeerId, LapsedMessage(p)
      PROVE  TypeOK'
  <2>1. GrantType'
    BY <1>18, StopTypes DEF LapsedMessage
  <2>2. RuntimeType'
    BY <1>18, StopTypes DEF LapsedMessage
  <2>3. ChannelType'
    BY <1>18, AgentAssumption DEF LapsedMessage, ChannelType, NoPing
  <2>4. NoticeType'
    BY <1>18 DEF LapsedMessage, NoticeType, QueuePolicyUpdate
  <2> QED
    BY <1>18, Frame, <2>1, <2>2, <2>3, <2>4 DEF LapsedMessage
<1>19. ASSUME NEW p \in PeerId, Ping(p)
      PROVE  TypeOK'
  <2>1. GrantType'
    BY <1>19, AgentAssumption DEF Ping, GrantType, grantVars, NoLease
  <2>2. ChannelType'
    BY <1>19, AgentAssumption DEF Ping, ChannelType, NoPing
  <2> QED
    BY <1>19, Frame, <2>1, <2>2 DEF Ping
<1>20. ASSUME NEW p \in PeerId, Input(p)
      PROVE  TypeOK'
  <2>1. RuntimeType'
    BY <1>20, AgentAssumption
       DEF Input, RuntimeType, runtimeVars, Guard!Activity, Guard!Apply,
           Guard!ReleaseAllMessage, Guard!GuardTypeOK, Guard!NotArmed
  <2> QED
    BY <1>20, Frame, <2>1 DEF Input
<1>21. CASE WatchdogRevokes
  <2>1. RuntimeType'
    BY <1>21, StopTypes DEF WatchdogRevokes
  <2>2. GrantType'
    BY <1>21, StopTypes DEF WatchdogRevokes
  <2>3. NoticeType'
    BY <1>21 DEF WatchdogRevokes, NoticeType, QueuePolicyUpdate
  <2> QED
    BY <1>21, Frame, <2>1, <2>2, <2>3 DEF WatchdogRevokes
<1>22. CASE WatchdogExpires
  <2>1. RuntimeType'
    BY <1>22, NoneTypes
       DEF WatchdogExpires, RuntimeType, runtimeVars, Guard!Expire,
           Guard!GuardTypeOK
  <2> QED
    BY <1>22, Frame, <2>1 DEF WatchdogExpires
<1>23. CASE SendPolicyUpdate
  <2>1. NoticeType'
    BY <1>23 DEF SendPolicyUpdate, NoticeType
  <2> QED
    BY <1>23, Frame, <2>1 DEF SendPolicyUpdate
<1>24. ASSUME NEW enabled \in BOOLEAN, SetControlEnabled(enabled)
      PROVE  TypeOK'
  <2>1. PolicyType'
    BY <1>24 DEF SetControlEnabled, PolicyType
  <2>2. RuntimeType'
    BY <1>24, StopTypes, Frame DEF SetControlEnabled
  <2>3. GrantType'
    BY <1>24, StopTypes, Frame DEF SetControlEnabled
  <2>4. NoticeType'
    BY <1>24
       DEF SetControlEnabled, NoticeType, QueuePolicyUpdate, Notify, SessionStatus
  <2> QED
    BY <1>24, Frame, <2>1, <2>2, <2>3, <2>4 DEF SetControlEnabled
<1>25. CASE EmergencyStop
  <2>1. PolicyType'
    BY <1>25 DEF EmergencyStop, PolicyType
  <2>2. RuntimeType'
    BY <1>25, StopTypes DEF EmergencyStop
  <2>3. GrantType'
    BY <1>25, StopTypes DEF EmergencyStop
  <2>4. NoticeType'
    BY <1>25 DEF EmergencyStop, NoticeType, QueuePolicyUpdate
  <2> QED
    BY <1>25, Frame, <2>1, <2>2, <2>3, <2>4 DEF EmergencyStop
<1>26. CASE Quit
  <2>1. RuntimeType' /\ SignalType' /\ ConnType' /\ ChannelType'
    BY <1>26, ClosePeerTypes DEF Quit
  <2>2. NoticeType'
    BY <1>26, ClosePeerTypes DEF Quit, NoticeType
  <2> QED
    BY <1>26, Frame, <2>1, <2>2 DEF Quit
<1>27. CASE Restart
  <2>1. PolicyType'
    BY <1>27 DEF Restart, PolicyType
  <2>2. RuntimeType'
    BY <1>27, StopTypes DEF Restart
  <2>3. GrantType'
    BY <1>27, NoneTypes DEF Restart, GrantType
  <2>4. SignalType'
    BY <1>27 DEF Restart, SignalType, AnySession
  <2>5. ConnType'
    BY <1>27 DEF Restart, ConnType, AnySession
  <2>6. ChannelType'
    BY <1>27, NoneTypes DEF Restart, ChannelType
  <2>7. NoticeType'
    BY <1>27 DEF Restart, NoticeType
  <2> QED
    BY <1>27, Frame, <2>1, <2>2, <2>3, <2>4, <2>5, <2>6, <2>7 DEF Restart
<1>28. CASE Tick
  <2>1. GrantType'
    BY <1>28, AgentAssumption DEF Tick, GrantType, grantVars, NoLease
  <2>2. RuntimeType'
    BY <1>28, AgentAssumption
       DEF Tick, RuntimeType, runtimeVars, Guard!GuardTick, Guard!Older,
           Guard!GuardTypeOK, Guard!NotArmed
  <2>3. ChannelType'
    BY <1>28, AgentAssumption DEF Tick, ChannelType, NoPing
  <2> QED
    BY <1>28, Frame, <2>1, <2>2, <2>3 DEF Tick
<1> QED
  BY <1>1, <1>2, <1>3, <1>4, <1>5, <1>6, <1>7, <1>8, <1>9, <1>10, <1>11, <1>12, <1>13, <1>14,
     <1>15, <1>16, <1>17, <1>18, <1>19, <1>20, <1>21, <1>22, <1>23, <1>24, <1>25, <1>26, <1>27,
     <1>28
     DEF Next, Signaling, Callback, Local

-----------------------------------------------------------------------------
(* Safety *)

\* Every action keeps the controller supervised, the lock closed and the grant
\* under the policy.
LEMMA NextSafe ==
    ASSUME IInv, Next
    PROVE  Safe'
<1> USE DEF IInv, Safe, ControllerSupervised, LockFailsClosed, GrantUnderPolicy
<1>1. CASE Redial
  BY <1>1 DEF Redial, policyVars, grantVars, runtimeVars, connVars, noticeVars
<1>2. CASE Connect
  BY <1>2
     DEF Connect, Notify, SessionStatus, policyVars, grantVars, runtimeVars,
         connVars
<1>3. CASE ConnectFails
  BY <1>3
     DEF ConnectFails, policyVars, grantVars, runtimeVars, connVars, noticeVars
<1>4. CASE LeaveRun
  BY <1>4
     DEF LeaveRun, ClosePeer, Resume, Notify, SessionStatus, StopControlRuntime,
         Guard!Drop, policyVars, grantVars, runtimeVars, connVars
<1>5. ASSUME NEW s \in Session, NEW requested \in {"view", "control"},
             NEW sinkOk \in SinkResult, SessionRequest(s, requested, sinkOk)
      PROVE  Safe'
  <2>1. CASE EchoesLease(requested)
    BY <1>5, <2>1 DEF SessionRequest, policyVars, grantVars, runtimeVars, connVars
  <2>2. CASE ~EchoesLease(requested)
    <3> DEFINE can == CanControl(requested, sinkOk)
    <3>1. /\ StopControlRuntime
          /\ granted_control' = can /\ pending_sink' = can
          /\ expires' = IF can THEN LeaseTicks ELSE NoLease
          /\ UNCHANGED <<policyVars, status>>
      BY <1>5, <2>2 DEF SessionRequest
    <3>2. LeaseTicks # NoLease
      BY AgentAssumption DEF NoLease
    <3>3. ControllerSupervised' /\ LockFailsClosed'
      BY <3>1 DEF StopControlRuntime, Guard!Drop, policyVars
    <3>4. GrantUnderPolicy'
      BY <3>1, <3>2 DEF policyVars, CanControl
    <3> QED
      BY <3>3, <3>4
  <2> QED
    BY <2>1, <2>2
<1>6. CASE Offer
  BY <1>6
     DEF Offer, ClosePeer, Resume, Notify, StopControlRuntime, Guard!Drop,
         policyVars, grantVars
<1>7. CASE SessionClose
  BY <1>7
     DEF SessionClose, ClosePeer, Resume, Notify, StopControlRuntime, Guard!Drop,
         policyVars
<1>8. ASSUME NEW p \in PeerId, NEW sinkOk \in SinkResult, CreatePeer(p, sinkOk)
      PROVE  Safe'
  BY <1>8, AgentAssumption
     DEF CreatePeer, StartControl, Notify, RevokeControl, StopControlRuntime,
         Guard!Drop, policyVars, grantVars, runtimeVars, NoLease
<1>9. ASSUME NEW p \in PeerId, CaptureFails(p)
      PROVE  Safe'
  BY <1>9 DEF CaptureFails, StopControlRuntime, Guard!Drop, policyVars, grantVars
<1>10. CASE AnswerSent
  BY <1>10
     DEF AnswerSent, Notify, SessionStatus, policyVars, grantVars, runtimeVars
<1>11. CASE PeerCloseDone
  BY <1>11
     DEF PeerCloseDone, Resume, Notify, ConnectionGone, policyVars, grantVars,
         runtimeVars
<1>12. CASE PeerCloseTimeout
  BY <1>12
     DEF PeerCloseTimeout, Resume, Notify, policyVars, grantVars, runtimeVars
<1>13. ASSUME NEW p \in PeerId, OrphanDies(p)
      PROVE  Safe'
  BY <1>13
     DEF OrphanDies, ConnectionGone, policyVars, grantVars, runtimeVars,
         noticeVars
<1>14. ASSUME NEW p \in PeerId, ConnectionUp(p)
      PROVE  Safe'
  BY <1>14 DEF ConnectionUp, policyVars, grantVars, runtimeVars, noticeVars
<1>15. ASSUME NEW p \in PeerId, ConnectionFails(p)
      PROVE  Safe'
  BY <1>15 DEF ConnectionFails, policyVars, grantVars, runtimeVars, noticeVars
<1>16. ASSUME NEW p \in PeerId, ChannelOpen(p)
      PROVE  Safe'
  BY <1>16 DEF ChannelOpen, policyVars, grantVars, runtimeVars, noticeVars
<1>17. ASSUME NEW p \in PeerId, ChannelClose(p)
      PROVE  Safe'
  BY <1>17 DEF ChannelClose, policyVars, grantVars, runtimeVars, noticeVars
<1>18. ASSUME NEW p \in PeerId, LapsedMessage(p)
      PROVE  Safe'
  BY <1>18
     DEF LapsedMessage, RevokeControl, StopControlRuntime, Guard!Drop,
         QueuePolicyUpdate, policyVars, connVars
<1>19. ASSUME NEW p \in PeerId, Ping(p)
      PROVE  Safe'
  BY <1>19, AgentAssumption
     DEF Ping, LeaseActive, policyVars, runtimeVars, connVars, noticeVars,
         NoLease, TypeOK, GrantType
<1>20. ASSUME NEW p \in PeerId, Input(p)
      PROVE  Safe'
  BY <1>20
     DEF Input, Guard!Activity, Guard!Apply, Guard!ReleaseAllMessage, policyVars,
         grantVars, connVars, noticeVars
<1>21. CASE WatchdogRevokes
  BY <1>21
     DEF WatchdogRevokes, RevokeControl, StopControlRuntime, Guard!Drop,
         QueuePolicyUpdate, policyVars, connVars
<1>22. CASE WatchdogExpires
  BY <1>22
     DEF WatchdogExpires, Guard!Expire, policyVars, grantVars, connVars,
         noticeVars
<1>23. CASE SendPolicyUpdate
  BY <1>23 DEF SendPolicyUpdate, policyVars, grantVars, runtimeVars, connVars
<1>24. ASSUME NEW enabled \in BOOLEAN, SetControlEnabled(enabled)
      PROVE  Safe'
  BY <1>24
     DEF SetControlEnabled, MaySet, RevokeControl, StopControlRuntime, Guard!Drop,
         Notify, SessionStatus, grantVars, runtimeVars, connVars
<1>25. CASE EmergencyStop
  BY <1>25
     DEF EmergencyStop, RevokeControl, StopControlRuntime, Guard!Drop, connVars
<1>26. CASE Quit
  BY <1>26
     DEF Quit, ClosePeer, Resume, Notify, StopControlRuntime, Guard!Drop,
         policyVars, grantVars
<1>27. CASE Restart
  BY <1>27, AgentAssumption DEF Restart, StopControlRuntime, Guard!Drop, NoLease
<1>28. CASE Tick
  BY <1>28, AgentAssumption
     DEF Tick, Guard!GuardTick, Guard!Older, policyVars, connVars, noticeVars,
         NoLease, TypeOK, GrantType, RuntimeType, Guard!GuardTypeOK, Guard!NotArmed
<1> QED
  BY <1>1, <1>2, <1>3, <1>4, <1>5, <1>6, <1>7, <1>8, <1>9, <1>10, <1>11, <1>12, <1>13, <1>14,
     <1>15, <1>16, <1>17, <1>18, <1>19, <1>20, <1>21, <1>22, <1>23, <1>24, <1>25, <1>26, <1>27,
     <1>28
     DEF Next, Signaling, Callback, Local

\* The agent starts in the invariant.
THEOREM InitIInv == Init => IInv
<1> SUFFICES ASSUME Init PROVE IInv
  OBVIOUS
<1> USE DEF Init
<1>1. PolicyType /\ SignalType /\ NoticeType
  BY DEF PolicyType, SignalType, NoticeType, AnySession
<1>2. GrantType /\ ChannelType
  BY NoneTypes DEF GrantType, ChannelType
<1>3. RuntimeType
  BY NoneTypes DEF RuntimeType, Guard!GuardInit, Guard!GuardTypeOK
<1>4. ConnType
  BY DEF ConnType, AnySession
<1>5. Safe
  BY DEF Safe, ControllerSupervised, LockFailsClosed, GrantUnderPolicy, Guard!GuardInit
<1> QED
  BY <1>1, <1>2, <1>3, <1>4, <1>5 DEF IInv, TypeOK

\* Every step of the agent keeps the invariant.
THEOREM NextIInv == IInv /\ [Next]_vars => IInv'
<1> SUFFICES ASSUME IInv, [Next]_vars PROVE IInv'
  OBVIOUS
<1>1. CASE Next
  BY <1>1, NextTypes, NextSafe DEF IInv
<1>2. CASE UNCHANGED vars
  <2>1. TypeOK'
    BY <1>2, Frame DEF IInv, TypeOK, vars
  <2>2. Safe'
    BY <1>2 DEF IInv, Safe, ControllerSupervised, LockFailsClosed, GrantUnderPolicy,
                vars, policyVars, grantVars, runtimeVars, connVars, noticeVars
  <2> QED
    BY <2>1, <2>2 DEF IInv
<1> QED
  BY <1>1, <1>2

\* The invariant holds throughout.
THEOREM Invariance == Spec => []IInv
BY InitIInv, NextIInv, PTL DEF Spec

\* Every variable keeps its type.
THEOREM TypeCorrect == Spec => []TypeOK
<1>1. IInv => TypeOK
  BY DEF IInv
<1> QED
  BY <1>1, Invariance, PTL

\* No interleaving of revocation, peer replacement, reconnection and session
\* requests leaves an input controller without its grant, its peer or its
\* watchdog, or an input down without a controller.
THEOREM ControllerStaysSupervised == Spec => []ControllerSupervised
<1>1. IInv => ControllerSupervised
  BY DEF IInv, Safe
<1> QED
  BY <1>1, Invariance, PTL

\* After an emergency stop control stays off for the life of the process.
THEOREM LockStaysClosed == Spec => []LockFailsClosed
<1>1. IInv => LockFailsClosed
  BY DEF IInv, Safe
<1> QED
  BY <1>1, Invariance, PTL

\* A grant, its deadline and its prepared sink live only under the local policy.
THEOREM GrantStaysUnderPolicy == Spec => []GrantUnderPolicy
<1>1. IInv => GrantUnderPolicy
  BY DEF IInv, Safe
<1> QED
  BY <1>1, Invariance, PTL
-----------------------------------------------------------------------------
(* What a step may do *)

\* Only an input message puts something down on the host.
LEMMA OnlyInputPresses ==
    ASSUME IInv, [Next]_vars, ~(down' \subseteq down)
    PROVE  \E p \in PeerId : Input(p)
<1> USE DEF StopControlRuntime, RevokeControl, Guard!Drop, runtimeVars
<1>1. Signaling => down' \subseteq down
  BY DEF Signaling, Redial, Connect, ConnectFails, LeaveRun, SessionRequest, Offer,
         SessionClose, AnswerSent, CreatePeer, CaptureFails, StartControl,
         PeerCloseDone, PeerCloseTimeout, ClosePeer
<1>2. ASSUME NEW p \in PeerId, Callback(p)
      PROVE  down' \subseteq down \/ Input(p)
  BY <1>2 DEF Callback, OrphanDies, ConnectionUp, ConnectionFails, ChannelOpen,
              ChannelClose, LapsedMessage, Ping
<1>3. WatchdogRevokes \/ WatchdogExpires \/ SendPolicyUpdate \/ Tick
         => down' \subseteq down
  BY DEF WatchdogRevokes, WatchdogExpires, SendPolicyUpdate, Tick, Guard!Expire,
         Guard!GuardTick
<1>4. Local => down' \subseteq down
  BY DEF Local, SetControlEnabled, EmergencyStop, Quit, Restart, ClosePeer
<1>5. UNCHANGED vars => down' \subseteq down
  BY DEF vars
<1> QED
  BY <1>1, <1>2, <1>3, <1>4, <1>5 DEF Next

\* Remote input goes down only under an unexpired lease, with the local policy's
\* consent and never after an emergency stop.
THEOREM InputNeedsLease == Spec => InputOnlyUnderLease
<1>1. IInv /\ [Next]_vars
         => [~(down' \subseteq down)
                => LeaseActive /\ control_enabled /\ ~emergency_locked]_vars
  <2> SUFFICES ASSUME IInv, [Next]_vars, ~(down' \subseteq down)
               PROVE  LeaseActive /\ control_enabled /\ ~emergency_locked
    OBVIOUS
  <2>1. PICK p \in PeerId : Input(p)
    BY OnlyInputPresses
  <2>2. granted_control /\ ~Lapsed
    BY <2>1 DEF Input
  <2> QED
    BY <2>2 DEF Lapsed, LeaseActive, IInv, Safe, GrantUnderPolicy, LockFailsClosed
<1> QED
  BY <1>1, Invariance, PTL DEF Spec, InputOnlyUnderLease

\* The emergency lock is released by nothing but a new process.
THEOREM LockReleasedOnlyByRestart == Spec => LockIsOneWay
<1>1. [Next]_vars => [emergency_locked /\ ~emergency_locked' => main = "stopped"]_vars
  <2> SUFFICES ASSUME Next, emergency_locked, ~emergency_locked'
               PROVE  main = "stopped"
    OBVIOUS
  <2> USE DEF policyVars
  <2>1. ~Signaling
    BY DEF Signaling, Redial, Connect, ConnectFails, LeaveRun, SessionRequest, Offer,
           SessionClose, AnswerSent, CreatePeer, CaptureFails, PeerCloseDone,
           PeerCloseTimeout
  <2>2. ASSUME NEW p \in PeerId
        PROVE  ~Callback(p)
    BY DEF Callback, OrphanDies, ConnectionUp, ConnectionFails, ChannelOpen,
           ChannelClose, LapsedMessage, Ping, Input
  <2>3. ~(WatchdogRevokes \/ WatchdogExpires \/ SendPolicyUpdate \/ Tick)
    BY DEF WatchdogRevokes, WatchdogExpires, SendPolicyUpdate, Tick
  <2>4. Local => main = "stopped"
    BY DEF Local, SetControlEnabled, EmergencyStop, Quit, Restart
  <2> QED
    BY <2>1, <2>2, <2>3, <2>4 DEF Next
<1> QED
  BY <1>1, PTL DEF Spec, LockIsOneWay
\* A running lease is extended only by a ping of the adopted session.
THEOREM HeartbeatsRenew == Spec => OnlyHeartbeatsRenew
<1>1. IInv /\ [Next]_vars
         => [LeaseActive /\ granted_control' /\ expires' > expires
                => last_ping' = 0 /\ \E p \in PeerId : Speaks(p)]_vars
  <2> SUFFICES ASSUME IInv, Next, LeaseActive, granted_control', expires' > expires
               PROVE  last_ping' = 0 /\ \E p \in PeerId : Speaks(p)
    OBVIOUS
  <2>1. expires \in Int /\ expires' # expires
    BY DEF IInv, TypeOK, GrantType, NoLease
  <2>2. ~\E s \in Session, requested \in {"view", "control"}, ok \in SinkResult :
            SessionRequest(s, requested, ok)
    BY <2>1 DEF SessionRequest, EchoesLease, CanControl, grantVars
  <2>3. ~Signaling
    BY <2>1, <2>2
       DEF Signaling, Redial, Connect, ConnectFails, LeaveRun, Offer, SessionClose,
           AnswerSent, CreatePeer, CaptureFails, StartControl, RevokeControl,
           PeerCloseDone, PeerCloseTimeout, grantVars
  <2>4. ASSUME NEW p \in PeerId, Callback(p)
        PROVE  last_ping' = 0 /\ Speaks(p)
    BY <2>1, <2>4
       DEF Callback, OrphanDies, ConnectionUp, ConnectionFails, ChannelOpen,
           ChannelClose, LapsedMessage, Ping, Input, RevokeControl, grantVars
  <2>5. ~Tick
    <3>1. Tick => expires' = expires - 1 \/ expires' = expires
      BY DEF Tick
    <3> QED
      BY <2>1, <3>1
  <2>6. ~(WatchdogRevokes \/ WatchdogExpires \/ SendPolicyUpdate \/ Local)
    BY <2>1 DEF WatchdogRevokes, WatchdogExpires, SendPolicyUpdate, Local,
                SetControlEnabled, EmergencyStop, Quit, Restart, RevokeControl,
                grantVars
  <2> QED
    BY <2>3, <2>4, <2>5, <2>6 DEF Next
<1> QED
  BY <1>1, Invariance, PTL DEF Spec, OnlyHeartbeatsRenew

-----------------------------------------------------------------------------
(* Refinement *)

\* Every step of the agent is a step of InputGuard or leaves its inputs alone.
LEMMA StepRefines == [Next]_vars => [Guard!GuardNext]_(Guard!guardVars)
<1> SUFFICES ASSUME [Next]_vars
             PROVE  Guard!GuardNext \/ UNCHANGED Guard!guardVars
  OBVIOUS
<1> USE DEF StopControlRuntime, RevokeControl, runtimeVars, Guard!guardVars,
            Guard!GuardNext
<1>1. Signaling => Guard!Drop \/ UNCHANGED Guard!guardVars
  BY DEF Signaling, Redial, Connect, ConnectFails, LeaveRun, SessionRequest, Offer,
         SessionClose, AnswerSent, CreatePeer, CaptureFails, StartControl,
         PeerCloseDone, PeerCloseTimeout, ClosePeer
<1>2. ASSUME NEW p \in PeerId, Callback(p)
      PROVE  Guard!GuardNext \/ UNCHANGED Guard!guardVars
  BY <1>2 DEF Callback, OrphanDies, ConnectionUp, ConnectionFails, ChannelOpen,
              ChannelClose, LapsedMessage, Ping, Input
<1>3. WatchdogRevokes \/ WatchdogExpires \/ SendPolicyUpdate \/ Tick
         => Guard!GuardNext \/ UNCHANGED Guard!guardVars
  BY DEF WatchdogRevokes, WatchdogExpires, SendPolicyUpdate, Tick
<1>4. Local => Guard!Drop \/ UNCHANGED Guard!guardVars
  BY DEF Local, SetControlEnabled, EmergencyStop, Quit, Restart, ClosePeer
<1>5. UNCHANGED vars => UNCHANGED Guard!guardVars
  BY DEF vars
<1> QED
  BY <1>1, <1>2, <1>3, <1>4, <1>5 DEF Next

\* The agent as a whole keeps the safety part of what InputGuard promises.
THEOREM RefinesGuard == Spec => Guard!GuardInit /\ [][Guard!GuardNext]_(Guard!guardVars)
<1>1. Init => Guard!GuardInit
  BY DEF Init
<1> QED
  BY <1>1, StepRefines, PTL DEF Spec
=============================================================================
