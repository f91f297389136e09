---------------------------- MODULE VideoProofs ----------------------------
(***************************************************************************)
(* Proofs about the agent's video: VideoStream, for any profiles, bitrates *)
(* and holds, and ScreenCapture, for any cameras and any number of tracks. *)
(***************************************************************************)
EXTENDS VideoStream, ScreenCapture, SequenceTheorems, TLAPS

-----------------------------------------------------------------------------
(* The inductive invariant of the encoder *)

\* The ages the code keeps are no older than what they stand for: the downshift timer
\* than the low estimates, the verdict and the last report than the last healthy report.
AgesBounded ==
    /\ lowerAge # None => lowerAge <= lowFor
    /\ unhealthyAge # None => unhealthyAge <= badFor
    /\ IF report = "none" THEN badFor = DegradationHold
       ELSE reportAge <= badFor \/ badFor = DegradationHold

\* Where the thread holds a pending bitrate that it found below the target.
Lowering == step \in {"hold", "order", "held", "network", "apply"}

\* What the thread holds on its way through a frame: the frame, the bitrate it has read,
\* which is still below the target when it decides, and nothing pending before the encoder
\* has started.
ThreadInv ==
    /\ step \notin {"idle", "failed"} => frame # None
    /\ step \in {"idle", "captured"} => ~key
    /\ step \in {"set", "compare"} \/ Lowering => wanted # None
    /\ Lowering => wanted < target
    /\ step \in {"first", "set"} => ~started
    /\ ~started => lower = None /\ step \in {"idle", "captured", "first", "set"}

\* What the event loop's call of the setter has read stays true enough: an estimate that
\* came before the start finds nothing pending, one that raises the target does not lower
\* it, whatever the thread does meanwhile.
SetterInv ==
    setter # None =>
        /\ setter.to = "start" => lower = None /\ ~Lowering /\ step # "compare"
        /\ setter.to \in {"raise", "lower"} => started
        /\ setter.to = "raise" => target <= setter.rate

\* The scene cooldown's time is that of the last key frame, also while a frame is on its
\* way, and a new track asks for a key frame.
SceneInv ==
    /\ ~key /\ codec # None /\ codec[1] = track /\ ~forced /\ ~wasted => keyAge = idrFor
    /\ replaced => forced \/ wasted

-----------------------------------------------------------------------------
(* The inductive invariant of the profile *)

Silent(s) == \A i \in DOMAIN s : ~Says(s[i])
\* The last message of s that says the profile carries p.
LastSays(s, p) ==
    \E i \in DOMAIN s : Says(s[i]) /\ s[i][2] = p /\ \A j \in DOMAIN s : j > i => ~Says(s[j])

HasRequest(s) == \E i \in DOMAIN s : s[i][1] = "request"

\* Connected, the viewer will hear the agent's profile, or has heard it, or the agent's
\* socket has taken it along.
ProfileKnown ==
    session \in {"connecting", "active", "resumed"} =>
        \/ lost
        \/ HasRequest(toAgent)
        \/ LastSays(toViewer, profile)
        \/ Silent(toViewer) /\ (shown = profile \/ unsent)

\* Without signaling no message is on its way to the viewer.
NothingHeard == Away => toViewer = <<>>

IInv == /\ TypeOK /\ AgesBounded /\ ThreadInv /\ SetterInv /\ SceneInv
        /\ ProfileKnown /\ NothingHeard

\* The parts of the type invariant: the session, the encoder's rates, its frames, and what
\* is known of the network.
SessionType ==
    /\ {shown, captured, profile} \subseteq Profile
    /\ stabilizing \in Profile \union {None} /\ pending \in BOOLEAN
    /\ unsent \in BOOLEAN
    /\ session \in {"offline", "connecting", "active", "resuming", "resumed"}
    /\ toAgent \in Seq(Type \X Profile)
    /\ toViewer \in Seq(Heard \X Profile)
    /\ agentUp \in BOOLEAN /\ known \in BOOLEAN /\ lost \in BOOLEAN
    /\ scope \in Scopes /\ changes \in 0..scope.changes /\ drops \in 0..scope.drops
    /\ track \in Profile \union {None}

RateType ==
    /\ target \in Rate /\ ceiling \in Rate /\ started \in BOOLEAN
    /\ lower \in {None} \union Rate /\ wanted \in Rate \union {None}
    /\ setter \in {None} \union [rate : Rate, to : {"start", "raise", "forget", "lower"}]

FrameType ==
    /\ step \in Step /\ frame \in Profile \union {None} /\ key \in BOOLEAN
    /\ forced \in BOOLEAN /\ sampled \in BOOLEAN /\ stable \in 0..StableFrames
    /\ codec \in {None} \union (Profile \X Rate)
    /\ replaced \in BOOLEAN /\ wasted \in BOOLEAN

AgeType ==
    /\ lowerAge \in {None} \union (-1..Hold) /\ keyAge \in {None} \union (-1..Cooldown)
    /\ report \in {"none", "healthy", "unhealthy"} /\ reportAge \in 0..(ReportMaxAge + 1)
    /\ unhealthyAge \in {None} \union (0..DegradationHold)
    /\ lowFor \in 0..Hold /\ badFor \in 0..DegradationHold /\ idrFor \in 0..Cooldown

\* They make it up.
LEMMA TypeParts == TypeOK <=> SessionType /\ RateType /\ FrameType /\ AgeType
  BY DEF TypeOK, SessionType, RateType, FrameType, AgeType

\* What the proofs need of the constants.
LEMMA Constants ==
    /\ None \notin Int /\ None \notin Profile /\ Balanced \in Profile
    /\ MinBitrate \in Nat /\ MinBitrate >= 1 /\ DesktopMax \in Nat /\ DefaultBitrate \in Nat
    /\ MinBitrate <= DefaultBitrate /\ DefaultBitrate <= DesktopMax
    /\ Hold \in Nat /\ Hold >= 1 /\ DegradationHold \in Nat /\ DegradationHold >= 1
    /\ Cooldown \in Nat /\ Cooldown >= 1 /\ StableFrames \in Nat /\ StableFrames >= 1
    /\ ReportMaxAge \in Nat /\ ReportMaxAge >= DegradationHold
    /\ \A s \in Scopes : s.changes \in Nat /\ s.drops \in Nat /\ s.estimates \subseteq Nat
<1>1. {DefaultBitrate, MinBitrate, DesktopMax} \subseteq Nat \ {0}
  BY VideoAssumption
<1>2. {Hold, DegradationHold, Cooldown, StableFrames} \subseteq Nat \ {0}
  BY VideoAssumption
<1>3. MinBitrate \in Nat \ {0} /\ DesktopMax \in Nat /\ DefaultBitrate \in Nat
  BY <1>1
<1>4. Hold \in Nat \ {0} /\ DegradationHold \in Nat \ {0} /\ Cooldown \in Nat \ {0} /\ StableFrames \in Nat \ {0}
  BY <1>2
<1>5. /\ None \notin Int /\ None \notin Profile /\ Balanced \in Profile
      /\ MinBitrate <= DefaultBitrate /\ DefaultBitrate <= DesktopMax
      /\ ReportMaxAge \in Nat /\ ReportMaxAge >= DegradationHold
  BY VideoAssumption
<1>6. ASSUME NEW s \in Scopes
      PROVE  s.changes \in Nat /\ s.drops \in Nat /\ s.estimates \subseteq Nat
  <2>1. s \in [changes : Nat, drops : Nat, estimates : SUBSET Nat]
    BY VideoAssumption
  <2> QED
    BY <2>1
<1> QED
  BY <1>3, <1>4, <1>5, <1>6

\* A profile's bitrates are in order.
LEMMA ProfileRates ==
    ASSUME NEW p \in Profile
    PROVE  /\ Initial[p] \in Nat /\ Maximum[p] \in Nat
           /\ MinBitrate <= Initial[p] /\ Initial[p] <= Maximum[p] /\ Maximum[p] <= DesktopMax
  BY VideoAssumption

-----------------------------------------------------------------------------
(* Frames of the larger steps *)

\* The viewer's steps other than its samples leave the agent alone.
ViewerMove ==
    \/ Connect \/ AutoReconnect \/ \E p \in Profile : ChangeVideoProfile(p)
    \/ ProfileTimeout \/ StabilizeTimeout \/ OnAccept \/ OnAnswer \/ OnConfigured
    \/ SignalingDrops \/ Resume \/ Teardown \/ OnPeerOffline \/ OnAgentOnline

\* So they do.
LEMMA ViewerFrame ==
    ASSUME ViewerMove
    PROVE  UNCHANGED <<agentVars, encoder, reportVars, history>>
  BY DEF ViewerMove, Connect, AutoReconnect, ChangeVideoProfile, ProfileTimeout,
     StabilizeTimeout, OnAccept, OnAnswer, OnConfigured, SignalingDrops, Resume, Teardown,
     OnPeerOffline, OnAgentOnline

\* The steps of the thread and of the event loop on the encoder leave the session alone.
EncoderStep ==
    EncoderThread \/ Tick \/ PictureLoss \/ Setter \/ \E e \in scope.estimates : SetTargetBitrate(e)

\* So they do.
LEMMA EncoderFrame ==
    ASSUME EncoderStep
    PROVE  UNCHANGED <<viewerVars, signaling, profile, track>>
  BY DEF EncoderStep, EncoderThread, CaptureFrame, StartFrame, FirstFrame, StartBitrate,
     LookAtLower, CompareLower, DropLower, HoldLower, DecideDownshift, ApplyLower, ReopenCodec, EncodeFrame,
     Tick, PictureLoss, Setter, RaiseTarget, ForgetLower, NoteLower, SetTargetBitrate, agentVars

\* What a step is to the encoder: nothing, its replacement, or one of its own steps.
Outside == UNCHANGED <<track, replaced, encoder, reportVars, history>>

\* Every step is one of these.
LEMMA StepCases ==
    ASSUME SessionType, [Next]_vars
    PROVE  \/ Outside \/ OnConfigure
           \/ NewEncoder /\ replaced' = FALSE
           \/ \E verdict \in {"healthy", "unhealthy"} : SampleVideoStats(verdict)
           \/ \E e \in Nat : setter = None /\ SetTargetBitrate(e)
           \/ RaiseTarget \/ ForgetLower \/ NoteLower \/ EncoderThread \/ Tick \/ PictureLoss
<1>1. CASE ViewerMove
  BY <1>1, ViewerFrame DEF Outside, agentVars
<1>2. CASE OnRequest \/ AgentReturns
  BY <1>2 DEF OnRequest, AgentReturns, Outside, agentVars
<1>3. CASE OnOffer \/ OnClose \/ AgentClosesPeer
  BY <1>3 DEF OnOffer, OnClose, AgentClosesPeer, ClosePeer
<1>4. CASE AgentDrops \/ AgentRefuses
  BY <1>4 DEF AgentDrops, AgentRefuses, RunEnds, ClosePeer, Outside
<1>5. CASE UNCHANGED vars
  BY <1>5 DEF vars, Outside, agentVars
<1>6. ASSUME NEW e \in scope.estimates, setter = None, SetTargetBitrate(e)
      PROVE  \E x \in Nat : setter = None /\ SetTargetBitrate(x)
  <2>1. e \in Nat
    BY Constants DEF SessionType
  <2> QED
    BY <1>6, <2>1
<1> QED
  BY <1>1, <1>2, <1>3, <1>4, <1>5, <1>6 DEF Next, Viewer, Agent, ViewerMove, Setter

-----------------------------------------------------------------------------
(* Types *)

\* The session, its messages and its profiles keep their types.
LEMMA SessionStep ==
    ASSUME SessionType, [Next]_vars
    PROVE  SessionType'
<1> USE Constants DEF SessionType, Type, Heard
<1> DEFINE Out == Type \X Profile
           In == Heard \X Profile
<1>1. ASSUME UNCHANGED <<viewerVars, signaling, profile, track>> PROVE SessionType'
  BY <1>1 DEF viewerVars, budget, signaling, agentSide
<1>2. ASSUME NEW s \in Seq(Out), NEW type \in Type, NEW p \in Profile
      PROVE  Append(s, <<type, p>>) \in Seq(Out)
  OBVIOUS
<1>3. ASSUME NEW s \in Seq(In), NEW type \in Heard, NEW p \in Profile
      PROVE  Append(s, <<type, p>>) \in Seq(In)
  OBVIOUS
<1>4. ASSUME toViewer # <<>>
      PROVE  Tail(toViewer) \in Seq(In) /\ Head(toViewer)[2] \in Profile
  BY <1>4, HeadTailProperties
<1>5. ASSUME NEW S, NEW s \in Seq(S), NEW n \in 0..Len(s)
      PROVE  SubSeq(s, 1, n) \in Seq(S)
  BY <1>5, SubSeqProperties
<1>6. ASSUME toAgent' \in Prefixes(toAgent) PROVE toAgent' \in Seq(Out)
  BY <1>5, <1>6 DEF Prefixes
<1>7. ASSUME NEW type \in Type, NEW p \in Profile, NEW s \in Seq(In), Send(type, p, s)
      PROVE  toAgent' \in Seq(Out) /\ toViewer' \in Seq(In)
  <2>1. /\ Append(toAgent, <<type, p>>) \in Seq(Out) /\ Append(s, <<"offline", p>>) \in Seq(In)
        /\ toAgent \in Seq(Out)
    BY <1>2, <1>3
  <2> HIDE DEF Out, In
  <2> QED
    BY <1>7, <2>1, Zenon DEF Send
<1>8. ASSUME NEW open, TearsDown(open)
      PROVE  /\ toAgent' \in Seq(Out) /\ toViewer' \in Seq(In)
             /\ session' = "offline" /\ pending' = FALSE /\ stabilizing' = None
  BY <1>2, <1>6, <1>8, EmptySeq DEF TearsDown
\* The viewer
<1>9. CASE Connect
  BY <1>2, <1>9 DEF Connect, agentVars, agentSide, budget
<1>10. CASE AutoReconnect
  BY <1>2, <1>10 DEF AutoReconnect, agentVars, agentSide, budget
<1>11. ASSUME NEW p \in Profile, ChangeVideoProfile(p) PROVE SessionType'
  <2>1. toAgent' \in Seq(Out) /\ toViewer' \in Seq(In)
    BY <1>7, <1>11 DEF ChangeVideoProfile
  <2>2. changes' \in 0..scope'.changes
    BY <1>11 DEF ChangeVideoProfile
  <2>3. shown' \in Profile /\ unsent' \in BOOLEAN /\ pending' \in BOOLEAN
    BY <1>11 DEF ChangeVideoProfile
  <2> QED
    BY <1>11, <2>1, <2>2, <2>3 DEF ChangeVideoProfile, agentVars, agentSide
<1>12. CASE ProfileTimeout
  BY <1>12 DEF ProfileTimeout, agentVars, signaling, agentSide, budget
<1>13. CASE StabilizeTimeout
  BY <1>13 DEF StabilizeTimeout, agentVars, signaling, agentSide, budget
<1>14. CASE OnAccept
  <2>1. toAgent' \in Seq(Out) /\ toViewer' \in Seq(In) /\ shown' \in Profile
    BY <1>4, <1>7, <1>14 DEF OnAccept, Hears
  <2>2. session' \in {session, "active"} /\ unsent' = FALSE
    BY <1>14 DEF OnAccept
  <2> QED
    BY <1>14, <2>1, <2>2 DEF OnAccept, agentVars, agentSide, budget
<1>15. CASE OnAnswer
  BY <1>4, <1>15 DEF OnAnswer, Hears, agentVars, agentSide, budget
<1>16. CASE OnConfigured
  BY <1>4, <1>16 DEF OnConfigured, Hears, agentVars, agentSide, budget
<1>17. CASE SignalingDrops
  <2>1. toAgent' \in Seq(Out) /\ toViewer' \in Seq(In) /\ session' = "resuming"
    BY <1>6, <1>17, EmptySeq DEF SignalingDrops
  <2>2. drops' \in 0..scope'.drops
    BY <1>17 DEF SignalingDrops
  <2> QED
    BY <1>17, <2>1, <2>2 DEF SignalingDrops, agentVars, agentSide
<1>18. CASE Resume
  BY <1>2, <1>18 DEF Resume, agentVars, agentSide, budget
<1>19. CASE Teardown
  <2>1. PICK open \in BOOLEAN : TearsDown(open)
    BY <1>19 DEF Teardown
  <2>2. drops' \in 0..scope'.drops
    BY <1>19 DEF Teardown
  <2> QED
    BY <1>8, <1>19, <2>1, <2>2 DEF Teardown, agentVars, agentSide
<1>20. CASE OnPeerOffline \/ OnAgentOnline
  <2>1. CASE TearsDown(TRUE)
    BY <1>8, <1>20, <2>1 DEF OnPeerOffline, OnAgentOnline, agentVars, agentSide, budget
  <2>2. CASE toViewer' = Tail(toViewer) /\ pending' \in {pending, FALSE}
             /\ UNCHANGED <<session, stabilizing, toAgent>>
    <3>1. UNCHANGED <<shown, captured, unsent, budget, agentSide, profile, track>>
      BY <1>20 DEF OnPeerOffline, OnAgentOnline, agentVars
    <3>2. toViewer' \in Seq(In) /\ pending' \in BOOLEAN
      BY <1>4, <1>20, <2>2 DEF OnPeerOffline, OnAgentOnline, Hears
    <3> QED
      BY <2>2, <3>1, <3>2 DEF agentSide, budget
  <2> QED
    BY <1>20, <2>1, <2>2 DEF OnPeerOffline, OnAgentOnline
<1>21. ASSUME NEW verdict \in {"healthy", "unhealthy"}, SampleVideoStats(verdict)
       PROVE  SessionType'
  BY <1>21 DEF SampleVideoStats, agentVars, signaling, agentSide, budget
\* The agent
<1>22. ASSUME NEW type, Received(type)
       PROVE  toAgent' \in Seq(Out) /\ Head(toAgent)[2] \in Profile
  BY <1>22, HeadTailProperties DEF Received
<1>23. ASSUME NEW type \in Heard, NEW p \in Profile, Reply(<<type, p>>)
       PROVE  toViewer' \in Seq(In)
  BY <1>3, <1>23 DEF Reply
<1>24. CASE OnRequest
  <2>1. PICK p \in Profile : p = Head(toAgent)[2]
    BY <1>22, <1>24 DEF OnRequest
  <2>2. Reply(<<"accept", p>>) /\ profile' = p /\ known' = TRUE /\ lost' \in BOOLEAN
    BY <1>24, <2>1 DEF OnRequest, SaysProfile
  <2> QED
    BY <1>22, <1>23, <1>24, <2>2 DEF OnRequest, viewerVars, budget
<1>25. CASE OnOffer
  <2>1. PICK p \in Profile : p = profile
    OBVIOUS
  <2>2. Reply(<<"answer", p>>) /\ track' = p
    BY <1>25, <2>1 DEF OnOffer
  <2> QED
    BY <1>22, <1>23, <1>25, <2>2 DEF OnOffer, viewerVars, budget, agentSide
<1>26. CASE OnClose
  BY <1>22, <1>26 DEF OnClose, ClosePeer, viewerVars, budget, agentSide
<1>27. CASE AgentClosesPeer
  <2>1. drops' \in 0..scope'.drops /\ track' = None
    BY <1>27 DEF AgentClosesPeer, ClosePeer
  <2> QED
    BY <1>27, <2>1 DEF AgentClosesPeer, signaling, agentSide
<1>28. CASE OnConfigure
  <2>1. PICK p \in Profile : p = Head(toAgent)[2]
    BY <1>22, <1>28 DEF OnConfigure
  <2>2. /\ Reply(<<"configured", p>>) /\ lost' \in BOOLEAN
        /\ UNCHANGED <<profile, track>> \/ (profile' = p /\ track' = p)
    BY <1>28, <2>1 DEF OnConfigure, ApplyVideoProfile, SaysProfile, agentVars
  <2>3. toViewer' \in Seq(In)
    BY <1>23, <2>2
  <2>4. toAgent' \in Seq(Out)
    BY <1>22, <1>28 DEF OnConfigure
  <2> QED
    BY <1>28, <2>2, <2>3, <2>4 DEF OnConfigure, viewerVars, budget
<1>29. ASSUME NEW passed \in 0..Len(toViewer), RunEnds(passed)
       PROVE  /\ toAgent' \in Seq(Out) /\ toViewer' \in Seq(In) /\ agentUp' = FALSE
              /\ lost' \in BOOLEAN /\ UNCHANGED <<known, profile>> /\ track' \in {track, None}
  <2>1. SubSeq(toViewer, 1, passed) \in Seq(In)
    BY <1>5
  <2>2. toViewer' \in Seq(In)
    <3>1. CASE toAgent = <<>>
      BY <1>29, <2>1, <3>1 DEF RunEnds, SocketCloses
    <3>2. CASE toAgent # <<>>
      <4>1. Head(toAgent)[2] \in Profile
        BY <3>2, HeadTailProperties
      <4> QED
        BY <1>3, <1>29, <2>1, <4>1 DEF RunEnds, SocketCloses
    <3> QED
      BY <3>1, <3>2
  <2>3. lost' \in BOOLEAN /\ agentUp' = FALSE /\ toAgent' = <<>>
    BY <1>29 DEF RunEnds, SocketCloses
  <2>4. UNCHANGED <<known, profile>> /\ track' \in {track, None}
    BY <1>29 DEF RunEnds, ClosePeer
  <2> QED
    BY <2>2, <2>3, <2>4, EmptySeq
<1>30. CASE AgentDrops
  <2>1. PICK passed \in 0..Len(toViewer) : RunEnds(passed)
    BY <1>30 DEF AgentDrops
  <2>2. drops' \in 0..scope'.drops
    BY <1>30 DEF AgentDrops
  <2> QED
    BY <1>29, <1>30, <2>1, <2>2 DEF AgentDrops
<1>31. CASE AgentRefuses
  <2>1. Len(toViewer) \in 0..Len(toViewer)
    OBVIOUS
  <2> QED
    BY <1>29, <1>31, <2>1 DEF AgentRefuses, viewerVars, budget
<1>32. CASE AgentReturns
  <2>1. toViewer' \in Seq(In) /\ known' \in BOOLEAN /\ agentUp' = TRUE
    BY <1>23, <1>32 DEF AgentReturns
  <2> QED
    BY <1>32, <2>1 DEF AgentReturns, viewerVars, budget, agentVars
<1>33. CASE EncoderStep
  BY <1>1, <1>33, EncoderFrame
<1>34. CASE UNCHANGED vars
  BY <1>1, <1>34 DEF vars, agentVars
<1> QED
  BY <1>9, <1>10, <1>11, <1>12, <1>13, <1>14, <1>15, <1>16, <1>17, <1>18, <1>19, <1>20, <1>21,
     <1>24, <1>25, <1>26, <1>27, <1>28, <1>30, <1>31, <1>32, <1>33, <1>34
     DEF Next, Viewer, Agent, EncoderStep

\* Clamping puts a rate between the floor and the ceiling.
LEMMA ClampRange ==
    ASSUME NEW rate \in Nat, NEW most \in Rate
    PROVE  Clamp(rate, most) \in MinBitrate..most /\ Clamp(rate, most) \in Rate
  BY Constants DEF Clamp, Rate

\* A new encoder's rates, frames and ages have their types.
LEMMA NewTypes ==
    ASSUME NewEncoder
    PROVE  RateType' /\ AgeType' /\ (replaced' = FALSE => FrameType')
<1> USE Constants
<1>1. target' \in Rate /\ ceiling' \in Rate
  BY DEF NewEncoder, Rate
<1>2. started' = FALSE /\ lower' = None /\ wanted' = None /\ setter' = None
  BY DEF NewEncoder
<1>3. RateType'
  BY <1>1, <1>2 DEF RateType, Rate
<1>4. /\ lowerAge' = None /\ keyAge' = None /\ report' = "none" /\ reportAge' = 0
      /\ unhealthyAge' = None /\ lowFor' = 0 /\ badFor' = DegradationHold /\ idrFor' = 0
  BY DEF NewEncoder
<1>5. AgeType'
  BY <1>4 DEF AgeType
<1>6. /\ step' = "idle" /\ frame' = None /\ key' = FALSE /\ forced' = FALSE /\ sampled' = FALSE
      /\ stable' = 0 /\ codec' = None /\ wasted' = FALSE
  BY DEF NewEncoder
<1>7. replaced' = FALSE => FrameType'
  <2>1. step' \in Step /\ stable' \in 0..StableFrames
    BY <1>6 DEF Step
  <2> QED
    BY <1>6, <2>1 DEF FrameType
<1> QED
  BY <1>3, <1>5, <1>7

\* The target, its ceiling and what the thread or the setter holds stay within the
\* encoder's limits.
LEMMA RateStep ==
    ASSUME SessionType, RateType, FrameType, ThreadInv, [Next]_vars
    PROVE  RateType'
<1> USE DEF RateType
<1>1. ASSUME UNCHANGED <<target, ceiling, started, lower, wanted, setter>> PROVE RateType'
  BY <1>1 DEF Rate
<1>2. CASE Outside \/ OnConfigure \/ Tick \/ PictureLoss
  BY <1>1, <1>2 DEF Outside, OnConfigure, Tick, PictureLoss, encoder, rateVars, frameVars
<1>3. ASSUME NEW verdict \in {"healthy", "unhealthy"}, SampleVideoStats(verdict) PROVE RateType'
  BY <1>1, <1>3 DEF SampleVideoStats, encoder, rateVars, frameVars
<1>4. ASSUME NEW e \in Nat, SetTargetBitrate(e) PROVE RateType'
  <2> DEFINE rate == Clamp(e, ceiling)
             to == CASE ~started -> "start" [] started /\ rate >= target -> "raise"
                     [] OTHER -> "lower"
  <2>1. rate \in Rate /\ to \in {"start", "raise", "forget", "lower"}
    BY ClampRange
  <2>2. setter' = [rate |-> rate, to |-> to]
    BY <1>4 DEF SetTargetBitrate
  <2> HIDE DEF rate, to
  <2>3. setter' \in [rate : Rate, to : {"start", "raise", "forget", "lower"}]
    BY <2>1, <2>2
  <2>4. UNCHANGED <<target, ceiling, started, lower, wanted>>
    BY <1>4 DEF SetTargetBitrate, rateVars, frameVars
  <2> QED
    BY <2>3, <2>4 DEF Rate
<1>5. CASE RaiseTarget
  <2>1. setter \in [rate : Rate, to : {"start", "raise", "forget", "lower"}]
    BY <1>5 DEF RaiseTarget
  <2>2. target' \in Rate
    BY <1>5, <2>1 DEF RaiseTarget
  <2>3. setter' \in [rate : Rate, to : {"start", "raise", "forget", "lower"}]
    BY <1>5, <2>1 DEF RaiseTarget
  <2>4. UNCHANGED <<ceiling, started, lower, wanted>>
    BY <1>5 DEF RaiseTarget, frameVars
  <2> QED
    BY <2>2, <2>3, <2>4 DEF Rate
<1>6. CASE ForgetLower
  BY <1>6 DEF ForgetLower, frameVars, Rate
<1>7. CASE NoteLower
  <2>1. setter.rate \in Rate
    BY <1>7 DEF NoteLower
  <2> QED
    BY <1>7, <2>1 DEF NoteLower, frameVars, Rate
<1>8. CASE CaptureFrame \/ CompareLower \/ DropLower \/ HoldLower \/ DecideDownshift
           \/ ReopenCodec \/ EncodeFrame
  <2>1. UNCHANGED <<target, ceiling, started, setter>>
    BY <1>8 DEF CaptureFrame, CompareLower, DropLower, HoldLower, DecideDownshift, ReopenCodec,
       EncodeFrame, rateVars
  <2>2. lower' \in {lower, None} /\ wanted' \in {wanted, None}
    BY <1>8 DEF CaptureFrame, CompareLower, DropLower, HoldLower, BeginHold, DecideDownshift,
       ReopenCodec, EncodeFrame, rateVars
  <2> QED
    BY <2>1, <2>2 DEF Rate
<1>9. ASSUME NEW content, StartFrame(content) PROVE RateType'
  BY <1>1, <1>9 DEF StartFrame, rateVars
<1>10. CASE FirstFrame
  <2>1. PICK p \in Profile : p = frame
    BY <1>10 DEF FirstFrame, ThreadInv, FrameType
  <2>2. Initial[p] \in Rate /\ Maximum[p] \in Rate
    BY ProfileRates, Constants DEF Rate
  <2>3. ceiling' \in Rate /\ wanted' \in Rate
    BY <1>10, <2>1, <2>2 DEF FirstFrame
  <2> QED
    BY <1>10, <2>3 DEF FirstFrame, Rate
<1>11. CASE StartBitrate
  <2>1. wanted \in Rate /\ ceiling \in Rate
    BY <1>11 DEF StartBitrate, ThreadInv
  <2>2. Clamp(wanted, ceiling) \in Rate
    BY <2>1, Constants, ClampRange DEF Rate
  <2> QED
    BY <1>11, <2>2 DEF StartBitrate, Rate
<1>12. CASE LookAtLower
  BY <1>12 DEF LookAtLower, rateVars, Rate
<1>13. CASE ApplyLower
  <2>1. wanted \in Rate
    BY <1>13 DEF ApplyLower, ThreadInv, Lowering
  <2> QED
    BY <1>13, <2>1 DEF ApplyLower, Rate
<1> QED
  BY <1>2, <1>3, <1>4, <1>5, <1>6, <1>7, <1>8, <1>9, <1>10, <1>11, <1>12, <1>13, StepCases,
     NewTypes DEF EncoderThread

\* The codec is opened with a profile's size and a rate within bounds.
LEMMA FrameStep ==
    ASSUME SessionType, RateType, FrameType, ThreadInv, [Next]_vars
    PROVE  FrameType'
<1> USE Constants DEF FrameType
<1>1. ASSUME UNCHANGED <<forced, sampled, stable, codec, frameVars, replaced, wasted>>
      PROVE  FrameType'
  BY <1>1 DEF frameVars
<1>2. CASE Outside
  BY <1>1, <1>2 DEF Outside, encoder, sceneVars, history
<1>3. ASSUME NEW verdict \in {"healthy", "unhealthy"}, SampleVideoStats(verdict)
      PROVE  FrameType'
  BY <1>1, <1>3 DEF SampleVideoStats, encoder, sceneVars, agentVars
<1>4. ASSUME NEW e \in Nat, SetTargetBitrate(e) PROVE FrameType'
  BY <1>1, <1>4 DEF SetTargetBitrate, sceneVars, agentVars, history
<1>5. CASE RaiseTarget \/ ForgetLower \/ NoteLower \/ Tick
  BY <1>1, <1>5 DEF RaiseTarget, ForgetLower, NoteLower, Tick, sceneVars, agentVars, history
<1>6. CASE OnConfigure
  <2>1. forced' \in BOOLEAN /\ replaced' \in BOOLEAN
    BY <1>6 DEF OnConfigure, ApplyVideoProfile, agentVars
  <2>2. UNCHANGED <<sampled, stable, codec, frameVars, wasted>>
    BY <1>6 DEF OnConfigure, history
  <2> QED
    BY <2>1, <2>2 DEF frameVars
<1>7. CASE PictureLoss
  BY <1>7 DEF PictureLoss, frameVars, agentVars, history
<1>8. CASE CaptureFrame
  <2>1. frame' \in Profile /\ step' \in Step /\ replaced' = FALSE
    BY <1>8 DEF CaptureFrame, SessionType, Step
  <2> QED
    BY <1>8, <2>1 DEF CaptureFrame, history
<1>9. ASSUME NEW content, StartFrame(content) PROVE FrameType'
  <2>1. stable' \in 0..StableFrames
    BY <1>9 DEF StartFrame
  <2>2. step' \in Step /\ key' \in BOOLEAN /\ wasted' \in BOOLEAN
    BY <1>9 DEF StartFrame, Step
  <2> QED
    BY <1>9, <2>1, <2>2 DEF StartFrame, agentVars
<1>10. CASE FirstFrame \/ StartBitrate \/ LookAtLower \/ CompareLower \/ DropLower
            \/ HoldLower \/ DecideDownshift \/ ApplyLower
  <2>1. step' \in Step
    BY <1>10 DEF FirstFrame, StartBitrate, LookAtLower, CompareLower, DropLower, HoldLower,
       BeginHold, DecideDownshift, Downshifts, KeepsTarget, ApplyLower, Step
  <2>2. UNCHANGED <<frame, key, forced, sampled, stable, codec, replaced, wasted>>
    BY <1>10 DEF FirstFrame, StartBitrate, LookAtLower, CompareLower, DropLower, HoldLower,
       DecideDownshift, ApplyLower, sceneVars, agentVars, history
  <2> QED
    BY <2>1, <2>2
<1>11. CASE ReopenCodec
  <2>1. step' \in Step /\ codec' \in {None, codec}
    BY <1>11 DEF ReopenCodec, Step
  <2> QED
    BY <1>11, <2>1 DEF ReopenCodec, agentVars, history
<1>12. CASE EncodeFrame
  <2>1. <<frame, target>> \in Profile \X Rate
    BY <1>12 DEF EncodeFrame, ThreadInv, RateType
  <2>2. step' \in Step /\ wasted' \in BOOLEAN /\ codec' \in {codec, <<frame, target>>}
    BY <1>12 DEF EncodeFrame, Step
  <2>3. frame' = None /\ key' = FALSE /\ UNCHANGED <<forced, sampled, stable, replaced>>
    BY <1>12 DEF EncodeFrame, agentVars
  <2> QED
    BY <2>1, <2>2, <2>3
<1> QED
  BY <1>2, <1>3, <1>4, <1>5, <1>6, <1>7, <1>8, <1>9, <1>10, <1>11, <1>12, StepCases, NewTypes
     DEF EncoderThread

\* Ages stay within the bounds up to which the code tells them apart.
LEMMA AgeStep ==
    ASSUME SessionType, AgeType, [Next]_vars
    PROVE  AgeType'
<1> USE Constants DEF AgeType
<1>1. ASSUME UNCHANGED <<lowerAge, keyAge, reportVars, lowFor, badFor, idrFor>> PROVE AgeType'
  BY <1>1 DEF reportVars
<1>2. CASE Outside \/ OnConfigure \/ PictureLoss
  BY <1>1, <1>2 DEF Outside, OnConfigure, PictureLoss, encoder, rateVars, sceneVars, history
<1>3. ASSUME NEW verdict \in {"healthy", "unhealthy"}, SampleVideoStats(verdict) PROVE AgeType'
  <2>1. UNCHANGED <<lowerAge, keyAge, lowFor, idrFor>>
    BY <1>3 DEF SampleVideoStats, encoder, rateVars, sceneVars
  <2>2. unhealthyAge' \in {None} \union (0..DegradationHold)
    BY <1>3 DEF SampleVideoStats
  <2>3. report' = verdict /\ reportAge' = 0 /\ badFor' \in 0..DegradationHold
    BY <1>3 DEF SampleVideoStats
  <2> QED
    BY <2>1, <2>2, <2>3
<1>4. ASSUME NEW e \in Nat, SetTargetBitrate(e) PROVE AgeType'
  BY <1>1, <1>4 DEF SetTargetBitrate, rateVars, sceneVars, history
<1>5. ASSUME UNCHANGED <<keyAge, reportVars, badFor, idrFor>>,
             lowerAge' \in {lowerAge, None, -1, 0}, lowFor' \in {lowFor, 0}
      PROVE  AgeType'
  BY <1>5 DEF reportVars
<1>6. CASE RaiseTarget \/ ForgetLower \/ NoteLower
  BY <1>5, <1>6 DEF RaiseTarget, ForgetLower, NoteLower, sceneVars, history
<1>7. ASSUME NEW content, StartFrame(content) PROVE AgeType'
  BY <1>1, <1>7 DEF StartFrame, rateVars
<1>8. CASE FirstFrame \/ LookAtLower \/ CompareLower \/ DecideDownshift \/ ReopenCodec
  BY <1>1, <1>8 DEF FirstFrame, LookAtLower, CompareLower, DecideDownshift, ReopenCodec,
     rateVars, sceneVars, history
<1>9. CASE StartBitrate \/ DropLower \/ HoldLower \/ ApplyLower
  BY <1>5, <1>9 DEF StartBitrate, DropLower, HoldLower, BeginHold, ApplyLower, sceneVars, history
<1>10. CASE CaptureFrame
  BY <1>10 DEF CaptureFrame, Restarted, reportVars, history
<1>11. CASE EncodeFrame
  <2>1. keyAge' \in {0, keyAge} /\ idrFor' \in {0, idrFor}
    BY <1>11 DEF EncodeFrame, KeyframeNoted
  <2>2. UNCHANGED <<lowerAge, reportVars, lowFor, badFor>>
    BY <1>11 DEF EncodeFrame, rateVars
  <2> QED
    BY <2>1, <2>2 DEF reportVars
<1>12. CASE Tick
  <2>1. ASSUME NEW most \in Nat, NEW age \in {None} \union (-1..most)
        PROVE  Older(age, most) \in {None} \union (-1..most)
    BY <2>1 DEF Older
  <2>2. ASSUME NEW most \in Nat, NEW age \in 0..most
        PROVE  Older(age, most) \in 0..most
    BY <2>2 DEF Older
  <2>3. ASSUME NEW most \in Nat, NEW age \in {None} \union (0..most)
        PROVE  Older(age, most) \in {None} \union (0..most)
    BY <2>3 DEF Older
  <2>4. /\ lowerAge' \in {None} \union (-1..Hold) /\ keyAge' \in {None} \union (-1..Cooldown)
    BY <1>12, <2>1 DEF Tick
  <2>5. /\ reportAge' \in 0..(ReportMaxAge + 1) /\ lowFor' \in 0..Hold
        /\ badFor' \in 0..DegradationHold /\ idrFor' \in 0..Cooldown
    BY <1>12, <2>2 DEF Tick
  <2>6. unhealthyAge' \in {None} \union (0..DegradationHold)
    BY <1>12, <2>3 DEF Tick
  <2> QED
    BY <1>12, <2>4, <2>5, <2>6 DEF Tick
<1> QED
  BY <1>2, <1>3, <1>4, <1>6, <1>7, <1>8, <1>9, <1>10, <1>11, <1>12, StepCases, NewTypes
     DEF EncoderThread

-----------------------------------------------------------------------------
(* The encoder *)

\* What the thread and the setter hold is what their code relies on: a pending bitrate is
\* read by a started encoder's thread only, and the target only rises under it.
LEMMA ThreadStep ==
    ASSUME SessionType, RateType, FrameType, ThreadInv, SetterInv, [Next]_vars
    PROVE  ThreadInv'
<1> USE DEF ThreadInv, Lowering
<1>1. ASSUME UNCHANGED <<frameVars, target, started, lower>> PROVE ThreadInv'
  BY <1>1 DEF frameVars
<1>2. CASE Outside \/ OnConfigure \/ Tick \/ PictureLoss
  BY <1>1, <1>2 DEF Outside, OnConfigure, Tick, PictureLoss, encoder, rateVars
<1>3. CASE NewEncoder
  BY <1>3 DEF NewEncoder
<1>4. ASSUME NEW verdict, SampleVideoStats(verdict) PROVE ThreadInv'
  BY <1>1, <1>4 DEF SampleVideoStats, encoder, rateVars
<1>5. ASSUME NEW e, SetTargetBitrate(e) PROVE ThreadInv'
  BY <1>1, <1>5 DEF SetTargetBitrate, rateVars
<1>6. CASE RaiseTarget
  <2>1. Lowering => wanted < target'
    <3>1. CASE setter.to = "start"
      BY <1>6, <3>1 DEF RaiseTarget, SetterInv
    <3>2. CASE setter.to = "raise" /\ Lowering
      <4>1. target' = setter.rate /\ target <= setter.rate
        BY <1>6, <3>2 DEF RaiseTarget, SetterInv
      <4>2. wanted \in Rate /\ setter.rate \in Rate /\ wanted < target
        BY <1>6, <3>2 DEF RateType, RaiseTarget
      <4> QED
        BY <4>1, <4>2, Constants DEF RateType, Rate
    <3> QED
      BY <1>6, <3>1, <3>2 DEF RaiseTarget
  <2>2. UNCHANGED <<frameVars, started, lower>>
    BY <1>6 DEF RaiseTarget
  <2> QED
    BY <2>1, <2>2 DEF frameVars
<1>7. CASE ForgetLower
  BY <1>7 DEF ForgetLower, frameVars
<1>8. CASE NoteLower
  BY <1>8 DEF NoteLower, frameVars, SetterInv
<1>9. CASE CaptureFrame
  BY <1>9, Constants DEF CaptureFrame, SessionType
<1>10. ASSUME NEW content, StartFrame(content) PROVE ThreadInv'
  BY <1>10 DEF StartFrame, rateVars
<1>11. CASE FirstFrame
  <2>1. PICK p \in Profile : p = frame
    BY <1>11 DEF FirstFrame, FrameType
  <2>2. wanted' \in Int
    <3>1. Initial[p] \in Int /\ target \in Int
      BY ProfileRates, Constants DEF RateType, Rate
    <3> QED
      BY <1>11, <2>1, <3>1 DEF FirstFrame
  <2>3. wanted' # None
    BY <2>2, Constants
  <2> QED
    BY <1>11, <2>3 DEF FirstFrame
<1>12. CASE StartBitrate
  BY <1>12 DEF StartBitrate
<1>13. CASE LookAtLower \/ CompareLower
  BY <1>13 DEF LookAtLower, CompareLower, rateVars
<1>14. CASE DropLower \/ HoldLower \/ DecideDownshift
  BY <1>14 DEF DropLower, HoldLower, BeginHold, DecideDownshift, Downshifts, KeepsTarget, rateVars
<1>15. CASE ApplyLower
  BY <1>15 DEF ApplyLower
<1>16. CASE ReopenCodec \/ EncodeFrame
  BY <1>16 DEF ReopenCodec, EncodeFrame, rateVars
<1> QED
  BY <1>2, <1>3, <1>4, <1>5, <1>6, <1>7, <1>8, <1>9, <1>10, <1>11, <1>12, <1>13, <1>14, <1>15,
     <1>16, StepCases DEF EncoderThread

\* What the setter has read stays true enough, whatever the thread does meanwhile.
LEMMA SetterStep ==
    ASSUME SessionType, RateType, ThreadInv, SetterInv, [Next]_vars
    PROVE  SetterInv'
<1> USE DEF SetterInv, Lowering
<1>1. ASSUME UNCHANGED <<step, setter, target, started, lower>> PROVE SetterInv'
  BY <1>1
<1>2. CASE Outside \/ OnConfigure \/ Tick \/ PictureLoss
  BY <1>1, <1>2 DEF Outside, OnConfigure, Tick, PictureLoss, encoder, rateVars, frameVars
<1>3. ASSUME setter' = None PROVE SetterInv'
  BY <1>3
<1>4. CASE NewEncoder \/ ForgetLower \/ NoteLower
  BY <1>3, <1>4 DEF NewEncoder, ForgetLower, NoteLower
<1>5. ASSUME NEW verdict, SampleVideoStats(verdict) PROVE SetterInv'
  BY <1>1, <1>5 DEF SampleVideoStats, encoder, rateVars, frameVars
<1>6. ASSUME NEW e \in Nat, SetTargetBitrate(e) PROVE SetterInv'
  <2> DEFINE rate == Clamp(e, ceiling)
  <2>1. rate \in Rate /\ target \in Rate
    BY ClampRange DEF RateType
  <2>2. rate \in Int /\ target \in Int
    BY <2>1, Constants DEF Rate
  <2>3. setter' = [rate |-> rate,
                   to |-> CASE ~started -> "start" [] started /\ rate >= target -> "raise"
                            [] OTHER -> "lower"]
    BY <1>6 DEF SetTargetBitrate
  <2>4. UNCHANGED <<step, target, started, lower>>
    BY <1>6 DEF SetTargetBitrate, rateVars, frameVars
  <2> HIDE DEF rate
  <2>5. setter'.rate = rate /\ (setter'.to = "start" => ~started)
    BY <2>3
  <2>6. setter'.to \in {"raise", "lower"} => started
    BY <2>3
  <2>7. setter'.to = "raise" => target <= rate
    BY <2>2, <2>3
  <2> QED
    BY <2>4, <2>5, <2>6, <2>7 DEF ThreadInv
<1>7. CASE RaiseTarget
  BY <1>7 DEF RaiseTarget, RateType
<1>8. CASE CaptureFrame \/ (\E content \in {"still", "motion", "scene"} : StartFrame(content))
           \/ FirstFrame \/ ReopenCodec \/ EncodeFrame
  <2>1. /\ UNCHANGED <<setter, target, started, lower>>
        /\ step' \notin {"compare", "hold", "order", "held", "network", "apply"}
    BY <1>8 DEF CaptureFrame, StartFrame, FirstFrame, ReopenCodec, EncodeFrame, rateVars
  <2> QED
    BY <2>1
<1>9. CASE StartBitrate
  BY <1>9 DEF StartBitrate, ThreadInv
<1>10. CASE LookAtLower \/ CompareLower
  BY <1>10 DEF LookAtLower, CompareLower, rateVars
<1>11. CASE DropLower \/ HoldLower \/ DecideDownshift
  BY <1>11 DEF DropLower, HoldLower, BeginHold, DecideDownshift, Downshifts, KeepsTarget, rateVars
<1>12. CASE ApplyLower
  <2>1. wanted \in Rate /\ target \in Rate /\ wanted < target
    BY <1>12 DEF ApplyLower, ThreadInv, RateType
  <2>2. setter # None => setter.rate \in Rate
    BY DEF RateType
  <2>3. setter # None /\ setter.to = "raise" => target' <= setter.rate
    BY <1>12, <2>1, <2>2, Constants DEF ApplyLower, Rate
  <2>4. UNCHANGED <<setter, started>> /\ lower' = None /\ step' = "reopen"
    BY <1>12 DEF ApplyLower
  <2> QED
    BY <2>3, <2>4
<1> QED
  BY <1>2, <1>4, <1>5, <1>6, <1>7, <1>8, <1>9, <1>10, <1>11, <1>12, StepCases
     DEF EncoderThread

\* The cooldown counts from the last key frame: what opens a codec, answers a request or
\* recovers a scene notes its time, and a new track asks for a key frame.
LEMMA SceneStep ==
    ASSUME SessionType, ThreadInv, SceneInv, [Next]_vars
    PROVE  SceneInv'
<1> USE DEF SceneInv
<1>1. ASSUME UNCHANGED <<key, sceneVars, track, replaced, idrFor, wasted>> PROVE SceneInv'
  BY <1>1 DEF sceneVars
<1>2. CASE Outside
  BY <1>1, <1>2 DEF Outside, encoder, frameVars, history
<1>3. CASE NewEncoder /\ replaced' = FALSE
  BY <1>3 DEF NewEncoder
<1>4. CASE OnConfigure
  BY <1>4 DEF OnConfigure, ApplyVideoProfile, agentVars, frameVars, history
<1>5. ASSUME NEW verdict, SampleVideoStats(verdict) PROVE SceneInv'
  BY <1>1, <1>5 DEF SampleVideoStats, encoder, frameVars, agentVars
<1>6. ASSUME NEW e, SetTargetBitrate(e) PROVE SceneInv'
  BY <1>1, <1>6 DEF SetTargetBitrate, frameVars, agentVars, history
<1>7. CASE RaiseTarget \/ ForgetLower \/ NoteLower
  BY <1>1, <1>7 DEF RaiseTarget, ForgetLower, NoteLower, frameVars, agentVars, history
<1>8. CASE CaptureFrame
  <2>1. CASE replaced
    BY <1>8, <2>1 DEF CaptureFrame, history
  <2>2. CASE ~replaced
    BY <1>8, <2>2 DEF CaptureFrame, history
  <2> QED
    BY <2>1, <2>2
<1>9. ASSUME NEW content, StartFrame(content) PROVE SceneInv'
  <2>1. ~key /\ UNCHANGED <<keyAge, codec, track, replaced, idrFor>>
    BY <1>9 DEF StartFrame, ThreadInv, agentVars
  <2>2. /\ ~key' => ~forced
        /\ ~forced => (wasted' <=> wasted)
        /\ forced /\ replaced => wasted'
        /\ wasted => wasted'
    BY <1>9 DEF StartFrame
  <2> QED
    BY <2>1, <2>2
<1>10. CASE FirstFrame \/ StartBitrate \/ LookAtLower \/ CompareLower \/ DropLower
            \/ HoldLower \/ DecideDownshift \/ ApplyLower
  BY <1>1, <1>10 DEF FirstFrame, StartBitrate, LookAtLower, CompareLower, DropLower, HoldLower,
     DecideDownshift, ApplyLower, agentVars, history
<1>11. CASE ReopenCodec
  BY <1>11 DEF ReopenCodec, agentVars, history
<1>12. CASE EncodeFrame
  <2>1. /\ UNCHANGED <<forced, track, replaced>>
        /\ wasted' <=> wasted /\ (replaced \/ ~(key \/ codec = None))
    BY <1>12 DEF EncodeFrame, agentVars
  <2>2. CASE key \/ codec = None
    <3>1. keyAge' = 0 /\ idrFor' = 0
      BY <1>12, <2>2 DEF EncodeFrame, KeyframeNoted
    <3> QED
      BY <2>1, <3>1
  <2>3. CASE ~key /\ codec # None
    <3>1. UNCHANGED <<codec, keyAge, idrFor>>
      BY <1>12, <2>3 DEF EncodeFrame, KeyframeNoted
    <3> QED
      BY <2>1, <2>3, <3>1
  <2> QED
    BY <2>2, <2>3
<1>13. CASE Tick
  <2>1. /\ UNCHANGED <<key, forced, codec, track, replaced, wasted>>
        /\ keyAge = idrFor => keyAge' = idrFor'
    BY <1>13 DEF Tick, agentVars, frameVars
  <2> QED
    BY <2>1
<1>14. CASE PictureLoss
  BY <1>14 DEF PictureLoss, agentVars, frameVars, history
<1> QED
  BY <1>2, <1>3, <1>4, <1>5, <1>6, <1>7, <1>8, <1>9, <1>10, <1>11, <1>12, <1>13, <1>14,
     StepCases DEF EncoderThread

\* An age that starts later than another one stays behind it.
LEMMA OlderKeepsOrder ==
    ASSUME NEW most \in Nat, NEW a \in -1..most, NEW b \in 0..most, a <= b
    PROVE  Older(a, most) <= Older(b, most)
  BY Constants DEF Older

\* The timers of the downshift and of the network's verdict are no older than what they time.
LEMMA AgesStep ==
    ASSUME SessionType, AgeType, AgesBounded, [Next]_vars
    PROVE  AgesBounded'
<1> USE Constants DEF AgeType, AgesBounded
<1>1. ASSUME UNCHANGED <<lowerAge, reportVars, lowFor, badFor>> PROVE AgesBounded'
  BY <1>1 DEF reportVars
<1>2. CASE Outside \/ OnConfigure \/ PictureLoss
  BY <1>1, <1>2 DEF Outside, OnConfigure, PictureLoss, encoder, rateVars, history
<1>3. CASE NewEncoder
  <2>1. lowerAge' = None /\ unhealthyAge' = None /\ report' = "none" /\ badFor' = DegradationHold
    BY <1>3 DEF NewEncoder
  <2> QED
    BY <2>1
<1>4. ASSUME NEW verdict \in {"healthy", "unhealthy"}, SampleVideoStats(verdict)
      PROVE  AgesBounded'
  <2>1. UNCHANGED <<lowerAge, lowFor>>
    BY <1>4 DEF SampleVideoStats, encoder, rateVars
  <2>2. report' # "none" /\ reportAge' = 0
    BY <1>4 DEF SampleVideoStats
  <2>3. CASE verdict = "healthy"
    BY <1>4, <2>1, <2>2, <2>3 DEF SampleVideoStats
  <2>4. CASE verdict # "healthy"
    <3>1. badFor' = badFor /\ unhealthyAge' \in {0, unhealthyAge}
      BY <1>4, <2>4 DEF SampleVideoStats
    <3> QED
      BY <2>1, <2>2, <3>1
  <2> QED
    BY <2>3, <2>4
<1>5. ASSUME NEW e, SetTargetBitrate(e) PROVE AgesBounded'
  BY <1>1, <1>5 DEF SetTargetBitrate, rateVars, history
<1>6. ASSUME UNCHANGED <<reportVars, badFor>>,
             \/ lowerAge' \in {None, -1, 0} /\ lowFor' \in {lowFor, 0}
             \/ UNCHANGED <<lowerAge, lowFor>>
      PROVE  AgesBounded'
  BY <1>6 DEF reportVars
<1>7. CASE RaiseTarget \/ ForgetLower \/ NoteLower
  BY <1>6, <1>7 DEF RaiseTarget, ForgetLower, NoteLower, history
<1>8. CASE CaptureFrame
  <2>1. lowerAge' \in {lowerAge, None, -1}
    BY <1>8 DEF CaptureFrame, Restarted
  <2>2. UNCHANGED <<reportVars, lowFor, badFor>>
    BY <1>8 DEF CaptureFrame, history
  <2> QED
    BY <1>6, <2>1, <2>2
<1>9. ASSUME NEW content, StartFrame(content) PROVE AgesBounded'
  BY <1>1, <1>9 DEF StartFrame, rateVars
<1>10. CASE FirstFrame \/ LookAtLower \/ CompareLower \/ DecideDownshift \/ ReopenCodec
            \/ EncodeFrame
  BY <1>1, <1>10 DEF FirstFrame, LookAtLower, CompareLower, DecideDownshift, ReopenCodec,
     EncodeFrame, rateVars, history
<1>11. CASE StartBitrate \/ DropLower \/ HoldLower \/ ApplyLower
  BY <1>6, <1>11 DEF StartBitrate, DropLower, HoldLower, BeginHold, ApplyLower, history
<1>12. CASE Tick
  <2>1. lowerAge' # None => lowerAge' <= lowFor'
    <3>1. CASE lowerAge = None
      BY <1>12, <3>1 DEF Tick, Older
    <3>2. CASE lowerAge # None
      BY <1>12, <3>2, OlderKeepsOrder DEF Tick
    <3> QED
      BY <3>1, <3>2
  <2>2. unhealthyAge' # None => unhealthyAge' <= badFor'
    <3>1. CASE unhealthyAge = None
      BY <1>12, <3>1 DEF Tick, Older
    <3>2. CASE unhealthyAge # None
      BY <1>12, <3>2, OlderKeepsOrder DEF Tick
    <3> QED
      BY <3>1, <3>2
  <2>3. report' = report /\ (badFor = DegradationHold => badFor' = DegradationHold)
    BY <1>12 DEF Tick, Older
  <2>4. reportAge <= badFor => reportAge' <= badFor' \/ badFor' = DegradationHold
    <3>1. badFor' = Older(badFor, DegradationHold) /\ reportAge' = Older(reportAge, ReportMaxAge + 1)
      BY <1>12 DEF Tick
    <3>2. badFor # DegradationHold => badFor' = badFor + 1
      BY <3>1 DEF Older
    <3>3. reportAge' = reportAge \/ reportAge' = reportAge + 1
      BY <3>1 DEF Older
    <3> QED
      BY <2>3, <3>2, <3>3
  <2> QED
    BY <2>1, <2>2, <2>3, <2>4
<1> QED
  BY <1>2, <1>3, <1>4, <1>5, <1>7, <1>8, <1>9, <1>10, <1>11, <1>12, StepCases
     DEF EncoderThread

\* The network lets the target fall only after a whole degradation hold without a healthy
\* report: there was none, the last one is too old, or the verdict has lasted that long.
LEMMA NetworkBad ==
    ASSUME AgeType, AgesBounded, NetworkAllowsDownshift
    PROVE  badFor = DegradationHold
  BY Constants DEF AgeType, AgesBounded, NetworkAllowsDownshift

\* The thread passes its look at the hold, and then its look at the network, only after the
\* one and the other have lasted.
LEMMA DecisionStep ==
    ASSUME SessionType, AgeType, AgesBounded, [Next]_vars, step' # step
    PROVE  /\ step' = "network" => lowFor = Hold
           /\ step' = "apply" => step = "network" /\ badFor = DegradationHold
<1>1. CASE Outside \/ OnConfigure \/ Tick \/ PictureLoss \/ RaiseTarget \/ ForgetLower \/ NoteLower
  BY <1>1 DEF Outside, OnConfigure, Tick, PictureLoss, RaiseTarget, ForgetLower,
     NoteLower, encoder, frameVars
<1>2. ASSUME NEW verdict, SampleVideoStats(verdict) PROVE FALSE
  BY <1>2 DEF SampleVideoStats, encoder, frameVars
<1>3. ASSUME NEW e, SetTargetBitrate(e) PROVE FALSE
  BY <1>3 DEF SetTargetBitrate, frameVars
<1>4. CASE NewEncoder
  BY <1>4 DEF NewEncoder
<1>5. CASE EncoderThread
  <2>1. step' \in {"network", "apply"} => Downshifts
    BY <1>5 DEF EncoderThread, CaptureFrame, StartFrame, FirstFrame, StartBitrate, LookAtLower,
       CompareLower, DropLower, HoldLower, BeginHold, DecideDownshift, ApplyLower, ReopenCodec,
       EncodeFrame
  <2>2. Downshifts /\ step' = "network" => lowFor = Hold
    BY Constants DEF Downshifts, AgesBounded, AgeType
  <2>3. Downshifts /\ step' = "apply" => step = "network" /\ badFor = DegradationHold
    BY NetworkBad DEF Downshifts
  <2> QED
    BY <2>1, <2>2, <2>3
<1> QED
  BY <1>1, <1>2, <1>3, <1>4, <1>5, StepCases

\* A started encoder's target falls only by that decision, or by an estimate that came
\* before it had started.
LEMMA FallStep ==
    ASSUME SessionType, RateType, ThreadInv, SetterInv, [Next]_vars,
           started, started', target' < target
    PROVE  \/ step = "apply" /\ target' = wanted
           \/ setter # None /\ setter.to = "start"
<1>1. target \in Int /\ target' # target
  BY Constants DEF RateType, Rate
<1>2. CASE Outside \/ OnConfigure \/ Tick \/ PictureLoss \/ ForgetLower \/ NoteLower
  BY <1>1, <1>2 DEF Outside, OnConfigure, Tick, PictureLoss, ForgetLower, NoteLower, encoder,
     rateVars
<1>3. ASSUME NEW verdict, SampleVideoStats(verdict) PROVE FALSE
  BY <1>1, <1>3 DEF SampleVideoStats, encoder, rateVars
<1>4. ASSUME NEW e, SetTargetBitrate(e) PROVE FALSE
  BY <1>1, <1>4 DEF SetTargetBitrate, rateVars
<1>5. CASE NewEncoder
  BY <1>5 DEF NewEncoder
<1>6. CASE RaiseTarget
  <2>1. setter # None /\ setter.to \in {"start", "raise"} /\ target' = setter.rate
    BY <1>6 DEF RaiseTarget
  <2>2. setter.to = "raise" => target <= setter.rate
    BY <2>1 DEF SetterInv
  <2>3. setter.rate \in Int
    BY <2>1, Constants DEF RateType, Rate
  <2> QED
    BY <1>1, <2>1, <2>2, <2>3
<1>7. CASE EncoderThread
  <2>1. ApplyLower \/ StartBitrate
    BY <1>1, <1>7 DEF EncoderThread, CaptureFrame, StartFrame, FirstFrame, LookAtLower,
       CompareLower, DropLower, HoldLower, DecideDownshift, ReopenCodec, EncodeFrame, rateVars
  <2>2. ~StartBitrate
    BY DEF StartBitrate, ThreadInv
  <2> QED
    BY <2>1, <2>2 DEF ApplyLower
<1> QED
  BY <1>2, <1>3, <1>4, <1>5, <1>6, <1>7, StepCases

-----------------------------------------------------------------------------
(* The profile *)

\* A reply that carries the profile is the last to say it; an answer changes nothing.
LEMMA SaysAppend ==
    ASSUME NEW S, NEW s \in Seq(S), NEW m \in S
    PROVE  /\ Says(m) => LastSays(Append(s, m), m[2])
           /\ ~Says(m) /\ Silent(s) => Silent(Append(s, m))
           /\ \A p : ~Says(m) /\ LastSays(s, p) => LastSays(Append(s, m), p)
<1> DEFINE a == Append(s, m)
           n == Len(s)
<1>1. /\ n \in Nat /\ DOMAIN s = 1..n /\ DOMAIN a = 1..(n + 1) /\ a[n + 1] = m
      /\ \A i \in 1..n : a[i] = s[i]
  OBVIOUS
<1> HIDE DEF a, n
<1>2. ASSUME Says(m) PROVE LastSays(a, m[2])
  BY <1>1, <1>2 DEF LastSays
<1>3. ASSUME ~Says(m), Silent(s) PROVE Silent(a)
  BY <1>1, <1>3 DEF Silent
<1>4. ASSUME NEW p, ~Says(m), LastSays(s, p) PROVE LastSays(a, p)
  <2>1. PICK i \in 1..n : Says(s[i]) /\ s[i][2] = p /\ \A j \in 1..n : j > i => ~Says(s[j])
    BY <1>1, <1>4 DEF LastSays
  <2>2. \A j \in 1..(n + 1) : j > i => ~Says(a[j])
    BY <1>1, <1>4, <2>1
  <2>3. i \in DOMAIN a /\ Says(a[i]) /\ a[i][2] = p
    BY <1>1, <2>1
  <2> QED
    BY <1>1, <2>2, <2>3 DEF LastSays
<1> QED
  BY <1>2, <1>3, <1>4 DEF a

\* The viewer takes the first message: it said the profile last, or another one still does.
LEMMA SaysTail ==
    ASSUME NEW S, NEW s \in Seq(S), s # <<>>
    PROVE  /\ Silent(s) => Silent(Tail(s)) /\ ~Says(Head(s))
           /\ \A p : LastSays(s, p) =>
                \/ LastSays(Tail(s), p)
                \/ Says(Head(s)) /\ Head(s)[2] = p /\ Silent(Tail(s))
<1> DEFINE t == Tail(s)
           n == Len(s)
<1>1. /\ n \in Nat /\ n >= 1 /\ DOMAIN s = 1..n /\ Head(s) = s[1]
      /\ DOMAIN t = 1..(n - 1) /\ \A i \in 1..(n - 1) : t[i] = s[i + 1]
  BY HeadTailProperties
<1> HIDE DEF t, n
<1>2. ASSUME Silent(s) PROVE Silent(t) /\ ~Says(s[1])
  BY <1>1, <1>2 DEF Silent
<1>3. ASSUME NEW p, LastSays(s, p)
      PROVE  LastSays(t, p) \/ (Says(s[1]) /\ s[1][2] = p /\ Silent(t))
  <2>1. PICK i \in 1..n : Says(s[i]) /\ s[i][2] = p /\ \A j \in 1..n : j > i => ~Says(s[j])
    BY <1>1, <1>3 DEF LastSays
  <2>2. CASE i = 1
    BY <1>1, <2>1, <2>2 DEF Silent
  <2>3. CASE i # 1
    <3>1. i - 1 \in DOMAIN t /\ t[i - 1] = s[i]
      BY <1>1, <2>3
    <3>2. \A j \in DOMAIN t : j > i - 1 => ~Says(t[j])
      BY <1>1, <2>1
    <3> QED
      BY <2>1, <3>1, <3>2 DEF LastSays
  <2> QED
    BY <2>2, <2>3
<1> QED
  BY <1>1, <1>2, <1>3 DEF t

\* A request stays under way while messages are added behind it and taken before it.
LEMMA RequestStays ==
    ASSUME NEW S, NEW s \in Seq(S), HasRequest(s)
    PROVE  /\ \A m \in S : HasRequest(Append(s, m))
           /\ s # <<>> /\ Head(s)[1] # "request" => HasRequest(Tail(s))
<1> DEFINE n == Len(s)
<1>1. n \in Nat /\ DOMAIN s = 1..n
  OBVIOUS
<1>2. PICK i \in 1..n : s[i][1] = "request"
  BY <1>1 DEF HasRequest
<1>3. ASSUME NEW m \in S PROVE HasRequest(Append(s, m))
  <2> DEFINE a == Append(s, m)
  <2>1. DOMAIN a = 1..(n + 1) /\ a[i] = s[i]
    OBVIOUS
  <2> HIDE DEF a, n
  <2>2. i \in DOMAIN a /\ a[i][1] = "request"
    BY <1>1, <1>2, <2>1
  <2> QED
    BY <2>2 DEF HasRequest, a
<1>4. ASSUME s # <<>>, Head(s)[1] # "request" PROVE HasRequest(Tail(s))
  <2> DEFINE t == Tail(s)
  <2>1. /\ Head(s) = s[1] /\ DOMAIN t = 1..(n - 1)
        /\ \A k \in 1..(n - 1) : t[k] = s[k + 1]
    BY <1>4, HeadTailProperties
  <2> HIDE DEF t, n
  <2>2. i # 1
    BY <1>2, <1>4, <2>1
  <2>3. i - 1 \in DOMAIN t /\ t[i - 1] = s[i]
    BY <1>1, <1>2, <2>1, <2>2
  <2> QED
    BY <1>2, <2>3 DEF HasRequest, t
<1> QED
  BY <1>3, <1>4

\* What a socket takes along from the end: either what said the profile last, or nothing
\* that matters.
LEMMA SaysPrefix ==
    ASSUME NEW S, NEW s \in Seq(S), NEW n \in 0..Len(s)
    PROVE  /\ Silent(s) => Silent(SubSeq(s, 1, n))
           /\ \A p : LastSays(s, p) =>
                \/ LastSays(SubSeq(s, 1, n), p)
                \/ \E i \in DOMAIN s : i > n /\ Says(s[i])
<1> DEFINE t == SubSeq(s, 1, n)
<1>1. /\ n \in Nat /\ n <= Len(s) /\ Len(s) \in Nat /\ DOMAIN s = 1..Len(s)
      /\ DOMAIN t = 1..n /\ \A i \in 1..n : t[i] = s[i]
  OBVIOUS
<1> HIDE DEF t
<1>2. ASSUME Silent(s) PROVE Silent(t)
  BY <1>1, <1>2 DEF Silent
<1>3. ASSUME NEW p, LastSays(s, p), ~(\E i \in DOMAIN s : i > n /\ Says(s[i]))
      PROVE  LastSays(t, p)
  <2>1. PICK i \in DOMAIN s : Says(s[i]) /\ s[i][2] = p /\ \A j \in DOMAIN s : j > i => ~Says(s[j])
    BY <1>3 DEF LastSays
  <2>2. i \in 1..n /\ t[i] = s[i]
    BY <1>1, <1>3, <2>1
  <2>3. \A j \in 1..n : j > i => ~Says(t[j])
    BY <1>1, <2>1
  <2> QED
    BY <1>1, <2>1, <2>2, <2>3 DEF LastSays
<1> QED
  BY <1>2, <1>3 DEF t

\* A request just sent is under way.
LEMMA RequestSent ==
    ASSUME SessionType, NEW p \in Profile, toAgent' = Append(toAgent, <<"request", p>>)
    PROVE  HasRequest(toAgent')
<1>1. Len(toAgent) + 1 \in DOMAIN toAgent' /\ toAgent'[Len(toAgent) + 1] = <<"request", p>>
  BY DEF SessionType
<1> QED
  BY <1>1 DEF HasRequest

\* The viewer's knowledge of the agent's profile survives every step.
LEMMA ProfileStep ==
    ASSUME SessionType, ProfileKnown, NothingHeard, [Next]_vars
    PROVE  ProfileKnown' /\ NothingHeard'
<1> DEFINE Live == {"connecting", "active", "resumed"}
           Out == Type \X Profile
           In == Heard \X Profile
           \* What the viewer hears from s, or has heard, is the profile.
           Tells(s) == LastSays(s, profile) \/ (Silent(s) /\ (shown = profile \/ unsent))
<1>1. toAgent \in Seq(Out) /\ toViewer \in Seq(In)
  BY DEF SessionType
<1>2. (session \in Live /\ ~Away) \/ (session \notin Live /\ Away)
  BY DEF SessionType, Away
<1>3. session \in Live => lost \/ HasRequest(toAgent) \/ Tells(toViewer)
  BY DEF ProfileKnown
<1>4. ASSUME session' \in Live, session \in Live,
             \/ lost'
             \/ HasRequest(toAgent')
             \/ /\ Tells(toViewer') /\ UNCHANGED profile
                /\ (UNCHANGED <<shown, unsent>>) \/ unsent'
      PROVE  ProfileKnown' /\ NothingHeard'
  BY <1>4 DEF ProfileKnown, NothingHeard, Away
<1>5. ASSUME session' \in {"offline", "resuming"}, toViewer' = <<>>
      PROVE  ProfileKnown' /\ NothingHeard'
  BY <1>5 DEF ProfileKnown, NothingHeard
<1>6. ASSUME UNCHANGED <<session, toAgent, toViewer, lost, profile, shown, unsent>>
      PROVE  ProfileKnown' /\ NothingHeard'
  BY <1>6 DEF ProfileKnown, NothingHeard, Away
<1>7. ASSUME toViewer # <<>> PROVE session \in Live
  BY <1>2, <1>7 DEF NothingHeard
\* A message that does not say the profile changes nothing, at either end of the inbox.
<1>8. ASSUME NEW s \in Seq(In), NEW m \in In, ~Says(m), Tells(s) PROVE Tells(Append(s, m))
  BY <1>8, SaysAppend
<1>9. ASSUME toViewer # <<>>, ~Says(Head(toViewer)), Tells(toViewer) PROVE Tells(Tail(toViewer))
  BY <1>1, <1>9, SaysTail
<1>10. ASSUME NEW p \in Profile, NEW type \in {"answer", "online", "offline"}
       PROVE  <<type, p>> \in In /\ ~Says(<<type, p>>)
  BY <1>10 DEF Heard, Says
<1>11. ASSUME NEW p \in Profile, NEW type \in Type, NEW s \in Seq(In), Send(type, p, s)
       PROVE  /\ HasRequest(toAgent) => HasRequest(toAgent')
              /\ Tells(s) => Tells(toViewer')
  <2>1. CASE agentUp
    <3>1. toAgent' = Append(toAgent, <<type, p>>) /\ toViewer' = s
      BY <1>11, <2>1 DEF Send
    <3>2. <<type, p>> \in Out
      OBVIOUS
    <3> QED
      BY <1>1, <3>1, <3>2, RequestStays
  <2>2. CASE ~agentUp
    <3>1. toViewer' = Append(s, <<"offline", p>>) /\ toAgent' = toAgent
      BY <1>11, <2>2 DEF Send
    <3> QED
      BY <1>8, <1>10, <3>1
  <2> QED
    BY <2>1, <2>2
\* What the viewer sends
<1>12. CASE Connect \/ AutoReconnect \/ Resume
  <2>1. PICK p \in Profile : toAgent' = Append(toAgent, <<"request", p>>)
    BY <1>12 DEF Connect, AutoReconnect, Resume, SessionType
  <2>2. HasRequest(toAgent')
    BY <2>1, RequestSent
  <2>3. session' \in Live
    BY <1>12 DEF Connect, AutoReconnect, Resume
  <2> QED
    BY <2>2, <2>3 DEF ProfileKnown, NothingHeard, Away
<1>13. ASSUME NEW p \in Profile, ChangeVideoProfile(p) PROVE ProfileKnown' /\ NothingHeard'
  <2>1. UNCHANGED <<session, profile, lost>>
    BY <1>13 DEF ChangeVideoProfile, agentVars, agentSide
  <2>2. CASE session \in {"active", "resumed"}
    <3>1. Send("configure", p, toViewer) /\ UNCHANGED <<shown, unsent>>
      BY <1>13, <2>2 DEF ChangeVideoProfile
    <3>2. /\ HasRequest(toAgent) => HasRequest(toAgent')
          /\ Tells(toViewer) => Tells(toViewer')
      BY <1>1, <1>11, <3>1 DEF Type
    <3> QED
      BY <1>3, <1>4, <2>1, <2>2, <3>1, <3>2
  <2>3. CASE session = "connecting"
    <3>1. UNCHANGED <<toAgent, toViewer>> /\ unsent'
      BY <1>13, <2>3 DEF ChangeVideoProfile
    <3> QED
      BY <1>3, <1>4, <2>1, <2>3, <3>1
  <2>4. CASE session \notin Live
    <3>1. UNCHANGED toViewer
      BY <1>13, <2>4 DEF ChangeVideoProfile
    <3> QED
      BY <1>2, <2>1, <2>4, <3>1 DEF ProfileKnown, NothingHeard, Away
  <2> QED
    BY <2>2, <2>3, <2>4
<1>14. CASE ProfileTimeout \/ StabilizeTimeout
  BY <1>6, <1>14 DEF ProfileTimeout, StabilizeTimeout, agentVars, signaling, agentSide
<1>15. CASE SignalingDrops \/ Teardown
  BY <1>5, <1>15 DEF SignalingDrops, Teardown, TearsDown
<1>16. ASSUME NEW verdict, SampleVideoStats(verdict) PROVE ProfileKnown' /\ NothingHeard'
  BY <1>6, <1>16 DEF SampleVideoStats, agentVars, signaling, agentSide
\* What the viewer hears
<1>17. CASE OnAccept \/ OnConfigured
  <2>1. /\ toViewer # <<>> /\ Says(Head(toViewer)) /\ shown' = Head(toViewer)[2]
        /\ UNCHANGED <<profile, lost>>
    BY <1>17 DEF OnAccept, OnConfigured, Hears, Says, agentVars, agentSide
  <2>2. session \in Live /\ session' \in Live
    BY <1>7, <1>17, <2>1 DEF OnAccept, OnConfigured
  <2> DEFINE Now(s) == LastSays(s, profile) \/ (Silent(s) /\ shown' = profile)
  <2>3. Tells(toViewer) => Now(Tail(toViewer))
    BY <1>1, <2>1, SaysTail
  <2>4. /\ HasRequest(toAgent) => HasRequest(toAgent')
        /\ Now(Tail(toViewer)) => Now(toViewer')
    <3>1. CASE UNCHANGED toAgent /\ toViewer' = Tail(toViewer)
      BY <3>1
    <3>2. CASE Send("offer", captured, Tail(toViewer))
      <4>1. CASE agentUp
        <5>1. toAgent' = Append(toAgent, <<"offer", captured>>) /\ toViewer' = Tail(toViewer)
          BY <3>2, <4>1 DEF Send
        <5>2. <<"offer", captured>> \in Out
          BY DEF Type, SessionType
        <5> QED
          BY <1>1, <5>1, <5>2, RequestStays
      <4>2. CASE ~agentUp
        <5>1. toViewer' = Append(Tail(toViewer), <<"offline", captured>>) /\ toAgent' = toAgent
          BY <3>2, <4>2 DEF Send
        <5>2. Tail(toViewer) \in Seq(In) /\ captured \in Profile
          BY <1>1, <2>1, HeadTailProperties DEF SessionType
        <5> QED
          BY <1>10, <5>1, <5>2, SaysAppend
      <4> QED
        BY <4>1, <4>2
    <3> QED
      BY <1>17, <3>1, <3>2 DEF OnAccept, OnConfigured
  <2> QED
    BY <1>3, <2>1, <2>2, <2>3, <2>4 DEF ProfileKnown, NothingHeard, Away, Now
<1>18. CASE OnAnswer
  <2>1. /\ toViewer # <<>> /\ ~Says(Head(toViewer)) /\ toViewer' = Tail(toViewer)
        /\ session' = "active" /\ UNCHANGED <<toAgent, shown, unsent, profile, lost>>
    BY <1>18 DEF OnAnswer, Hears, Says, agentVars, agentSide
  <2> QED
    BY <1>3, <1>4, <1>7, <1>9, <2>1
<1>19. CASE OnPeerOffline \/ OnAgentOnline
  <2>1. /\ toViewer # <<>> /\ ~Says(Head(toViewer))
        /\ UNCHANGED <<shown, unsent, profile, lost>>
    BY <1>19 DEF OnPeerOffline, OnAgentOnline, Hears, Says, agentVars, agentSide
  <2>2. CASE TearsDown(TRUE)
    BY <1>5, <2>2 DEF TearsDown
  <2>3. CASE toViewer' = Tail(toViewer) /\ UNCHANGED <<session, toAgent>>
    BY <1>3, <1>4, <1>7, <1>9, <2>1, <2>3
  <2> QED
    BY <1>19, <2>2, <2>3 DEF OnPeerOffline, OnAgentOnline
\* What the agent answers
<1>20. ASSUME NEW type, Received(type), type # "request"
       PROVE  HasRequest(toAgent) => HasRequest(toAgent')
  BY <1>1, <1>20, RequestStays DEF Received
<1>21. ASSUME NEW type \in {"accept", "configured"}, NEW p \in Profile, Reply(<<type, p>>),
              profile' = p, UNCHANGED session
       PROVE  ProfileKnown' /\ NothingHeard'
  <2>1. CASE Away
    BY <1>21, <2>1 DEF Away, Reply, ProfileKnown, NothingHeard
  <2>2. CASE ~Away
    <3> DEFINE m == <<type, p>>
    <3>1. toViewer' = Append(toViewer, m)
      BY <1>21, <2>2 DEF Reply
    <3>2. m \in In /\ Says(m) /\ m[2] = p
      BY <1>21 DEF Says, Heard
    <3> HIDE DEF m
    <3>3. LastSays(toViewer', p)
      BY <1>1, <3>1, <3>2, SaysAppend
    <3> QED
      BY <1>21, <2>2, <3>3 DEF ProfileKnown, NothingHeard, Away
  <2> QED
    BY <2>1, <2>2
<1>22. ASSUME NEW type \in {"answer", "online"}, Reply(<<type, profile>>),
              HasRequest(toAgent) => HasRequest(toAgent'),
              UNCHANGED <<session, shown, unsent, profile, lost>>
       PROVE  ProfileKnown' /\ NothingHeard'
  <2>1. CASE Away
    BY <1>22, <2>1 DEF Away, Reply, ProfileKnown, NothingHeard
  <2>2. CASE ~Away
    <3>1. toViewer' = Append(toViewer, <<type, profile>>) /\ session \in Live
      BY <1>2, <1>22, <2>2 DEF Reply
    <3>2. profile \in Profile
      BY DEF SessionType
    <3>3. Tells(toViewer) => Tells(toViewer')
      BY <1>1, <1>8, <1>10, <3>1, <3>2
    <3> QED
      BY <1>3, <1>4, <1>22, <3>1, <3>3
  <2> QED
    BY <2>1, <2>2
<1>23. CASE OnRequest
  <2>1. PICK p \in Profile : p = Head(toAgent)[2]
    BY <1>1, <1>23, HeadTailProperties DEF OnRequest, Received
  <2>2. Reply(<<"accept", p>>) /\ profile' = p /\ UNCHANGED session
    BY <1>23, <2>1 DEF OnRequest, SaysProfile, viewerVars
  <2> QED
    BY <1>21, <2>2
<1>24. CASE OnOffer
  <2>1. /\ Received("offer") /\ Reply(<<"answer", profile>>)
        /\ UNCHANGED <<session, shown, unsent, profile, lost>>
    BY <1>24 DEF OnOffer, viewerVars, agentSide
  <2> QED
    BY <1>20, <1>22, <2>1
<1>25. CASE OnClose
  <2>1. Received("close") /\ UNCHANGED <<session, toViewer, shown, unsent, profile, lost>>
    BY <1>25 DEF OnClose, viewerVars, agentSide
  <2>2. HasRequest(toAgent) => HasRequest(toAgent')
    BY <1>20, <2>1
  <2> QED
    BY <2>1, <2>2 DEF ProfileKnown, NothingHeard, Away
<1>26. CASE OnConfigure
  <2>1. PICK p \in Profile : p = Head(toAgent)[2]
    BY <1>1, <1>26, HeadTailProperties DEF OnConfigure, Received
  <2>2. Reply(<<"configured", p>>) /\ profile' = p /\ UNCHANGED session
    BY <1>26, <2>1 DEF OnConfigure, ApplyVideoProfile, SaysProfile, viewerVars, agentVars
  <2> QED
    BY <1>21, <2>2
<1>27. CASE AgentClosesPeer
  BY <1>6, <1>27 DEF AgentClosesPeer, signaling, agentSide
\* What goes with the agent's socket
<1>28. ASSUME NEW passed \in 0..Len(toViewer), SocketCloses(passed),
              UNCHANGED <<session, shown, unsent, profile>>
       PROVE  ProfileKnown' /\ NothingHeard'
  <2> DEFINE t == SubSeq(toViewer, 1, passed)
  <2>1. CASE Away
    <3>1. toViewer = <<>>
      BY <2>1 DEF NothingHeard
    <3>2. toViewer' = <<>>
      BY <1>28, <2>1, <3>1 DEF SocketCloses
    <3> QED
      BY <1>28, <2>1, <3>2 DEF ProfileKnown, NothingHeard, Away
  <2>2. CASE session \in Live
    <3>1. HasRequest(toAgent) => lost'
      BY <1>28 DEF SocketCloses, HasRequest
    <3>2. Tells(toViewer) => lost' \/ Tells(t)
      BY <1>1, <1>28, SaysPrefix DEF SocketCloses
    <3>3. t \in Seq(In)
      BY <1>1, SubSeqProperties
    <3> HIDE DEF t
    <3>4. Tells(t) => Tells(toViewer')
      <4>1. CASE toViewer' = t
        BY <4>1
      <4>2. CASE toAgent # <<>> /\ toViewer' = Append(t, <<"offline", Head(toAgent)[2]>>)
        <5>1. Head(toAgent)[2] \in Profile
          BY <1>1, <4>2, HeadTailProperties
        <5> QED
          BY <1>8, <1>10, <3>3, <4>2, <5>1
      <4> QED
        BY <1>28, <4>1, <4>2 DEF SocketCloses, t
    <3>5. lost => lost'
      BY <1>28 DEF SocketCloses
    <3> QED
      BY <1>3, <1>4, <1>28, <2>2, <3>1, <3>2, <3>4, <3>5
  <2> QED
    BY <1>2, <2>1, <2>2
<1>29. CASE AgentDrops
  BY <1>28, <1>29 DEF AgentDrops, RunEnds
<1>30. CASE AgentRefuses
  <2>1. Len(toViewer) \in 0..Len(toViewer)
    BY <1>1
  <2> QED
    BY <1>28, <1>30, <2>1 DEF AgentRefuses, RunEnds, viewerVars
<1>31. CASE AgentReturns
  BY <1>22, <1>31 DEF AgentReturns, viewerVars, agentVars
<1>32. CASE EncoderStep
  BY <1>6, <1>32, EncoderFrame DEF viewerVars, signaling, agentSide
<1>33. CASE UNCHANGED vars
  BY <1>6, <1>33 DEF vars, viewerVars, agentVars, signaling, agentSide
<1> QED
  BY <1>12, <1>13, <1>14, <1>15, <1>16, <1>17, <1>18, <1>19, <1>23, <1>24, <1>25, <1>26, <1>27,
     <1>29, <1>30, <1>31, <1>32, <1>33 DEF Next, Viewer, Agent, EncoderStep

-----------------------------------------------------------------------------
(* The theorems of VideoStream *)

\* Before the first connection nothing has been said, measured or encoded.
LEMMA InitInv == Init => IInv
<1> SUFFICES ASSUME Init PROVE IInv
  OBVIOUS
<1>1. SessionType
  <2>1. toAgent \in Seq(Type \X Profile) /\ toViewer \in Seq(Heard \X Profile)
    BY EmptySeq DEF Init
  <2>2. /\ pending \in BOOLEAN /\ unsent \in BOOLEAN
        /\ agentUp \in BOOLEAN /\ known \in BOOLEAN /\ lost \in BOOLEAN
    BY Zenon DEF Init
  <2>3. scope \in Scopes /\ changes \in 0..scope.changes /\ drops \in 0..scope.drops
    BY Constants DEF Init
  <2>4. {shown, captured, profile} \subseteq Profile
    BY Constants DEF Init
  <2>5. stabilizing \in {None} /\ track \in {None} /\ session = "offline"
    BY DEF Init
  <2> QED
    BY <2>1, <2>2, <2>3, <2>4, <2>5 DEF SessionType
<1>2. RateType
  <2>1. target \in Rate /\ ceiling \in Rate
    BY Constants DEF Init, Rate
  <2>2. started = FALSE /\ lower = None /\ wanted = None /\ setter = None
    BY Zenon DEF Init
  <2> QED
    BY <2>1, <2>2 DEF RateType
<1>3. FrameType
  <2>1. forced = FALSE /\ sampled = FALSE /\ key = FALSE /\ replaced = FALSE /\ wasted = FALSE
    BY Zenon DEF Init
  <2>2. step = "idle" /\ frame = None /\ codec = None /\ stable = 0
    BY DEF Init
  <2>3. step \in Step /\ stable \in 0..StableFrames
    BY <2>2, Constants DEF Step
  <2> QED
    BY <2>1, <2>2, <2>3 DEF FrameType
<1>4. AgeType
  BY Constants DEF AgeType, Init
<1>5. AgesBounded /\ SetterInv /\ SceneInv
  <2>1. setter = None /\ codec = None /\ replaced = FALSE
    BY Zenon DEF Init
  <2>2. AgesBounded
    BY Constants DEF AgesBounded, Init
  <2> QED
    BY <2>1, <2>2 DEF SetterInv, SceneInv
<1>6. ThreadInv
  <2>1. step = "idle" /\ lower = None
    BY DEF Init
  <2>2. key = FALSE
    BY Zenon DEF Init
  <2> QED
    BY <2>1, <2>2 DEF ThreadInv, Lowering
<1>7. ProfileKnown /\ NothingHeard
  BY DEF ProfileKnown, NothingHeard, Init
<1> QED
  BY <1>1, <1>2, <1>3, <1>4, <1>5, <1>6, <1>7, TypeParts DEF IInv

\* The invariant is inductive.
LEMMA StepInv == IInv /\ [Next]_vars => IInv'
<1> SUFFICES ASSUME IInv, [Next]_vars PROVE IInv'
  OBVIOUS
<1>1. SessionType /\ RateType /\ FrameType /\ AgeType
  BY TypeParts DEF IInv
<1>2. SessionType' /\ RateType' /\ FrameType' /\ AgeType'
  BY <1>1, SessionStep, RateStep, FrameStep, AgeStep DEF IInv
<1>3. TypeOK'
  BY <1>2 DEF TypeOK, SessionType, RateType, FrameType, AgeType
<1>4. AgesBounded' /\ ThreadInv' /\ SetterInv' /\ SceneInv'
  BY <1>1, AgesStep, ThreadStep, SetterStep, SceneStep DEF IInv
<1>5. ProfileKnown' /\ NothingHeard'
  BY <1>1, ProfileStep DEF IInv
<1> QED
  BY <1>3, <1>4, <1>5 DEF IInv

\* The inductive invariant holds in every behaviour: of the session, of the encoder's thread
\* and the calls that cross it, and of what the viewer will hear of the profile.
THEOREM InvariantCorrect == Spec => []IInv
  BY InitInv, StepInv, PTL DEF Spec

\* StreamInv: the encoder's bitrates stay within its limits, and the cooldown of scene key
\* frames counts from the last key frame that went out (h264_encoder.py).
THEOREM StreamCorrect == Spec => []StreamInv
<1>1. IInv => StreamInv
  BY DEF IInv, StreamInv, SceneInv, ThreadInv, SceneRecoveryArmed
<1> QED
  BY <1>1, InvariantCorrect, PTL

\* AgentAndViewerAgree: with nothing under way the viewer shows the agent's profile, a choice
\* of its own that could not be sent, or what the agent's socket has left it with
\* (useRemoteSession.ts, __main__.py).
THEOREM AgreeCorrect == Spec => []AgentAndViewerAgree
<1>1. IInv => AgentAndViewerAgree
  BY DEF IInv, ProfileKnown, AgentAndViewerAgree, Quiet, HasRequest, LastSays
<1> QED
  BY <1>1, InvariantCorrect, PTL

\* DownshiftIsSustained: the encoder's thread lowers the target only after it has found both
\* holds over, however the setter's writes fall between its reads, and nothing else lowers
\* it once started (set target_bitrate, _apply_pending_lower_bitrate()).
THEOREM DownshiftCorrect == Spec => DownshiftIsSustained
<1>1. IInv /\ [Next]_vars =>
        [/\ step # "network" /\ step' = "network" => lowFor = Hold
         /\ step # "apply" /\ step' = "apply" => step = "network" /\ badFor = DegradationHold
         /\ started /\ started' /\ target' < target =>
              \/ step = "apply" /\ target' = wanted
              \/ setter # None /\ setter.to = "start"]_vars
  BY TypeParts, DecisionStep, FallStep DEF IInv
<1> QED
  BY <1>1, InvariantCorrect, PTL DEF Spec, DownshiftIsSustained

-----------------------------------------------------------------------------
(* ScreenCapture: the inductive invariant *)

\* A job has a camera in its hands exactly while it reads a frame or recovers.
LocalHeld ==
    \A t \in Track : local[t] # NoCamera <=> job[t] \in {"latest", "stop", "release"}

\* The camera a job reads from is still its track's, or stop() is releasing it, or it is
\* released: no other camera can be broken behind everyone's back.
LatestIsKnown ==
    \A t \in Track :
        job[t] = "latest" => local[t] \in {camera[t], taken} \/ state[local[t]] = "released"

\* _ensure_camera() holds the lock from create() to the end of start().
StartingLocked ==
    \A t \in Track : job[t] = "starting" => lock[t] /\ camera[t] # NoCamera

\* stop() works on the newest track, which is stopped, and has taken its camera from it.
LoopOK ==
    /\ loop # "idle" => current \in Track /\ stopped[current]
    /\ taken # NoCamera <=> loop \in {"stop", "release"}
    /\ loop \in {"stop", "release"} => camera[current] = NoCamera

CamInv == CameraInv /\ LocalHeld /\ LatestIsKnown /\ StartingLocked /\ LoopOK

\* A camera that create() returns is one of dxcam's.
LEMMA CreatedIsCamera ==
    ASSUME CameraTypeOK
    PROVE  \A c \in Created : c \in Camera
  BY DEF CameraTypeOK, Created

\* Types are kept.
LEMMA CamTypeStep ==
    ASSUME CamInv, [CameraNext]_screenVars
    PROVE  CameraTypeOK' /\ LocalHeld' /\ StartingLocked'
<1> USE CaptureAssumption DEF CamInv, CameraInv, CameraTypeOK, LocalHeld, StartingLocked,
            cameraVars, trackVars, loopVars
<1>1. CASE NewTrack
  BY <1>1 DEF NewTrack
<1>2. CASE Stop
  BY <1>2 DEF Stop, LoopOK
<1>3. CASE StopTakes
  BY <1>3 DEF StopTakes, LoopOK
<1>4. CASE StopStops
  BY <1>4 DEF StopStops, Stopped, LoopOK
<1>5. CASE StopReleases
  BY <1>5 DEF StopReleases, Released, LoopOK
<1>6. ASSUME NEW t \in Track,
             Submit(t) \/ Begin(t) \/ OnError(t) \/ BackoffEnds(t)
      PROVE  CameraTypeOK' /\ LocalHeld' /\ StartingLocked'
  <2>1. CASE Submit(t)
    BY <2>1 DEF Submit, Goto
  <2>2. CASE Begin(t)
    BY <2>2 DEF Begin, Goto
  <2>3. CASE OnError(t)
    BY <2>3 DEF OnError, Goto
  <2>4. CASE BackoffEnds(t)
    BY <2>4 DEF BackoffEnds
  <2> QED
    BY <1>6, <2>1, <2>2, <2>3, <2>4
<1>7. ASSUME NEW t \in Track, EnsureCamera(t)
      PROVE  CameraTypeOK' /\ LocalHeld' /\ StartingLocked'
  <2>1. CASE stopped[t]
    BY <1>7, <2>1 DEF EnsureCamera, Goto
  <2>2. CASE ~stopped[t] /\ UNCHANGED <<camera, lock, state, registered>>
    BY <1>7, <2>2 DEF EnsureCamera, Goto, Fault
  <2>3. ASSUME NEW c \in Created, camera' = [camera EXCEPT ![t] = c], registered' = c,
               state' = [state EXCEPT ![c] = IF registered = c THEN @ ELSE "created"],
               lock' = [lock EXCEPT ![t] = TRUE], job' = [job EXCEPT ![t] = "starting"],
               UNCHANGED faults
        PROVE  CameraTypeOK' /\ LocalHeld' /\ StartingLocked'
    <3>1. c \in Camera
      BY CreatedIsCamera
    <3> QED
      BY <1>7, <2>3, <3>1 DEF EnsureCamera
  <2> QED
    BY <1>7, <2>1, <2>2, <2>3 DEF EnsureCamera, Goto
<1>8. ASSUME NEW t \in Track, StartCamera(t)
      PROVE  CameraTypeOK' /\ LocalHeld' /\ StartingLocked'
  BY <1>8 DEF StartCamera, Goto, Fault
<1>9. ASSUME NEW t \in Track, ReadCamera(t)
      PROVE  CameraTypeOK' /\ LocalHeld' /\ StartingLocked'
  BY <1>9 DEF ReadCamera, Goto
<1>10. ASSUME NEW t \in Track, LatestFrame(t)
       PROVE  CameraTypeOK' /\ LocalHeld' /\ StartingLocked'
  BY <1>10 DEF LatestFrame, Goto, Fault
<1>11. ASSUME NEW t \in Track, RecoverTakes(t)
       PROVE  CameraTypeOK' /\ LocalHeld' /\ StartingLocked'
  <2>1. CASE camera[t] = NoCamera
    <3>1. /\ job[t] = "take" /\ job' = [job EXCEPT ![t] = "idle"]
          /\ local' = [local EXCEPT ![t] = NoCamera] /\ backoff' = [backoff EXCEPT ![t] = TRUE]
          /\ camera' = [camera EXCEPT ![t] = NoCamera]
          /\ UNCHANGED <<cameraVars, trackVars, lock, loopVars>>
      BY <1>11, <2>1 DEF RecoverTakes, Goto
    <3>2. CameraTypeOK'
      BY <3>1
    <3>3. LocalHeld' /\ StartingLocked'
      BY <3>1
    <3> QED
      BY <3>2, <3>3
  <2>2. CASE camera[t] # NoCamera
    BY <1>11, <2>2 DEF RecoverTakes, Goto
  <2> QED
    BY <2>1, <2>2
<1>12. ASSUME NEW t \in Track, RecoverStops(t)
       PROVE  CameraTypeOK' /\ LocalHeld' /\ StartingLocked'
  BY <1>12 DEF RecoverStops, Stopped, Goto
<1>13. ASSUME NEW t \in Track, RecoverReleases(t)
       PROVE  CameraTypeOK' /\ LocalHeld' /\ StartingLocked'
  BY <1>13 DEF RecoverReleases, Released, Goto
<1>14. CASE UNCHANGED screenVars
  BY <1>14 DEF screenVars
<1> QED
  BY <1>1, <1>2, <1>3, <1>4, <1>5, <1>6, <1>7, <1>8, <1>9, <1>10, <1>11, <1>12, <1>13, <1>14
     DEF CameraNext, Loop, Job

\* stop() has a stopped track's camera out of its hands, and no job puts one back.
LEMMA StoppedStep ==
    ASSUME CamInv, [CameraNext]_screenVars
    PROVE  StoppedHasNoCamera' /\ LoopOK'
<1> USE CaptureAssumption DEF CamInv, CameraInv, CameraTypeOK, LoopOK,
        StoppedHasNoCamera,
            cameraVars, trackVars, loopVars
<1>1. CASE NewTrack
  BY <1>1 DEF NewTrack
<1>2. CASE Stop
  BY <1>2 DEF Stop, Track
<1>3. CASE StopTakes
  BY <1>3 DEF StopTakes
<1>4. CASE StopStops
  BY <1>4 DEF StopStops
<1>5. CASE StopReleases
  BY <1>5 DEF StopReleases
<1>6. ASSUME NEW t \in Track, EnsureCamera(t)
      PROVE  StoppedHasNoCamera' /\ LoopOK'
  BY <1>6 DEF EnsureCamera
<1>7. ASSUME NEW t \in Track, RecoverTakes(t)
      PROVE  StoppedHasNoCamera' /\ LoopOK'
  BY <1>7 DEF RecoverTakes
<1>8. ASSUME NEW t \in Track, Job(t) \/ BackoffEnds(t), UNCHANGED camera
      PROVE  StoppedHasNoCamera' /\ LoopOK'
  <2>1. UNCHANGED <<current, stopped, loop, taken>>
    BY <1>8 DEF Job, BackoffEnds, Submit, Begin, EnsureCamera,
       StartCamera,
       ReadCamera, LatestFrame, OnError, RecoverTakes, RecoverStops,
       RecoverReleases
  <2> QED
    BY <1>8, <2>1
<1>9. ASSUME NEW t \in Track, Job(t) \/ BackoffEnds(t)
      PROVE  EnsureCamera(t) \/ RecoverTakes(t) \/ UNCHANGED camera
  BY <1>9 DEF Job, BackoffEnds, Submit, Begin, StartCamera,
     ReadCamera, LatestFrame, OnError, RecoverStops, RecoverReleases
<1>10. CASE UNCHANGED screenVars
  BY <1>10 DEF screenVars
<1> QED
  BY <1>1, <1>2, <1>3, <1>4, <1>5, <1>6, <1>7, <1>8, <1>9, <1>10 DEF CameraNext, Loop

\* A job reads from a camera that somebody still owns, or from a released one.
LEMMA LatestStep ==
    ASSUME CamInv, [CameraNext]_screenVars
    PROVE  LatestIsKnown'
<1> USE CaptureAssumption DEF CamInv, CameraInv, CameraTypeOK, LatestIsKnown,
            cameraVars, trackVars, loopVars
<1>1. CASE NewTrack \/ Stop
  BY <1>1 DEF NewTrack, Stop
<1>2. CASE StopTakes
  BY <1>2 DEF StopTakes, LoopOK
<1>3. CASE StopStops
  BY <1>3 DEF StopStops, Stopped, LoopOK
<1>4. CASE StopReleases
  BY <1>4 DEF StopReleases, Released, LoopOK
<1>5. ASSUME NEW t \in Track,
             Submit(t) \/ Begin(t) \/ OnError(t) \/ BackoffEnds(t)
      PROVE  LatestIsKnown'
  BY <1>5 DEF Submit, Begin, OnError, BackoffEnds, Goto
<1>6. ASSUME NEW t \in Track, EnsureCamera(t) PROVE LatestIsKnown'
  <2>1. \A u \in Track : /\ job'[u] = "latest" => u # t /\ job[u] = "latest"
                         /\ u # t => camera'[u] = camera[u]
    BY <1>6 DEF EnsureCamera, Goto
  <2>2. UNCHANGED <<local, taken>>
    BY <1>6 DEF EnsureCamera
  <2>3. ASSUME NEW u \in Track, job[u] = "latest", state[local[u]] = "released"
        PROVE  state'[local[u]] = "released"
    BY <1>6, <2>3 DEF EnsureCamera, Created, Referenced
  <2> QED
    BY <2>1, <2>2, <2>3
<1>7. ASSUME NEW t \in Track, StartCamera(t) PROVE LatestIsKnown'
  BY <1>7 DEF StartCamera, Goto, StartingLocked
<1>8. ASSUME NEW t \in Track, ReadCamera(t) PROVE LatestIsKnown'
  BY <1>8 DEF ReadCamera, Goto
<1>9. ASSUME NEW t \in Track, LatestFrame(t) PROVE LatestIsKnown'
  BY <1>9 DEF LatestFrame, Goto
<1>10. ASSUME NEW t \in Track, RecoverTakes(t) PROVE LatestIsKnown'
  BY <1>10 DEF RecoverTakes, Goto
<1>11. ASSUME NEW t \in Track, RecoverStops(t) PROVE LatestIsKnown'
  BY <1>11 DEF RecoverStops, Stopped, Goto
<1>12. ASSUME NEW t \in Track, RecoverReleases(t) PROVE LatestIsKnown'
  BY <1>12 DEF RecoverReleases, Released, Goto
<1>13. CASE UNCHANGED screenVars
  BY <1>13 DEF screenVars
<1> QED
  BY <1>1, <1>2, <1>3, <1>4, <1>5, <1>6, <1>7, <1>8, <1>9, <1>10, <1>11, <1>12, <1>13
     DEF CameraNext, Loop, Job

\* No step loses the last reference to a camera that is started or stuck.
LEMMA LeakStep ==
    ASSUME CamInv, [CameraNext]_screenVars
    PROVE  NoCameraLeaks'
<1> USE CaptureAssumption DEF CamInv, CameraInv, CameraTypeOK, NoCameraLeaks,
            Referenced, cameraVars, trackVars, loopVars
<1>1. CASE NewTrack \/ Stop
  BY <1>1 DEF NewTrack, Stop
<1>2. CASE StopTakes
  BY <1>2 DEF StopTakes, LoopOK
<1>3. CASE StopStops
  BY <1>3 DEF StopStops, Stopped, LoopOK
<1>4. CASE StopReleases
  BY <1>4 DEF StopReleases, Released, LoopOK
<1>5. ASSUME NEW t \in Track,
             Submit(t) \/ Begin(t) \/ OnError(t) \/ BackoffEnds(t)
      PROVE  NoCameraLeaks'
  BY <1>5 DEF Submit, Begin, OnError, BackoffEnds
<1>6. ASSUME NEW t \in Track, EnsureCamera(t) PROVE NoCameraLeaks'
  BY <1>6 DEF EnsureCamera
<1>7. ASSUME NEW t \in Track, StartCamera(t) PROVE NoCameraLeaks'
  BY <1>7 DEF StartCamera, StartingLocked
<1>8. ASSUME NEW t \in Track, ReadCamera(t) PROVE NoCameraLeaks'
  BY <1>8 DEF ReadCamera, LocalHeld
<1>9. ASSUME NEW t \in Track, LatestFrame(t) PROVE NoCameraLeaks'
  BY <1>9 DEF LatestFrame, LatestIsKnown
<1>10. ASSUME NEW t \in Track, RecoverTakes(t) PROVE NoCameraLeaks'
  BY <1>10 DEF RecoverTakes, LocalHeld
<1>11. ASSUME NEW t \in Track, RecoverStops(t) PROVE NoCameraLeaks'
  BY <1>11 DEF RecoverStops, Stopped
<1>12. ASSUME NEW t \in Track, RecoverReleases(t) PROVE NoCameraLeaks'
  BY <1>12 DEF RecoverReleases, Released
<1>13. CASE UNCHANGED screenVars
  BY <1>13 DEF screenVars
<1> QED
  BY <1>1, <1>2, <1>3, <1>4, <1>5, <1>6, <1>7, <1>8, <1>9, <1>10, <1>11, <1>12, <1>13
     DEF CameraNext, Loop, Job

\* Before the first track there is no camera, and the invariant is inductive.
LEMMA CamInductive ==
    /\ CameraInit => CamInv
    /\ CamInv /\ [CameraNext]_screenVars => CamInv'
<1>1. ASSUME CameraInit PROVE CamInv
  <2>1. CameraTypeOK
    BY <1>1, CaptureAssumption DEF CameraInit, CameraTypeOK
  <2>2. StoppedHasNoCamera /\ NoCameraLeaks
    BY <1>1 DEF CameraInit, StoppedHasNoCamera, NoCameraLeaks
  <2>3. LocalHeld /\ LatestIsKnown /\ StartingLocked /\ LoopOK
    BY <1>1 DEF CameraInit, LocalHeld, LatestIsKnown, StartingLocked, LoopOK
  <2> QED
    BY <2>1, <2>2, <2>3 DEF CamInv, CameraInv
<1>2. ASSUME CamInv, [CameraNext]_screenVars PROVE CamInv'
  <2>1. CameraTypeOK' /\ LocalHeld' /\ StartingLocked'
    BY <1>2, CamTypeStep
  <2>2. StoppedHasNoCamera' /\ LoopOK'
    BY <1>2, StoppedStep
  <2>3. LatestIsKnown' /\ NoCameraLeaks'
    BY <1>2, LatestStep, LeakStep
  <2> QED
    BY <2>1, <2>2, <2>3 DEF CamInv, CameraInv
<1> QED
  BY <1>1, <1>2

\* CameraInv: a stopped track has no camera and gets none, and every camera that captures or
\* is stuck can still be released (DesktopDuplicationTrack, video.py), for any cameras,
\* tracks and faults that ScreenCapture assumes.
THEOREM CameraCorrect == CameraSpec => []CameraInv
<1>1. CamInv => CameraInv
  BY DEF CamInv
<1> QED
  BY <1>1, CamInductive, PTL DEF CameraSpec

=============================================================================
