------------------------- MODULE InputControlProofs -------------------------
(***************************************************************************)
(* Proofs about the input controller, for every keyboard, every limit and  *)
(* every watchdog window.                                                  *)
(*                                                                         *)
(* IInv is TypeOK with NothingStuck and TrackedIsArmed.  The types are     *)
(* needed for the windows and the activity age; NothingStuck is what makes *)
(* a release of the tracked inputs a release of everything, as InputGuard  *)
(* demands; TrackedIsArmed is what makes the watchdog see them.            *)
(***************************************************************************)
EXTENDS InputControl, SlidingWindowProofs

IInv == TypeOK /\ NothingStuck /\ TrackedIsArmed

-----------------------------------------------------------------------------
(* Types *)

\* Both windows keep their type whatever the limiter decides.
LEMMA WindowTypes ==
    ASSUME TypeOK
    PROVE  /\ LiveMoves \in Seq(0..(WindowTicks + 1))
           /\ LiveActions \in Seq(0..(WindowTicks + 1))
           /\ Append(LiveMoves, 0) \in Seq(0..(WindowTicks + 1))
           /\ Append(LiveActions, 0) \in Seq(0..(WindowTicks + 1))
           /\ Append(action_log, 0) \in Seq(0..WindowTicks)
<1>1. WindowTicks + 1 \in Nat /\ WindowTicks \in Nat
  BY LimitAssumption
<1>2. LiveMoves \in Seq(0..(WindowTicks + 1))
  BY DropOlderType DEF LiveMoves, TypeOK
<1>3. LiveActions \in Seq(0..(WindowTicks + 1))
  BY DropOlderType DEF LiveActions, TypeOK
<1>4. action_log \in Seq(0..WindowTicks)
  BY DEF TypeOK
<1> QED
  BY <1>1, <1>2, <1>3, <1>4, AppendZeroType

\* handle() itself keeps the sequence and the activity age in range.
LEMMA ConsumeType ==
    ASSUME TypeOK, NEW seq \in 0..MaxSequence, NEW applied \in BOOLEAN,
           Consume(seq, applied)
    PROVE  /\ last_sequence' \in -1..MaxSequence
           /\ last_activity' \in NotArmed..WatchdogTicks
           /\ applied => last_activity' # NotArmed
           /\ last_activity # NotArmed => last_activity' # NotArmed
BY LimitAssumption DEF Consume, Fresh, TypeOK, NotArmed

-----------------------------------------------------------------------------
(* The inductive invariant *)

\* A fresh controller on an untouched host satisfies the invariant.
THEOREM InitIInv == Init => IInv
<1> SUFFICES ASSUME Init
             PROVE  IInv
  OBVIOUS
<1>1. /\ <<>> \in Seq(0..(WindowTicks + 1))
      /\ <<>> \in Seq(0..WindowTicks)
  BY EmptySeq
<1>2. /\ -1 \in -1..MaxSequence
      /\ NotArmed \in NotArmed..WatchdogTicks
  BY LimitAssumption DEF NotArmed
<1>3. Tracked = {}
  BY DEF Init, Tracked
<1> QED
  BY <1>1, <1>2, <1>3 DEF Init, IInv, TypeOK, NothingStuck, TrackedIsArmed

\* One message, whatever its event, keeps the invariant.
LEMMA MessageIInv ==
    ASSUME IInv, NEW seq \in 0..MaxSequence, Message(seq)
    PROVE  IInv'
<1> USE DEF IInv
<1>1. ASSUME NEW inUnit \in BOOLEAN, NEW onDesktop \in BOOLEAN,
             Move(seq, inUnit, onDesktop)
      PROVE  IInv'
  <2> DEFINE applied == source /\ inUnit /\ Len(LiveMoves) < MoveLimit /\ onDesktop
  <2>1. Consume(seq, applied) /\ applied \in BOOLEAN
    BY <1>1 DEF Move
  <2>2. move_times' \in Seq(0..(WindowTicks + 1))
    BY <1>1, WindowTypes DEF Move, TypeOK
  <2> QED
    BY <1>1, <2>1, <2>2, ConsumeType
       DEF Move, TypeOK, NothingStuck, TrackedIsArmed, Tracked
<1>2. CASE ReleaseAllMessage(seq)
  <2>1. Consume(seq, TRUE)
    BY <1>2 DEF ReleaseAllMessage
  <2> QED
    BY <1>2, <2>1, ConsumeType
       DEF ReleaseAllMessage, ReleaseAll, TypeOK, NothingStuck, TrackedIsArmed, Tracked
<1>3. ASSUME NEW b \in Button, ButtonDown(seq, b)
      PROVE  IInv'
  <2> DEFINE applied == AllowAction /\ b \in Button
  <2>1. Consume(seq, applied) /\ applied \in BOOLEAN
    BY <1>3 DEF ButtonDown, AllowAction
  <2>2. /\ action_times' \in Seq(0..(WindowTicks + 1))
        /\ action_log' \in Seq(0..WindowTicks)
    BY <1>3, WindowTypes DEF ButtonDown, SpendAction, LogAction, TypeOK
  <2> QED
    BY <1>3, <2>1, <2>2, ConsumeType
       DEF ButtonDown, TypeOK, NothingStuck, TrackedIsArmed, Tracked, Inputs
<1>4. ASSUME NEW b \in Button, ButtonUp(seq, b)
      PROVE  IInv'
  <2>1. Consume(seq, b \in Button) /\ (b \in Button) \in BOOLEAN
    BY <1>4 DEF ButtonUp
  <2> QED
    BY <1>4, <2>1, ConsumeType
       DEF ButtonUp, TypeOK, NothingStuck, TrackedIsArmed, Tracked
<1>5. ASSUME NEW code \in KeyCode \union OtherCode, KeyDown(seq, code)
      PROVE  IInv'
  <2> DEFINE applied == AllowAction /\ code \in KeyCode
  <2>1. Consume(seq, applied) /\ applied \in BOOLEAN
    BY <1>5 DEF KeyDown, AllowAction
  <2>2. /\ action_times' \in Seq(0..(WindowTicks + 1))
        /\ action_log' \in Seq(0..WindowTicks)
    BY <1>5, WindowTypes DEF KeyDown, SpendAction, LogAction, TypeOK
  <2> QED
    BY <1>5, <2>1, <2>2, ConsumeType
       DEF KeyDown, TypeOK, NothingStuck, TrackedIsArmed, Tracked, Inputs
<1>6. ASSUME NEW code \in KeyCode \union OtherCode, KeyUp(seq, code)
      PROVE  IInv'
  <2>1. Consume(seq, code \in KeyCode) /\ (code \in KeyCode) \in BOOLEAN
    BY <1>6 DEF KeyUp
  <2> QED
    BY <1>6, <2>1, ConsumeType
       DEF KeyUp, TypeOK, NothingStuck, TrackedIsArmed, Tracked
<1>7. ASSUME NEW valid \in BOOLEAN, Wheel(seq, valid)
      PROVE  IInv'
  <2> DEFINE applied == AllowAction /\ valid
  <2>1. Consume(seq, applied) /\ applied \in BOOLEAN
    BY <1>7 DEF Wheel, AllowAction
  <2>2. /\ action_times' \in Seq(0..(WindowTicks + 1))
        /\ action_log' \in Seq(0..WindowTicks)
    BY <1>7, WindowTypes DEF Wheel, SpendAction, LogAction, TypeOK
  <2> QED
    BY <1>7, <2>1, <2>2, ConsumeType
       DEF Wheel, TypeOK, NothingStuck, TrackedIsArmed, Tracked
<1>8. ASSUME NEW safe \in BOOLEAN, NEW newline \in BOOLEAN, Text(seq, safe, newline)
      PROVE  IInv'
  <2> DEFINE applied == AllowAction /\ safe
  <2>1. Consume(seq, applied) /\ applied \in BOOLEAN
    BY <1>8 DEF Text, TypeText, AllowAction
  <2>2. /\ action_times' \in Seq(0..(WindowTicks + 1))
        /\ action_log' \in Seq(0..WindowTicks)
    BY <1>8, WindowTypes DEF Text, TypeText, SpendAction, LogAction, TypeOK
  <2> QED
    BY <1>8, <2>1, <2>2, ConsumeType
       DEF Text, TypeText, TypeOK, NothingStuck, TrackedIsArmed, Tracked
<1>9. CASE UnknownEvent(seq)
  <2>1. Consume(seq, FALSE)
    BY <1>9 DEF UnknownEvent
  <2> QED
    BY <1>9, <2>1, ConsumeType
       DEF UnknownEvent, TypeOK, NothingStuck, TrackedIsArmed, Tracked
<1> QED
  BY <1>1, <1>2, <1>3, <1>4, <1>5, <1>6, <1>7, <1>8, <1>9 DEF Message

\* Every step keeps the invariant.
THEOREM NextIInv == IInv /\ [Next]_vars => IInv'
<1> SUFFICES ASSUME IInv, [Next]_vars
             PROVE  IInv'
  OBVIOUS
<1> USE DEF IInv
<1>1. ASSUME NEW seq \in 0..MaxSequence, Message(seq)
      PROVE  IInv'
  BY <1>1, MessageIInv
<1>2. CASE SetSourceSize
  BY <1>2 DEF SetSourceSize, TypeOK, NothingStuck, TrackedIsArmed, Tracked
<1>3. CASE WatchdogTick
  BY <1>3, LimitAssumption
     DEF WatchdogTick, ReleaseAll, TypeOK, NothingStuck, TrackedIsArmed, Tracked, NotArmed
<1>4. CASE Teardown
  <2>1. /\ <<>> \in Seq(0..(WindowTicks + 1))
        /\ <<>> \in Seq(0..WindowTicks)
    BY EmptySeq
  <2>2. /\ -1 \in -1..MaxSequence
        /\ NotArmed \in NotArmed..WatchdogTicks
    BY LimitAssumption DEF NotArmed
  <2>3. Tracked' = {} /\ host_down' = {}
    BY <1>4 DEF Teardown, ReleaseAll, Tracked, NothingStuck
  <2> QED
    BY <1>4, <2>1, <2>2, <2>3
       DEF Teardown, ReleaseAll, FreshController, TypeOK, NothingStuck, TrackedIsArmed
<1>5. CASE Tick
  <2>1. /\ move_times' \in Seq(0..(WindowTicks + 1))
        /\ action_times' \in Seq(0..(WindowTicks + 1))
        /\ action_log' \in Seq(0..WindowTicks)
    BY <1>5, GrowType, DropOlderType, LimitAssumption DEF Tick, TypeOK
  <2>2. /\ last_activity' \in NotArmed..WatchdogTicks
        /\ last_activity # NotArmed => last_activity' # NotArmed
    BY <1>5, LimitAssumption DEF Tick, TypeOK, NotArmed
  <2> QED
    BY <1>5, <2>1, <2>2 DEF Tick, TypeOK, NothingStuck, TrackedIsArmed, Tracked
<1>6. CASE UNCHANGED vars
  BY <1>6 DEF vars, TypeOK, NothingStuck, TrackedIsArmed, Tracked
<1> QED
  BY <1>1, <1>2, <1>3, <1>4, <1>5, <1>6 DEF Next

\* Every state of the controller is well typed, holds nothing it does not track
\* and tracks nothing without an armed watchdog.
THEOREM Invariance == Spec => []IInv
BY InitIInv, NextIInv, PTL DEF Spec

\* The state of the controller keeps its type (TypeOK).
THEOREM TypeCorrect == Spec => []TypeOK
<1>1. IInv => TypeOK
  BY DEF IInv
<1> QED
  BY <1>1, Invariance, PTL

\* No sequence of messages, expiries and teardowns leaves an input down on the
\* host that release_all() would not lift (NothingStuck).
THEOREM NothingIsEverStuck == Spec => []NothingStuck
<1>1. IInv => NothingStuck
  BY DEF IInv
<1> QED
  BY <1>1, Invariance, PTL

\* Whatever is tracked is under an armed watchdog (TrackedIsArmed).
THEOREM TrackedStaysArmed == Spec => []TrackedIsArmed
<1>1. IInv => TrackedIsArmed
  BY DEF IInv
<1> QED
  BY <1>1, Invariance, PTL

-----------------------------------------------------------------------------
(* What a step may never do *)

\* Nothing is pressed without consuming a newer sequence number: a replayed or
\* late message cannot press (PressConsumesSequence).
THEOREM PressesConsume == Spec => PressConsumesSequence
<1> DEFINE Step == ~(host_down' \subseteq host_down) => last_sequence' > last_sequence
<1>1. ASSUME IInv, [Next]_vars
      PROVE  [Step]_vars
  <2>1. ASSUME NEW seq \in 0..MaxSequence, Message(seq)
        PROVE  Step
    BY <1>1, <2>1 DEF IInv, TypeOK, Message, Move, ReleaseAllMessage, ReleaseAll,
       ButtonDown, ButtonUp, KeyDown, KeyUp, Wheel, Text, TypeText, UnknownEvent, Consume, Fresh
  <2>2. CASE SetSourceSize \/ WatchdogTick \/ Teardown \/ Tick
    BY <2>2 DEF SetSourceSize, WatchdogTick, Teardown, Tick, ReleaseAll
  <2> QED
    BY <1>1, <2>1, <2>2 DEF Next
<1> QED
  BY <1>1, Invariance, PTL DEF Spec, PressConsumesSequence

-----------------------------------------------------------------------------
(* The controller implements InputGuard *)

\* Every step of the controller is a step of the guard, or none.
LEMMA StepRefines ==
    ASSUME IInv, [Next]_vars
    PROVE  [Guard!GuardNext]_(Guard!guardVars)
<1> USE DEF Guard!guardVars, Guard!NotArmed, NotArmed
<1> DEFINE Applies == /\ \/ host_down' = host_down
                         \/ \E i \in Inputs : host_down' \in {host_down \union {i}, host_down \ {i}}
                      /\ last_activity' = 0
                      /\ host_down' \subseteq Inputs
           Ignores == UNCHANGED <<host_down, last_activity>>
<1>1. IInv'
  BY NextIInv
<1>2. Applies => Guard!Activity
  BY DEF Guard!Activity, Guard!Apply
<1>3. ASSUME NEW seq \in 0..MaxSequence, Message(seq)
      PROVE  Applies \/ Ignores \/ Guard!ReleaseAllMessage
  <2> host_down' \subseteq Inputs
    BY <1>1 DEF IInv, TypeOK
  <2>1. ASSUME NEW inUnit \in BOOLEAN, NEW onDesktop \in BOOLEAN,
               Move(seq, inUnit, onDesktop)
        PROVE  Applies \/ Ignores
    BY <2>1 DEF Move, Consume
  <2>2. CASE ReleaseAllMessage(seq)
    BY <2>2 DEF ReleaseAllMessage, ReleaseAll, Consume, Guard!ReleaseAllMessage,
       IInv, NothingStuck
  <2>3. ASSUME NEW b \in Button, ButtonDown(seq, b) \/ ButtonUp(seq, b)
        PROVE  Applies \/ Ignores
    <3>1. b \in Inputs
      BY DEF Inputs
    <3> QED
      BY <2>3, <3>1 DEF ButtonDown, ButtonUp, Consume
  <2>4. ASSUME NEW code \in KeyCode \union OtherCode,
               KeyDown(seq, code) \/ KeyUp(seq, code)
        PROVE  Applies \/ Ignores
    <3>1. code \in KeyCode => VirtualKey[code] \in Inputs
      BY DEF Inputs
    <3> QED
      BY <2>4, <3>1 DEF KeyDown, KeyUp, Consume
  <2>5. ASSUME NEW valid \in BOOLEAN, Wheel(seq, valid)
        PROVE  Applies \/ Ignores
    BY <2>5 DEF Wheel, Consume
  <2>6. ASSUME NEW safe \in BOOLEAN, NEW newline \in BOOLEAN, Text(seq, safe, newline)
        PROVE  Applies \/ Ignores
    <3>1. ReturnKey \in Inputs
      BY DEF Inputs
    <3> QED
      BY <2>6, <3>1 DEF Text, TypeText, Consume
  <2>7. CASE UnknownEvent(seq)
    BY <2>7 DEF UnknownEvent, Consume
  <2> QED
    BY <1>3, <2>1, <2>2, <2>3, <2>4, <2>5, <2>6, <2>7 DEF Message
<1>4. CASE WatchdogTick
  BY <1>4 DEF WatchdogTick, WatchdogExpired, ReleaseAll, IInv, NothingStuck,
     Guard!GuardNext, Guard!Expire, Guard!Expired
<1>5. CASE Teardown
  BY <1>5 DEF Teardown, ReleaseAll, FreshController, IInv, NothingStuck,
     Guard!GuardNext, Guard!Drop
<1>6. CASE Tick
  BY <1>6 DEF Tick, Guard!GuardNext, Guard!GuardTick, Guard!Older
<1>7. CASE SetSourceSize
  BY <1>7 DEF SetSourceSize
<1>8. CASE UNCHANGED vars
  BY <1>8 DEF vars
<1> QED
  BY <1>2, <1>3, <1>4, <1>5, <1>6, <1>7, <1>8 DEF Next, Guard!GuardNext

\* The controller implements the safety part of InputGuard; its fairness is
\* checked by TLC (ImplementsGuard).
THEOREM RefinesGuard == Spec => Guard!GuardInit /\ [][Guard!GuardNext]_(Guard!guardVars)
<1>1. Init => Guard!GuardInit
  BY DEF Init, Guard!GuardInit, Guard!NotArmed, NotArmed
<1>2. IInv /\ [Next]_vars => [Guard!GuardNext]_(Guard!guardVars)
  BY StepRefines
<1> QED
  BY <1>1, <1>2, Invariance, PTL DEF Spec

-----------------------------------------------------------------------------
(* The action limit *)

\* The injected actions of the last window are counted by _allow_action()'s own, although
\* that one also counts actions a later check refused, and is pruned only when it is asked.
RateInv == Limited(action_times, action_log, WindowTicks, ActionLimit)

\* Both windows are sequences of ages.
LEMMA WindowAges ==
    ASSUME TypeOK
    PROVE  action_times \in Seq(Nat) /\ action_log \in Seq(Nat)
BY AgesAreNat, LimitAssumption DEF TypeOK

\* _allow_action() keeps its window within the limit, and every injected action in it.
LEMMA SpendRate ==
    ASSUME TypeOK, RateInv, NEW applied \in BOOLEAN, applied => AllowAction,
           SpendAction, LogAction(applied)
    PROVE  RateInv'
<1>1. WindowTicks \in Nat \ {0} /\ ActionLimit \in Nat
  BY LimitAssumption
<1>2. /\ Limited(LiveActions, action_log, WindowTicks, ActionLimit)
      /\ Len(LiveActions) < ActionLimit =>
           /\ Limited(Append(LiveActions, 0), action_log, WindowTicks, ActionLimit)
           /\ Limited(Append(LiveActions, 0), Append(action_log, 0), WindowTicks, ActionLimit)
  BY <1>1, WindowAges, LimitedSpends DEF RateInv, LiveActions
<1> QED
  BY <1>2 DEF RateInv, SpendAction, LogAction, AllowAction

\* Every step does.
LEMMA StepRate ==
    ASSUME TypeOK, RateInv, [Next]_vars
    PROVE  RateInv'
<1>1. ASSUME UNCHANGED <<action_times, action_log>> PROVE RateInv'
  BY <1>1 DEF RateInv
<1>2. ASSUME NEW seq \in 0..MaxSequence, Message(seq) PROVE RateInv'
  <2>1. ASSUME NEW b \in Button, ButtonDown(seq, b) PROVE RateInv'
    <3>1. PICK applied \in BOOLEAN : applied = (AllowAction /\ b \in Button)
      OBVIOUS
    <3>2. SpendAction /\ LogAction(applied)
      BY <2>1, <3>1 DEF ButtonDown
    <3> QED
      BY <3>1, <3>2, SpendRate
  <2>2. ASSUME NEW code \in KeyCode \union OtherCode, KeyDown(seq, code) PROVE RateInv'
    <3>1. PICK applied \in BOOLEAN : applied = (AllowAction /\ code \in KeyCode)
      OBVIOUS
    <3>2. SpendAction /\ LogAction(applied)
      BY <2>2, <3>1 DEF KeyDown
    <3> QED
      BY <3>1, <3>2, SpendRate
  <2>3. ASSUME NEW valid \in BOOLEAN, Wheel(seq, valid) PROVE RateInv'
    <3>1. PICK applied \in BOOLEAN : applied = (AllowAction /\ valid)
      OBVIOUS
    <3>2. SpendAction /\ LogAction(applied)
      BY <2>3, <3>1 DEF Wheel
    <3> QED
      BY <3>1, <3>2, SpendRate
  <2>4. ASSUME NEW safe \in BOOLEAN, NEW newline \in BOOLEAN, Text(seq, safe, newline)
        PROVE  RateInv'
    <3>1. PICK applied \in BOOLEAN : applied = (AllowAction /\ safe)
      OBVIOUS
    <3>2. SpendAction /\ LogAction(applied)
      BY <2>4, <3>1 DEF Text
    <3> QED
      BY <3>1, <3>2, SpendRate
  <2> QED
    BY <1>1, <1>2, <2>1, <2>2, <2>3, <2>4
       DEF Message, Move, ReleaseAllMessage, ButtonUp, KeyUp, UnknownEvent
<1>3. CASE SetSourceSize \/ WatchdogTick
  BY <1>1, <1>3 DEF SetSourceSize, WatchdogTick
<1>4. CASE Teardown
  <2>1. action_times' = <<>> /\ action_log' = <<>>
    BY <1>4 DEF Teardown, FreshController
  <2> QED
    BY <2>1, LimitedEmpty, LimitAssumption DEF RateInv
<1>5. CASE Tick
  BY <1>5, WindowAges, LimitedGrows, LimitAssumption DEF RateInv, Tick
<1>6. CASE UNCHANGED vars
  BY <1>1, <1>6 DEF vars
<1> QED
  BY <1>2, <1>3, <1>4, <1>5, <1>6 DEF Next

\* _allow_action(): at most ActionLimit limited inputs are injected by one controller in any
\* window of one second, however presses, refused messages, ticks and releases follow each
\* other.
THEOREM ActionsAreLimited == Spec => []ActionRateBounded
<1>1. Init => RateInv
  BY LimitedEmpty, LimitAssumption DEF Init, RateInv
<1>2. TypeOK /\ RateInv => ActionRateBounded
  BY WindowAges, LimitedBounds, LimitAssumption DEF RateInv, ActionRateBounded
<1>3. TypeOK /\ RateInv /\ [Next]_vars => RateInv'
  BY StepRate
<1> QED
  BY <1>1, <1>2, <1>3, TypeCorrect, PTL DEF Spec

=============================================================================
