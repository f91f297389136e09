------------------------ MODULE ClipboardSyncProofs ------------------------
(***************************************************************************)
(* Proofs about ClipboardSync, for any texts, images and uploads.  No text *)
(* echo rests on the agent's bookkeeping of its own writes: as long as the *)
(* monitor has not consumed the number of the viewer's last write, the     *)
(* echo on record is that write's.  The order of an image and its paste    *)
(* chord rests on what travels in the channels.                            *)
(***************************************************************************)
EXTENDS ClipboardSync, SequenceTheorems, TLAPS

-----------------------------------------------------------------------------
(* The inductive invariant *)

\* What travels: texts to set and paste chords, images in three messages, answers.
SetMessage == [type : {"clipboard.set"}, text : Text]
PasteMessage == [type : {"paste"}, id : written]
ImageMessage == [type : {"offer", "chunk", "complete"}, id : Upload]
AnswerMessage == [type : {"error"}, id : Upload] \union [type : {"applied"}, id : written]

WireOK ==
    /\ control \in Seq(SetMessage \union PasteMessage)
    /\ images \in Seq(ImageMessage)
    /\ answers \in Seq(AnswerMessage)
    /\ written \subseteq Upload /\ used \in 0..MaxConn
    /\ incoming # None => incoming \in [id : Upload, got : Seq(Upload)]
    /\ images # <<>> => conn # 0

\* The monitor still has the viewer's last text to see: the agent is about to remember it
\* or knows it for an echo.
EchoKnown ==
    monitor /\ from = "viewer" /\ clip \in Text /\ last # seq
        => IF writing # None THEN clip = writing
           ELSE echo # None /\ echo.text = clip /\ echo.seq = seq

\* The viewer writes between polls only, so what a poll finds of the viewer's is what it saw.
PollCurrent ==
    /\ seen # 0 => monitor /\ sending = 0 /\ writing = None /\ (from = "viewer" => seen = seq)
    /\ sending # 0 => monitor
    /\ seen # 0 \/ sending # 0 => last < seq

IInv ==
    /\ TypeOK /\ WireOK /\ ImageSlotFreed
    /\ NoTextEcho /\ EchoKnown /\ PollCurrent

\* The parts of the type invariant.
ClockType ==
    /\ seq \in 1..MaxSeq /\ seen \in 0..seq /\ last \in 0..seq
    /\ pending \in 0..seq /\ tries \in 0..RetryLimit
    /\ echo # None => echo.seq \in 1..seq
    /\ sending \in 0..seq

ItemType ==
    /\ clip \in Text \union Image \union {"other"} /\ from \in {"host", "viewer"}
    /\ monitor \in BOOLEAN /\ granted \in BOOLEAN /\ stale \in BOOLEAN
    /\ writing \in Text \union {None}
    /\ echo # None => echo.text \in Text
    /\ imageEcho \in Image \union {None}
    /\ owed \in BOOLEAN /\ echoes \subseteq Text

UploadType ==
    /\ incoming # None => incoming.id \in Upload
    /\ conn \in 0..MaxConn /\ current \in Upload \union {None}
    /\ phase \in [Upload -> Phases] /\ over \subseteq Upload
    /\ own \subseteq Channel /\ late \subseteq Channel

\* They make it up.
LEMMA TypeParts == TypeOK <=> ClockType /\ ItemType /\ UploadType
  BY DEF TypeOK, ClockType, ItemType, UploadType

-----------------------------------------------------------------------------
(* What the larger steps do *)

\* The viewer's own steps: they touch its uploads and the channels.
ViewerStep ==
    \/ \E t \in Text : PasteText(t)
    \/ \E u \in Upload : SendImage(u) \/ OfferImage(u) \/ StreamImage(u) \/ ImageTimeout(u)
    \/ ImageAnswered

\* A step of the viewer leaves the agent and the host's clipboard alone.
LEMMA ViewerFrame ==
    ASSUME ViewerStep
    PROVE  UNCHANGED <<hostVars, monitorVars, linkVars, incoming, granted, echoes, written>>
  BY DEF ViewerStep, PasteText, SendImage, OfferImage, StreamImage, ImageTimeout, ImageAnswered,
         hostVars, monitorVars, linkVars, uploadVars, wireVars

\* _on_clipboard_image_message() writes an image or empties the clipboard, under the
\* grant, or leaves it alone.
LEMMA ImageMessageStep ==
    ASSUME WireOK, OnImageMessage
    PROVE  /\ seen = 0 /\ seq < MaxSeq /\ conn # 0 /\ writing = None
           /\ UNCHANGED <<monitor, seen, last, pending, tries, writing, echo, sending,
                          uploadVars, linkVars, control, granted, echoes, pastes>>
           /\ \/ UNCHANGED <<hostVars, owed, imageEcho, written>>
              \/ /\ granted /\ owed' = FALSE /\ from' = "viewer" /\ seq' = seq + 1 /\ clip' \in Image \union {"other"}
                 /\ imageEcho' \in Image \union {imageEcho}
                 /\ written \subseteq written' /\ written' \subseteq Upload
           /\ incoming' # None => incoming' \in [id : Upload, got : Seq(Upload)]
           /\ images' \in Seq(ImageMessage)
           /\ answers' \in Seq(AnswerMessage)'
<1> DEFINE m == Head(images)
<1>1. images # <<>> /\ m \in ImageMessage /\ images' = Tail(images) /\ Tail(images) \in Seq(ImageMessage)
  BY HeadTailProperties DEF OnImageMessage, WireOK
<1>2. PICK u \in Upload : u = m.id
  BY <1>1 DEF ImageMessage
<1>3. seen = 0 /\ seq < MaxSeq /\ conn # 0 /\ writing = None
  BY <1>1 DEF OnImageMessage, WireOK, LoopFree
<1>4. UNCHANGED <<monitor, seen, last, pending, tries, writing, echo, sending,
                  uploadVars, linkVars, control, granted, echoes, pastes>>
  BY DEF OnImageMessage
<1> DEFINE Effect ==
      \/ UNCHANGED <<hostVars, owed, imageEcho, written>>
      \/ /\ granted /\ owed' = FALSE /\ from' = "viewer" /\ seq' = seq + 1 /\ clip' \in Image \union {"other"}
         /\ imageEcho' \in Image \union {imageEcho}
         /\ written \subseteq written' /\ written' \subseteq Upload
<1> DEFINE Goal ==
      /\ Effect
      /\ incoming' # None => incoming' \in [id : Upload, got : Seq(Upload)]
      /\ answers' \in Seq(AnswerMessage)'
<1>5. ASSUME written \subseteq written', NEW type, NEW id \in Upload,
             type = "error" \/ (type = "applied" /\ id \in written'), Answer(type, id)
      PROVE  answers' \in Seq(AnswerMessage)'
  <2>1. answers \in Seq(AnswerMessage)'
    <3>1. AnswerMessage \subseteq AnswerMessage'
      BY <1>5 DEF AnswerMessage
    <3> QED
      BY <3>1, SeqMonotonic DEF WireOK
  <2>2. [type |-> type, id |-> id] \in AnswerMessage'
    BY <1>5 DEF AnswerMessage
  <2> QED
    BY <1>5, <2>1, <2>2 DEF Answer
<1>6. ASSUME UNCHANGED <<answers, written>> PROVE answers' \in Seq(AnswerMessage)'
  BY <1>6 DEF WireOK, AnswerMessage
<1>7. ASSUME OnImageOffer(u) PROVE Goal
  <2>1. UNCHANGED <<hostVars, owed, imageEcho, written>>
    BY <1>7 DEF OnImageOffer, NoWrite
  <2>2. [id |-> u, got |-> <<>>] \in [id : Upload, got : Seq(Upload)]
    BY EmptySeq
  <2>3. incoming' # None => incoming' \in [id : Upload, got : Seq(Upload)]
    BY <1>7, <2>2 DEF OnImageOffer, WireOK
  <2>4. Answer("error", u) \/ UNCHANGED answers
    BY <1>7 DEF OnImageOffer
  <2>5. answers' \in Seq(AnswerMessage)'
    BY <1>5, <1>6, <2>1, <2>4
  <2> QED
    BY <2>1, <2>3, <2>5
<1>8. ASSUME OnImageChunk(u) PROVE Goal
  <2>1. UNCHANGED <<hostVars, owed, imageEcho, written>>
    BY <1>8 DEF OnImageChunk, NoWrite
  <2>2. ASSUME incoming # None
        PROVE  [incoming EXCEPT !.got = <<u>>] \in [id : Upload, got : Seq(Upload)]
    <3>1. <<u>> \in Seq(Upload) /\ incoming \in [id : Upload, got : Seq(Upload)]
      BY <2>2 DEF WireOK
    <3> QED
      BY <3>1
  <2>3. incoming' # None => incoming' \in [id : Upload, got : Seq(Upload)]
    BY <1>8, <2>2 DEF OnImageChunk, WireOK
  <2>4. PICK w \in Upload : Answer("error", w) \/ UNCHANGED answers
    <3>1. incoming # None => incoming.id \in Upload
      BY DEF WireOK
    <3> QED
      BY <1>8, <3>1 DEF OnImageChunk
  <2>5. answers' \in Seq(AnswerMessage)'
    BY <1>5, <1>6, <2>1, <2>4
  <2> QED
    BY <2>1, <2>3, <2>5
<1>9. ASSUME OnImageComplete(u) PROVE Goal
  <2>1. CASE incoming = None \/ incoming.id # u
    <3>1. UNCHANGED <<hostVars, owed, imageEcho, written, incoming, answers>>
      BY <1>9, <2>1 DEF OnImageComplete, NoWrite
    <3>2. incoming' # None => incoming' \in [id : Upload, got : Seq(Upload)]
      BY <3>1 DEF WireOK
    <3> QED
      BY <1>6, <3>1, <3>2
  <2>2. CASE incoming # None /\ incoming.id = u
    <3>1. incoming' = None
      BY <1>9, <2>2 DEF OnImageComplete
    <3>2. CASE Answer("error", u) /\ NoWrite
      BY <1>5, <3>1, <3>2 DEF NoWrite
    <3>3. CASE granted /\ Answer("error", u) /\ Changes("other", "viewer")
                       /\ UNCHANGED <<imageEcho, written>>
      <4>1. Effect
        BY <3>3 DEF Changes, WireOK
      <4>2. answers' \in Seq(AnswerMessage)'
        BY <1>5, <3>3
      <4> QED
        BY <3>1, <4>1, <4>2
    <3>4. CASE granted /\ Changes(ImageOf(u), "viewer") /\ imageEcho' = ImageOf(u)
                       /\ written' = written \union {u} /\ Answer("applied", u)
      <4>1. ImageOf(u) \in Image
        BY ClipboardAssumption
      <4>2. Effect
        BY <3>4, <4>1 DEF Changes, WireOK
      <4>3. answers' \in Seq(AnswerMessage)'
        BY <1>5, <3>4
      <4> QED
        BY <3>1, <4>2, <4>3
    <3> QED
      BY <1>9, <2>2, <3>2, <3>3, <3>4 DEF OnImageComplete
  <2> QED
    BY <2>1, <2>2
<1>10. Goal
  BY <1>2, <1>7, <1>8, <1>9 DEF OnImageMessage
<1> QED
  BY <1>1, <1>3, <1>4, <1>10

\* _on_control_message() writes a text, to be remembered, or empties the clipboard, under
\* the grant, or leaves it alone.
LEMMA ControlMessageStep ==
    ASSUME WireOK, OnControl
    PROVE  /\ seen = 0 /\ writing = None /\ seq < MaxSeq
           /\ UNCHANGED <<monitor, seen, last, pending, tries, echo, imageEcho, sending,
                          uploadVars, linkVars, images, answers, incoming, granted, echoes,
                          pastes, written>>
           /\ control' \in Seq(SetMessage \union PasteMessage)
           /\ \/ UNCHANGED <<hostVars, writing, owed>>
              \/ granted /\ \E t \in Text : SetText(t)
              \/ granted /\ Changes("other", "viewer") /\ UNCHANGED writing
<1> DEFINE m == Head(control)
<1>1. /\ m \in SetMessage \union PasteMessage /\ control' = Tail(control)
      /\ Tail(control) \in Seq(SetMessage \union PasteMessage)
  BY HeadTailProperties DEF OnControl, WireOK
<1>2. m.type = "clipboard.set" => m.text \in Text
  BY <1>1 DEF SetMessage, PasteMessage
<1> QED
  BY <1>1, <1>2 DEF OnControl, LoopFree

-----------------------------------------------------------------------------
(* The agent's bookkeeping *)

\* Sequence numbers, retries and the sets of numbers keep their types.
LEMMA ClockStep ==
    ASSUME ClockType, WireOK, [Next]_vars
    PROVE  ClockType'
<1>0. MaxSeq \in Nat \ {0} /\ RetryLimit \in Nat \ {0}
  BY ClipboardAssumption
<1> USE <1>0 DEF ClockType
<1>1. ASSUME UNCHANGED <<hostVars, monitorVars>> PROVE ClockType'
  BY <1>1 DEF hostVars, monitorVars
<1>2. ASSUME NEW v \in HostItem, HostCopies(v) PROVE ClockType'
  BY <1>2 DEF HostCopies, Changes, monitorVars
<1>3. CASE Connect
  BY <1>3 DEF Connect, hostVars
<1>4. CASE Disconnect
  BY <1>4 DEF Disconnect, StopMonitor, hostVars
<1>5. CASE StaleClose
  BY <1>5 DEF StaleClose, StopMonitor, hostVars
<1>6. CASE GrantLapses
  BY <1>1, <1>6 DEF GrantLapses
<1>7. CASE PollNumber
  BY <1>7 DEF PollNumber, hostVars
<1>8. CASE PollRead
  <2>1. seen \in 1..seq /\ UNCHANGED hostVars
    BY <1>8 DEF PollRead
  <2>2. CASE ForwardText
    <3>1. UNCHANGED <<sending, seq>>
      BY <2>1, <2>2 DEF ForwardText, hostVars
    <3>2. last' = seen /\ pending' = 0 /\ tries' = 0 /\ seen' = 0
      BY <2>2 DEF ForwardText, Consumed
    <3>3. echo' = None \/ echo' = echo
      BY <2>2 DEF ForwardText
    <3>4. last' \in 0..seq /\ pending' \in 0..seq /\ tries' \in 0..RetryLimit /\ seen' \in 0..seq
      BY <2>1, <3>2
    <3> QED
      BY <3>1, <3>3, <3>4
  <2>3. CASE ForwardImage
    <3>1. CASE Normalize(clip) = imageEcho
      BY <2>1, <2>3, <3>1 DEF ForwardImage, Consumed, hostVars
    <3>2. CASE Normalize(clip) # imageEcho
      BY <2>1, <2>3, <3>2 DEF ForwardImage, hostVars
    <3> QED
      BY <3>1, <3>2
  <2>4. CASE Unreadable
    <3>1. UNCHANGED <<echo, sending, seq>>
      BY <2>1, <2>4 DEF Unreadable, hostVars
    <3>2. CASE tries + 1 < RetryLimit
      <4>1. tries' = tries + 1 /\ seen' = 0 /\ UNCHANGED <<last, pending>>
        BY <2>4, <3>2 DEF Unreadable
      <4>2. tries' \in 0..RetryLimit /\ seen' \in 0..seq
        BY <3>2, <4>1
      <4> QED
        BY <3>1, <4>1, <4>2
    <3>3. CASE ~(tries + 1 < RetryLimit)
      <4>1. last' = seen /\ pending' = 0 /\ tries' = 0 /\ seen' = 0
        BY <2>4, <3>3 DEF Unreadable, Consumed
      <4>2. last' \in 0..seq /\ pending' \in 0..seq /\ tries' \in 0..RetryLimit /\ seen' \in 0..seq
        BY <2>1, <4>1
      <4> QED
        BY <3>1, <4>1, <4>2
    <3> QED
      BY <3>2, <3>3
  <2>5. CASE HoldText
    BY <2>1, <2>5 DEF HoldText, hostVars
  <2> QED
    BY <1>8, <2>2, <2>3, <2>4, <2>5 DEF PollRead
<1>9. CASE ImageSent
  BY <1>9 DEF ImageSent, hostVars
<1>10. CASE OnControl
  <2>0. seq < MaxSeq /\ UNCHANGED <<seen, last, pending, tries, echo, sending>>
    BY <1>10, ControlMessageStep
  <2>1. CASE UNCHANGED <<hostVars, writing, owed>>
    BY <2>0, <2>1 DEF hostVars
  <2>2. ASSUME NEW t \in Text, SetText(t) PROVE ClockType'
    BY <2>0, <2>2 DEF SetText, Changes
  <2>3. CASE Changes("other", "viewer") /\ UNCHANGED writing
    BY <2>0, <2>3 DEF Changes
  <2> QED
    BY <1>10, <2>1, <2>2, <2>3, ControlMessageStep
<1>11. CASE OnImageMessage
  <2>1. seq < MaxSeq /\ UNCHANGED <<seen, last, pending, tries, echo, sending>>
    BY <1>11, ImageMessageStep
  <2>2. seq' = seq \/ seq' = seq + 1
    BY <1>11, ImageMessageStep DEF hostVars
  <2> QED
    BY <2>1, <2>2
<1>12. CASE ViewerStep
  BY <1>1, <1>12, ViewerFrame
<1>13. CASE UNCHANGED vars
  BY <1>1, <1>13 DEF vars
<1>14. ASSUME NEW c \in Channel, StaleOpens(c) PROVE ClockType'
  BY <1>14 DEF StaleOpens, hostVars
<1>15. CASE RememberText
  BY <1>15 DEF RememberText, hostVars
<1> QED
  BY <1>14, <1>15, <1>2, <1>3, <1>4, <1>5, <1>6, <1>7, <1>8, <1>9, <1>10, <1>11, <1>12, <1>13
     DEF Next, AgentGoesOn, ViewerStep

\* So do the contents of the clipboard and what the agent remembers of them.
LEMMA ItemStep ==
    ASSUME ItemType, WireOK, [Next]_vars
    PROVE  ItemType'
<1> USE DEF ItemType
<1>1. ASSUME UNCHANGED <<hostVars, monitorVars, stale, echoes>>, granted' \in BOOLEAN PROVE ItemType'
  BY <1>1 DEF hostVars, monitorVars
<1>2. ASSUME NEW v \in HostItem, HostCopies(v) PROVE ItemType'
  BY <1>2, ClipboardAssumption DEF HostCopies, Changes, monitorVars, linkVars
<1>3. CASE Connect
  BY <1>3 DEF Connect, hostVars
<1>4. CASE Disconnect
  BY <1>4 DEF Disconnect, StopMonitor, hostVars
<1>5. CASE StaleClose
  BY <1>5 DEF StaleClose, StopMonitor, hostVars
<1>6. CASE GrantLapses
  BY <1>1, <1>6 DEF GrantLapses, linkVars
<1>7. CASE PollNumber
  BY <1>7 DEF PollNumber, hostVars, linkVars
<1>8. CASE PollRead
  <2>1. UNCHANGED <<hostVars, monitor, writing, granted, stale>>
    BY <1>8 DEF PollRead, linkVars
  <2>2. CASE ForwardText
    BY <2>1, <2>2 DEF ForwardText, StageText, hostVars
  <2>3. CASE ForwardImage
    <3>1. clip \in Image /\ Normalize(clip) \in Image
      BY <2>3, ClipboardAssumption DEF ForwardImage
    <3>2. CASE Normalize(clip) = imageEcho
      BY <2>1, <2>3, <3>2 DEF ForwardImage, hostVars
    <3>3. CASE Normalize(clip) # imageEcho
      BY <2>1, <2>3, <3>1, <3>3 DEF ForwardImage, hostVars
    <3> QED
      BY <3>2, <3>3
  <2>4. CASE Unreadable
    BY <2>1, <2>4 DEF Unreadable, hostVars
  <2>5. CASE HoldText
    BY <2>1, <2>5 DEF HoldText, hostVars
  <2> QED
    BY <1>8, <2>2, <2>3, <2>4, <2>5 DEF PollRead
<1>9. CASE ImageSent
  BY <1>9 DEF ImageSent, hostVars, linkVars
<1>10. CASE OnControl
  <2>1. CASE UNCHANGED <<hostVars, writing, owed>>
    BY <1>10, <2>1, ControlMessageStep DEF hostVars, linkVars
  <2>2. ASSUME NEW t \in Text, SetText(t) PROVE ItemType'
    BY <1>10, <2>2, ControlMessageStep DEF SetText, Changes, linkVars
  <2>3. CASE Changes("other", "viewer") /\ UNCHANGED writing
    BY <1>10, <2>3, ControlMessageStep DEF Changes, linkVars
  <2> QED
    BY <1>10, <2>1, <2>2, <2>3, ControlMessageStep
<1>11. CASE OnImageMessage
  BY <1>11, ImageMessageStep DEF hostVars, linkVars
<1>12. CASE ViewerStep
  BY <1>1, <1>12, ViewerFrame DEF linkVars
<1>13. CASE UNCHANGED vars
  BY <1>1, <1>13 DEF vars, linkVars
<1>14. ASSUME NEW c \in Channel, StaleOpens(c) PROVE ItemType'
  BY <1>14 DEF StaleOpens, hostVars
<1>15. CASE RememberText
  BY <1>15 DEF RememberText, hostVars, linkVars
<1> QED
  BY <1>14, <1>15, <1>2, <1>3, <1>4, <1>5, <1>6, <1>7, <1>8, <1>9, <1>10, <1>11, <1>12, <1>13
     DEF Next, AgentGoesOn, ViewerStep

\* Where an upload is, and over which connection, keeps its type.
LEMMA UploadStep ==
    ASSUME UploadType, WireOK, [Next]_vars
    PROVE  UploadType'
<1>0. MaxConn \in Nat /\ None \notin Upload
  BY ClipboardAssumption
<1> USE <1>0 DEF UploadType, Phases
<1>1. ASSUME UNCHANGED <<uploadVars, conn, own, late, incoming>> PROVE UploadType'
  BY <1>1 DEF uploadVars
<1>2. ASSUME NEW v \in HostItem, HostCopies(v) PROVE UploadType'
  BY <1>1, <1>2 DEF HostCopies, linkVars
<1>3. CASE Connect
  BY <1>3 DEF Connect, uploadVars, WireOK
<1>4. CASE Disconnect
  BY <1>4 DEF Disconnect, Abandon
<1>5. CASE StaleClose
  BY <1>5 DEF StaleClose, uploadVars
<1>6. CASE GrantLapses \/ PollNumber \/ PollRead \/ ImageSent \/ OnControl \/ RememberText
  BY <1>1, <1>6 DEF GrantLapses, PollNumber, PollRead, ImageSent, OnControl, RememberText, linkVars
<1>7. CASE OnImageMessage
  BY <1>7, ImageMessageStep DEF uploadVars, linkVars
<1>8. ASSUME NEW t \in Text, PasteText(t) PROVE UploadType'
  BY <1>1, <1>8 DEF PasteText, linkVars
<1>9. ASSUME NEW u \in Upload, SendImage(u) PROVE UploadType'
  BY <1>9 DEF SendImage, linkVars
<1>10. ASSUME NEW u \in Upload, OfferImage(u) PROVE UploadType'
  BY <1>10 DEF OfferImage, Ends, linkVars
<1>11. ASSUME NEW u \in Upload, StreamImage(u) PROVE UploadType'
  BY <1>11 DEF StreamImage, Ends, linkVars
<1>12. ASSUME NEW u \in Upload, ImageTimeout(u) PROVE UploadType'
  BY <1>12 DEF ImageTimeout, Ends, linkVars
<1>13. CASE ImageAnswered
  BY <1>13 DEF ImageAnswered, Ends, linkVars
<1>14. CASE UNCHANGED vars
  BY <1>1, <1>14 DEF vars, linkVars
<1>15. ASSUME NEW c \in Channel, StaleOpens(c) PROVE UploadType'
  BY <1>15 DEF StaleOpens, uploadVars
<1> QED
  BY <1>15, <1>2, <1>3, <1>4, <1>5, <1>6, <1>7, <1>8, <1>9, <1>10, <1>11, <1>12, <1>13, <1>14
     DEF Next, AgentGoesOn

-----------------------------------------------------------------------------
(* The channels *)

\* Messages that travel stay well-formed: a paste chord or an "applied" names an upload
\* that was written, since nothing is ever unwritten.
LEMMA WireStep ==
    ASSUME TypeOK, WireOK, [Next]_vars
    PROVE  WireOK'
<1>0. MaxConn \in Nat
  BY ClipboardAssumption
<1>1. ASSUME UNCHANGED <<wireVars, conn, used, written, incoming>> PROVE WireOK'
  BY <1>1 DEF WireOK, wireVars, SetMessage, PasteMessage, ImageMessage, AnswerMessage
<1>2. ASSUME NEW v \in HostItem, HostCopies(v) PROVE WireOK'
  BY <1>1, <1>2 DEF HostCopies, linkVars
<1>3. CASE Connect
  <2>1. conn' # 0 /\ used' \in 0..MaxConn
    BY <1>0, <1>3 DEF Connect, WireOK
  <2> QED
    BY <1>3, <2>1 DEF Connect, WireOK, wireVars, PasteMessage, AnswerMessage
<1>4. CASE Disconnect
  <2>1. control' = <<>> /\ images' = <<>> /\ answers' = <<>> /\ UNCHANGED <<used, written>>
    BY <1>4 DEF Disconnect
  <2>2. incoming' = None \/ UNCHANGED incoming
    BY <1>4 DEF Disconnect
  <2> QED
    BY <2>1, <2>2, EmptySeq DEF WireOK
<1>5. CASE StaleClose
  BY <1>5 DEF StaleClose, WireOK, wireVars, PasteMessage, AnswerMessage
<1>6. CASE GrantLapses \/ PollNumber \/ PollRead \/ ImageSent \/ RememberText
  BY <1>1, <1>6 DEF GrantLapses, PollNumber, PollRead, ImageSent, RememberText, linkVars
<1>7. CASE OnControl
  BY <1>7, ControlMessageStep DEF WireOK, linkVars, PasteMessage, AnswerMessage
<1>8. CASE OnImageMessage
  <2>1. written \subseteq written' /\ written' \subseteq Upload
    BY <1>8, ImageMessageStep DEF WireOK
  <2>2. control \in Seq((SetMessage \union PasteMessage)')
    <3>1. SetMessage \union PasteMessage \subseteq (SetMessage \union PasteMessage)'
      BY <2>1 DEF SetMessage, PasteMessage
    <3> QED
      BY <3>1, SeqMonotonic DEF WireOK
  <2> QED
    BY <1>8, <2>1, <2>2, ImageMessageStep DEF WireOK, linkVars, ImageMessage
<1>9. ASSUME UNCHANGED <<written, used, conn, incoming, answers>>,
             control' \in Seq(SetMessage \union PasteMessage),
             images' \in Seq(ImageMessage), images' # <<>> => conn # 0
      PROVE  WireOK'
  BY <1>9 DEF WireOK, PasteMessage, AnswerMessage
<1>10. ASSUME NEW t \in Text, PasteText(t) PROVE WireOK'
  <2>1. [type |-> "clipboard.set", text |-> t] \in SetMessage \union PasteMessage
    BY DEF SetMessage
  <2>2. control' \in Seq(SetMessage \union PasteMessage)
    BY <1>10, <2>1, AppendProperties DEF PasteText, WireOK
  <2> QED
    BY <1>9, <1>10, <2>2 DEF PasteText, WireOK, linkVars
<1>11. ASSUME NEW ms \in Seq(ImageMessage), SendImageMessages(ms) \/ UNCHANGED images,
              UNCHANGED <<written, used, conn, incoming, answers, control>>
       PROVE  WireOK'
  <2>1. images' \in Seq(ImageMessage) /\ (images' # <<>> => conn # 0)
    BY <1>11, ConcatProperties DEF SendImageMessages, WireOK
  <2> QED
    BY <1>9, <1>11, <2>1 DEF WireOK
<1>12. ASSUME NEW u \in Upload, SendImage(u) \/ ImageTimeout(u) PROVE WireOK'
  BY <1>1, <1>12 DEF SendImage, ImageTimeout, linkVars
<1>13. ASSUME NEW u \in Upload, OfferImage(u) PROVE WireOK'
  <2>1. <<[type |-> "offer", id |-> u]>> \in Seq(ImageMessage)
    BY DEF ImageMessage
  <2> QED
    BY <1>11, <1>13, <2>1 DEF OfferImage, linkVars
<1>14. ASSUME NEW u \in Upload, StreamImage(u) PROVE WireOK'
  <2>1. <<[type |-> "chunk", id |-> u], [type |-> "complete", id |-> u]>> \in Seq(ImageMessage)
    BY DEF ImageMessage
  <2> QED
    BY <1>11, <1>14, <2>1 DEF StreamImage, linkVars
<1>15. CASE ImageAnswered
  <2> DEFINE m == Head(answers)
  <2>1. m \in AnswerMessage /\ answers' = Tail(answers) /\ Tail(answers) \in Seq(AnswerMessage)
    BY <1>15, HeadTailProperties DEF ImageAnswered, WireOK
  <2>2. UNCHANGED <<written, used, conn, incoming, images>>
    BY <1>15 DEF ImageAnswered, linkVars
  <2>3. m.type = "applied" => [type |-> "paste", id |-> m.id] \in PasteMessage
    BY <2>1 DEF AnswerMessage, PasteMessage
  <2>4. PasteIfApplied(m) \in Seq(SetMessage \union PasteMessage)
    BY <2>3 DEF PasteIfApplied, WireOK
  <2>5. control' \in Seq(SetMessage \union PasteMessage)
    BY <1>15, <2>4 DEF ImageAnswered, WireOK
  <2> QED
    BY <2>1, <2>2, <2>5 DEF WireOK, PasteMessage, AnswerMessage
<1>16. CASE UNCHANGED vars
  BY <1>1, <1>16 DEF vars, linkVars
<1>17. ASSUME NEW c \in Channel, StaleOpens(c) PROVE WireOK'
  BY <1>17 DEF StaleOpens, WireOK, wireVars, PasteMessage, AnswerMessage
<1> QED
  BY <1>17, <1>2, <1>3, <1>4, <1>5, <1>6, <1>7, <1>8, <1>10, <1>12, <1>13, <1>14, <1>15, <1>16
     DEF Next, AgentGoesOn

-----------------------------------------------------------------------------
(* Echoes *)

\* A half-received image has the connection it came over, or that one's close is to come.
LEMMA SlotStep ==
    ASSUME WireOK, ImageSlotFreed, [Next]_vars
    PROVE  ImageSlotFreed'
<1> USE DEF ImageSlotFreed
<1>1. ASSUME UNCHANGED <<linkVars, incoming>> PROVE ImageSlotFreed'
  BY <1>1 DEF linkVars
<1>2. CASE Connect
  BY <1>2 DEF Connect
<1>3. CASE Disconnect
  BY <1>3 DEF Disconnect
<1>4. CASE StaleClose
  BY <1>4 DEF StaleClose
<1>5. ASSUME NEW v \in HostItem, HostCopies(v) PROVE ImageSlotFreed'
  BY <1>1, <1>5 DEF HostCopies
<1>6. CASE GrantLapses \/ PollNumber \/ PollRead \/ ImageSent \/ OnControl \/ RememberText
  BY <1>1, <1>6 DEF GrantLapses, PollNumber, PollRead, ImageSent, OnControl, RememberText
<1>7. CASE OnImageMessage
  BY <1>7, ImageMessageStep DEF linkVars
<1>8. CASE ViewerStep
  BY <1>1, <1>8, ViewerFrame
<1>9. CASE UNCHANGED vars
  BY <1>1, <1>9 DEF vars
<1>10. ASSUME NEW c \in Channel, StaleOpens(c) PROVE ImageSlotFreed'
  BY <1>10 DEF StaleOpens
<1> QED
  BY <1>10, <1>2, <1>3, <1>4, <1>5, <1>6, <1>7, <1>8, <1>9 DEF Next, AgentGoesOn, ViewerStep

\* A poll is over before the viewer writes, and the monitor is behind while it works.
LEMMA PollStep ==
    ASSUME ClockType, ClockType', WireOK, PollCurrent, [Next]_vars
    PROVE  PollCurrent'
<1> USE DEF PollCurrent, ClockType
<1>1. ASSUME UNCHANGED <<hostVars, monitorVars>> PROVE PollCurrent'
  BY <1>1 DEF hostVars, monitorVars
<1>2. ASSUME NEW v \in HostItem, HostCopies(v) PROVE PollCurrent'
  BY <1>2 DEF HostCopies, Changes, monitorVars
<1>3. CASE Connect
  BY <1>3 DEF Connect
<1>4. CASE Disconnect
  BY <1>4 DEF Disconnect, StopMonitor, hostVars
<1>5. CASE StaleClose
  BY <1>5 DEF StaleClose, StopMonitor
<1>6. CASE GrantLapses
  BY <1>1, <1>6 DEF GrantLapses
<1>7. CASE PollNumber
  BY <1>7 DEF PollNumber, LoopFree, hostVars
<1>8. CASE PollRead
  <2>1. seen' = 0 /\ seq' = seq
    BY <1>8 DEF PollRead, ForwardText, HoldText, ForwardImage, Unreadable, Consumed, hostVars
  <2>2. last < seq /\ (sending' = 0 \/ last' = last) /\ monitor /\ monitor' = monitor
    BY <1>8 DEF PollRead, ForwardText, HoldText, ForwardImage, Unreadable
  <2> QED
    BY <2>1, <2>2
<1>9. CASE ImageSent
  BY <1>9 DEF ImageSent
<1>10. CASE OnControl
  <2>1. seen' = 0 /\ UNCHANGED <<monitor, sending, last>>
    BY <1>10, ControlMessageStep
  <2>2. UNCHANGED hostVars \/ (\E t \in Text : SetText(t)) \/ Changes("other", "viewer")
    BY <1>10, ControlMessageStep
  <2>3. seq' >= seq
    BY <2>2 DEF SetText, Changes, hostVars
  <2> QED
    BY <2>1, <2>3
<1>11. CASE OnImageMessage
  <2>1. seen' = 0 /\ UNCHANGED <<monitor, sending, last>>
    BY <1>11, ImageMessageStep
  <2>2. seq' = seq \/ seq' = seq + 1
    BY <1>11, ImageMessageStep DEF hostVars
  <2> QED
    BY <2>1, <2>2
<1>12. CASE ViewerStep
  BY <1>1, <1>12, ViewerFrame
<1>13. CASE UNCHANGED vars
  BY <1>1, <1>13 DEF vars
<1>14. ASSUME NEW c \in Channel, StaleOpens(c) PROVE PollCurrent'
  BY <1>14 DEF StaleOpens, LoopFree, hostVars
<1>15. CASE RememberText
  BY <1>15 DEF RememberText, hostVars
<1> QED
  BY <1>14, <1>15, <1>2, <1>3, <1>4, <1>5, <1>6, <1>7, <1>8, <1>9, <1>10, <1>11, <1>12, <1>13
     DEF Next, AgentGoesOn, ViewerStep

\* The echo on record is that of the viewer's last write until the monitor has seen it.
LEMMA EchoStep ==
    ASSUME ClockType, WireOK, PollCurrent, EchoKnown, [Next]_vars
    PROVE  EchoKnown'
<1> USE DEF EchoKnown
<1>1. ASSUME UNCHANGED <<hostVars, monitor, last, writing, echo>> PROVE EchoKnown'
  BY <1>1 DEF hostVars
<1>2. ASSUME NEW v \in HostItem, HostCopies(v) PROVE EchoKnown'
  BY <1>2 DEF HostCopies, Changes
<1>3. CASE Connect
  BY <1>3 DEF Connect, hostVars
<1>4. CASE Disconnect
  BY <1>4 DEF Disconnect, StopMonitor, hostVars
<1>5. CASE StaleClose
  BY <1>5 DEF StaleClose, StopMonitor
<1>6. CASE GrantLapses \/ PollNumber
  BY <1>1, <1>6 DEF GrantLapses, PollNumber, monitorVars
<1>7. CASE PollRead
  <2>1. UNCHANGED <<hostVars, monitor, writing>> /\ seen # 0
    BY <1>7 DEF PollRead
  <2>2. CASE ForwardText
    <3>1. from = "viewer" => last' = seq
      BY <2>1, <2>2 DEF ForwardText, Consumed, PollCurrent
    <3> QED
      BY <2>1, <3>1 DEF hostVars
  <2>3. CASE ForwardImage
    <3>1. clip \notin Text
      BY <2>3, ClipboardAssumption DEF ForwardImage
    <3> QED
      BY <2>1, <3>1 DEF hostVars
  <2>4. CASE Unreadable
    <3>1. from = "viewer" => last' = last \/ last' = seq
      BY <2>1, <2>4 DEF Unreadable, Consumed, PollCurrent
    <3> QED
      BY <2>1, <2>4, <3>1 DEF Unreadable, hostVars
  <2>5. CASE HoldText
    BY <1>1, <2>1, <2>5 DEF HoldText
  <2> QED
    BY <1>7, <2>2, <2>3, <2>4, <2>5 DEF PollRead
<1>8. CASE ImageSent
  <2>1. last # seq /\ UNCHANGED <<hostVars, monitor, writing, echo>>
    BY <1>8 DEF ImageSent, PollCurrent, ClockType
  <2> QED
    BY <2>1 DEF hostVars
<1>9. CASE OnControl
  <2>0. \/ UNCHANGED <<hostVars, writing, owed>>
        \/ \E t \in Text : SetText(t)
        \/ Changes("other", "viewer")
    BY <1>9, ControlMessageStep
  <2>1. CASE UNCHANGED <<hostVars, writing, owed>>
    BY <1>1, <1>9, <2>1, ControlMessageStep
  <2>2. ASSUME NEW t \in Text, SetText(t) PROVE EchoKnown'
    <3>1. t # None
      BY ClipboardAssumption
    <3> QED
      BY <2>2, <3>1 DEF SetText, Changes
  <2>3. CASE Changes("other", "viewer")
    BY <2>3, ClipboardAssumption DEF Changes
  <2> QED
    BY <2>0, <2>1, <2>2, <2>3
<1>10. CASE OnImageMessage
  <2>1. CASE UNCHANGED hostVars
    BY <1>1, <1>10, <2>1, ImageMessageStep
  <2>2. CASE clip' \in Image \union {"other"}
    <3>1. clip' \notin Text
      BY <2>2, ClipboardAssumption
    <3> QED
      BY <3>1
  <2> QED
    BY <1>10, <2>1, <2>2, ImageMessageStep
<1>11. CASE ViewerStep
  BY <1>1, <1>11, ViewerFrame DEF monitorVars
<1>12. CASE UNCHANGED vars
  BY <1>1, <1>12 DEF vars, monitorVars
<1>13. ASSUME NEW c \in Channel, StaleOpens(c) PROVE EchoKnown'
  BY <1>13 DEF StaleOpens, hostVars
<1>14. CASE RememberText
  <2>1. ASSUME writing \in Text PROVE echo' # None
    <3>1. [text |-> writing, seq |-> seq] \in [text : Text, seq : Nat]
      BY <2>1 DEF ClockType
    <3> QED
      BY <1>14, <3>1, ClipboardAssumption DEF RememberText
  <2> QED
    BY <1>14, <2>1 DEF RememberText, hostVars
<1> QED
  BY <1>13, <1>14, <1>2, <1>3, <1>4, <1>5, <1>6, <1>7, <1>8, <1>9, <1>10, <1>11, <1>12 DEF Next, AgentGoesOn, ViewerStep

\* Only _forward_clipboard_text() shows the viewer a text, and never one it knows for an echo.
LEMMA NoEchoStep ==
    ASSUME ItemType, ClockType, PollCurrent, EchoKnown, NoTextEcho, [Next]_vars
    PROVE  NoTextEcho'
<1> USE DEF NoTextEcho
<1>1. ASSUME UNCHANGED echoes PROVE NoTextEcho'
  BY <1>1
<1>2. CASE PollRead /\ ForwardText
  <2>1. CASE from = "host"
    BY <1>2, <2>1 DEF ForwardText, StageText
  <2>2. CASE from = "viewer"
    <3>1. IsEcho(clip)
      <4>1. monitor /\ seen = seq /\ last # seq /\ clip \in Text /\ writing = None
        BY <1>2, <2>2 DEF PollRead, ForwardText, PollCurrent, ClockType
      <4> QED
        BY <2>2, <4>1 DEF EchoKnown, IsEcho
    <3> QED
      BY <1>1, <1>2, <3>1 DEF ForwardText
  <2> QED
    BY <2>1, <2>2 DEF ItemType
<1>3. CASE PollRead /\ ~ForwardText
  BY <1>1, <1>3 DEF PollRead, HoldText, ForwardImage, Unreadable
<1>4. CASE Connect \/ Disconnect \/ StaleClose \/ GrantLapses \/ PollNumber \/ ImageSent
            \/ OnControl \/ RememberText \/ OnImageMessage
  BY <1>1, <1>4 DEF Connect, Disconnect, StaleClose, GrantLapses, PollNumber, ImageSent,
                    OnControl, RememberText, OnImageMessage
<1>5. ASSUME NEW v \in HostItem, HostCopies(v) PROVE NoTextEcho'
  BY <1>1, <1>5 DEF HostCopies
<1>6. CASE ViewerStep
  BY <1>1, <1>6, ViewerFrame
<1>7. CASE UNCHANGED vars
  BY <1>1, <1>7 DEF vars
<1>8. ASSUME NEW c \in Channel, StaleOpens(c) PROVE NoTextEcho'
  BY <1>1, <1>8 DEF StaleOpens
<1> QED
  BY <1>8, <1>2, <1>3, <1>4, <1>5, <1>6, <1>7 DEF Next, AgentGoesOn, ViewerStep

-----------------------------------------------------------------------------
(* The invariant is inductive *)

\* It holds before the first connection.
LEMMA InitInv == Init => IInv
<1> SUFFICES ASSUME Init PROVE IInv
  OBVIOUS
<1>1. ClockType
  <2>1. MaxSeq \in Nat \ {0} /\ RetryLimit \in Nat \ {0}
    BY ClipboardAssumption
  <2> QED
    BY <2>1 DEF Init, ClockType
<1>2. ItemType
  BY ClipboardAssumption DEF Init, ItemType
<1>3. UploadType
  <2>1. MaxConn \in Nat
    BY ClipboardAssumption
  <2> QED
    BY <2>1 DEF Init, UploadType, Phases
<1>4. WireOK
  <2>1. MaxConn \in Nat
    BY ClipboardAssumption
  <2> QED
    BY <2>1, EmptySeq DEF Init, WireOK
<1> QED
  BY <1>1, <1>2, <1>3, <1>4, TypeParts
     DEF Init, IInv, ImageSlotFreed, NoTextEcho, EchoKnown, PollCurrent

\* Every step of the two computers keeps it.
LEMMA StepInv == IInv /\ [Next]_vars => IInv'
<1> SUFFICES ASSUME IInv, [Next]_vars PROVE IInv'
  OBVIOUS
<1>1. ClockType /\ ItemType /\ UploadType
  BY TypeParts DEF IInv
<1>2. ClockType' /\ ItemType' /\ UploadType'
  BY <1>1, ClockStep, ItemStep, UploadStep DEF IInv
<1>3. TypeOK'
  BY <1>2 DEF TypeOK, ClockType, ItemType, UploadType
<1> QED
  BY <1>1, <1>2, <1>3, WireStep, SlotStep, PollStep, EchoStep, NoEchoStep DEF IInv

\* The agent's bookkeeping of its own writes, and what the channels carry, in every
\* reachable state.
THEOREM InvariantCorrect == Spec => []IInv
  BY InitInv, StepInv, PTL DEF Spec

-----------------------------------------------------------------------------
(* What it is for *)

\* Text the viewer wrote to the host does not come back to it, whatever is copied between
\* the write and the poll (_clipboard_text_echo in __main__.py).
THEOREM NoEchoCorrect == Spec => []NoTextEcho
<1>1. IInv => NoTextEcho
  BY DEF IInv
<1> QED
  BY <1>1, InvariantCorrect, PTL

\* The paste chord of an image follows its write, and a half-received image goes with its
\* connection (ImageClipboardPanel.tsx, _on_clipboard_image_message()).
THEOREM ClipboardCorrect == Spec => []ClipboardInv
<1>1. IInv => ClipboardInv
  <2> SUFFICES ASSUME IInv PROVE ClipboardInv
    OBVIOUS
  <2>1. ASSUME NEW i \in DOMAIN control PROVE control[i] \in SetMessage \union PasteMessage
    BY <2>1, LenProperties, ElementOfSeq DEF IInv, WireOK
  <2>2. PasteAfterWrite
    BY <2>1 DEF PasteAfterWrite, SetMessage, PasteMessage
  <2> QED
    BY <2>2 DEF IInv, ClipboardInv
<1> QED
  BY <1>1, InvariantCorrect, PTL

\* The viewer changes the host's clipboard only while the grant is active: each write
\* asks for it again, although an image takes several messages.
THEOREM GrantCorrect == Spec => WriteUnderGrant
<1>1. ASSUME IInv, [Next]_vars PROVE [seq' # seq /\ from' = "viewer" => granted]_vars
  <2>1. CASE OnControl
    BY <1>1, <2>1, ControlMessageStep DEF IInv, hostVars
  <2>2. CASE OnImageMessage
    BY <1>1, <2>2, ImageMessageStep DEF IInv, hostVars
  <2>3. ASSUME NEW v \in HostItem, HostCopies(v) PROVE from' = "host"
    BY <2>3 DEF HostCopies, Changes
  <2>4. CASE ViewerStep
    BY <2>4, ViewerFrame DEF hostVars
  <2>5. CASE Connect \/ Disconnect \/ StaleClose \/ GrantLapses \/ AgentGoesOn
    BY <2>5 DEF Connect, Disconnect, StaleClose, GrantLapses, AgentGoesOn, PollNumber, PollRead,
       ImageSent, RememberText, hostVars
  <2>6. ASSUME NEW c \in Channel, StaleOpens(c) PROVE UNCHANGED hostVars
    BY <2>6 DEF StaleOpens
  <2> QED
    BY <1>1, <2>1, <2>2, <2>3, <2>4, <2>5, <2>6 DEF hostVars, Next, AgentGoesOn, ViewerStep
<1> QED
  BY <1>1, InvariantCorrect, PTL DEF Spec, WriteUnderGrant

=============================================================================
