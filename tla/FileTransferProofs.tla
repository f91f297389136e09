------------------------- MODULE FileTransferProofs -------------------------
(***************************************************************************)
(* Proofs about FileTransfer, for any number of transfers, chunks and      *)
(* channels: no transfer leaves anything behind, and both directions       *)
(* implement FileDelivery.                                                 *)
(***************************************************************************)
EXTENDS FileTransfer, SequenceTheorems, FiniteSetTheorems, WellFoundedInduction, TLAPS

-----------------------------------------------------------------------------
(* The inductive invariant *)

\* What the viewer sends, and what it can be told: that an upload is done only if it is.
ToAgent ==
    [type : {"file.offer", "file.complete"}, id : Upload]
        \union [type : {"file.download"}, id : Download]
        \union [type : {"chunk"}, id : Upload, n : 1..Chunks]

Stored(u) == \E f \in incoming : f.id = u

ToViewer ==
    [type : {"file.accept"}, id : Upload]
        \union [type : {"file.done"}, id : {u \in Upload : Stored(u)}]
        \union [type : {"file.error"}, id : Upload \union Download]
        \union [type : {"file.download-offer"}, id : Download, size : Nat]
        \union [type : {"chunk"}, id : Download, n : 1..Chunks]
        \union {[type |-> "file.download-complete", id |-> d, sha256 |-> Content(d)] : d \in Download}

QueueType ==
    /\ toAgent \in [Channel -> Seq(ToAgent)] /\ toViewer \in [Channel -> Seq(ToViewer)]

\* The chunks an upload has sent, by its phase.
SentOK ==
    \A u \in Upload :
        /\ phase[u] \in {"idle", "preparing", "offered"} => sent[u] = 0
        /\ phase[u] = "sending" => sent[u] < Chunks

\* An upload is offered once: while the offer is under way nothing has been received of it,
\* and while its receiver works it is not stored.
IsOffer(c, i, u) == toAgent[c][i].type = "file.offer" /\ toAgent[c][i].id = u

Unknown(u) == ~Stored(u) /\ (receiver # None => receiver.id # u)

OffersOnce ==
    \A u \in Upload :
        /\ receiver # None /\ receiver.id = u => ~Stored(u)
        /\ phase[u] \in {"idle", "preparing"} =>
             Unknown(u) /\ \A c \in Channel : \A i \in DOMAIN toAgent[c] : ~IsOffer(c, i, u)
        /\ \A c \in Channel : \A i \in DOMAIN toAgent[c] :
             IsOffer(c, i, u) =>
               /\ Unknown(u)
               /\ \A d \in Channel : \A j \in DOMAIN toAgent[d] : IsOffer(d, j, u) => d = c /\ j = i

\* The files in Incoming: whole, and one for each upload.
IncomingOK ==
    /\ \A f \in incoming : f.id \in Upload
    /\ \A f, g \in incoming : f.id = g.id => f = g

DoneIsStored == \A u \in Upload : phase[u] = "done" => Stored(u)

\* The download slot is held for a channel that has not ended.
SlotHeld == downloadId # None => asked \in Channel /\ aEnd[asked] \in {"open", "dead", "closing"}

\* A download is loading, then verifying, then shown as done and saved, or failed.
DownloadPhases ==
    /\ fileDownload # None => shown[fileDownload.id] = "downloading"
    /\ \A v \in verifying : v.id \in Download /\ v.sha256 = Content(v.id) /\ shown[v.id] = "verifying"
    /\ \A v, w \in verifying : v.id = w.id => v = w
    /\ \A f \in saved : f.id \in Download /\ f.dest = f.id /\ shown[f.id] = "done"
    /\ \A d \in Download : shown[d] = "done" => \E f \in saved : f.id = d

IInv ==
    /\ TypeOK /\ QueueType /\ asked \in 0..MaxChannel
    /\ NoLeftovers /\ ReceiverHasChannel /\ SlotHeld
    /\ SentOK /\ OffersOnce /\ IncomingOK /\ DoneIsStored
    /\ DownloadPhases

\* The parts of the type invariant: the ends of the channels, the uploads and the downloads
\* of the viewer, the agent's receiver and its download.
EndType ==
    /\ fileChannel \in 0..MaxChannel /\ aChannel \in 0..MaxChannel
    /\ vEnd \in [Channel -> {"none", "connecting", "open", "closed"}]
    /\ aEnd \in [Channel -> {"none", "answering", "open", "dead", "closing", "closed"}]
    /\ stalled \in BOOLEAN

RunType ==
    /\ fileUpload \in Upload \union {None} /\ phase \in [Upload -> Phases]
    /\ via \in [Upload -> 0..MaxChannel] /\ sent \in [Upload -> 0..Chunks]

ShowType ==
    /\ fileDownload \in Loading \union {None}
    /\ shown \in [Download -> {"none", "downloading", "verifying", "done", "error"}]

DiskType ==
    /\ receiver \in Receiver \union {None} /\ part \subseteq Upload
    /\ receiver # None => Len(receiver.got) <= Chunks

LoadType ==
    /\ downloadId \in Download \union {None} /\ task \in Task \union {None}
    /\ asked \in 0..MaxChannel

\* They make it up.
LEMMA TypeParts ==
    TypeOK /\ asked \in 0..MaxChannel <=> EndType /\ RunType /\ ShowType /\ DiskType /\ LoadType
  BY DEF TypeOK, EndType, RunType, ShowType, DiskType, LoadType

\* What the proofs need of the constants.
LEMMA Sizes ==
    /\ Chunks \in Nat /\ Chunks >= 1 /\ MaxChannel \in Nat /\ MaxChannel >= 1
    /\ Channel \subseteq 0..MaxChannel /\ 0 \in 0..MaxChannel
  BY FileAssumption DEF Channel

-----------------------------------------------------------------------------
(* Queues *)

\* What is sent on one channel joins the messages under way.
LEMMA QueueGrows ==
    ASSUME NEW S, NEW q \in [Channel -> Seq(S)], NEW c \in Channel, NEW ms \in Seq(S)
    PROVE  [q EXCEPT ![c] = @ \o ms] \in [Channel -> Seq(S)]
<1>1. q[c] \o ms \in Seq(S)
  BY ConcatProperties
<1> QED
  BY <1>1

\* _send_file() and the chunks: they arrive, or are lost.
LEMMA DeliveredType ==
    ASSUME NEW S, NEW q \in [Channel -> Seq(S)], NEW c \in 0..MaxChannel, NEW ms \in Seq(S)
    PROVE  Delivered(q, c, ms) \in [Channel -> Seq(S)]
<1>1. CASE c = 0
  BY <1>1 DEF Delivered
<1>2. CASE c # 0
  <2>1. c \in Channel
    BY <1>2, FileAssumption DEF Channel
  <2> QED
    BY <2>1, QueueGrows DEF Delivered
<1> QED
  BY <1>1, <1>2

\* The first message of a channel is one of its messages, and the others stay.
LEMMA QueueShrinks ==
    ASSUME NEW S, NEW q \in [Channel -> Seq(S)], NEW c \in Channel, q[c] # <<>>
    PROVE  /\ Head(q[c]) \in S
           /\ [q EXCEPT ![c] = Tail(@)] \in [Channel -> Seq(S)]
<1>1. Head(q[c]) \in S /\ Tail(q[c]) \in Seq(S)
  BY HeadTailProperties
<1> QED
  BY <1>1

\* A channel that ends loses what is under way.
LEMMA QueueEnds ==
    ASSUME NEW S, NEW q \in [Channel -> Seq(S)], NEW c \in Channel
    PROVE  [q EXCEPT ![c] = <<>>] \in [Channel -> Seq(S)]
<1>1. <<>> \in Seq(S)
  BY EmptySeq
<1> QED
  BY <1>1

\* What is true of the uploads that are stored stays true when more are.
LEMMA StoredStays ==
    ASSUME incoming \subseteq incoming', toViewer \in [Channel -> Seq(ToViewer)]
    PROVE  ToViewer \subseteq ToViewer' /\ toViewer \in [Channel -> Seq(ToViewer')]
<1>1. ToViewer \subseteq ToViewer'
  BY DEF ToViewer, Stored
<1>2. Seq(ToViewer) \subseteq Seq(ToViewer')
  <2> SUFFICES ASSUME NEW s \in Seq(ToViewer) PROVE s \in Seq(ToViewer')
    OBVIOUS
  <2> QED
    BY <1>1, SeqDef
<1> QED
  BY <1>1, <1>2

-----------------------------------------------------------------------------
(* Ends *)

\* The ends of the channels keep their types.
LEMMA EndStep ==
    ASSUME EndType, [Next]_vars
    PROVE  EndType'
<1> USE Sizes DEF EndType
<1>1. ASSUME UNCHANGED endVars PROVE EndType'
  BY <1>1 DEF endVars
<1>2. ASSUME NEW c \in Channel, CreateChannel(c) PROVE EndType'
  BY <1>2 DEF CreateChannel, Channel
<1>3. ASSUME NEW c \in Channel, ChannelOpens(c) PROVE EndType'
  BY <1>3 DEF ChannelOpens
<1>4. ASSUME NEW c, ClosePeer(c) PROVE EndType'
  BY <1>4 DEF ClosePeer
<1>5. ASSUME NEW c \in Channel, AttachFileChannel(c) PROVE EndType'
  <2>1. aChannel' \in 0..MaxChannel /\ UNCHANGED <<fileChannel, vEnd>>
    BY <1>5 DEF AttachFileChannel, Channel
  <2>2. stalled' \in BOOLEAN
    BY <1>5 DEF AttachFileChannel
  <2>3. aEnd' \in [Channel -> {"none", "answering", "open", "dead", "closing", "closed"}]
    BY <1>5 DEF AttachFileChannel
  <2> QED
    BY <2>1, <2>2, <2>3
<1>6. ASSUME NEW c \in Channel, EndCloses(c) PROVE EndType'
  BY <1>6 DEF EndCloses
<1>7. ASSUME NEW c \in Channel, OnClose(c) PROVE EndType'
  BY <1>7 DEF OnClose
<1>8. ASSUME NEW c \in Channel, DiskFails(c) PROVE EndType'
  BY <1>8 DEF DiskFails
<1>9. CASE ClosePeerResources
  <2>1. fileChannel' = 0 /\ vEnd' = [vEnd EXCEPT ![fileChannel] = "closed"]
    BY <1>9 DEF ClosePeerResources
  <2>2. UNCHANGED <<aChannel, aEnd, stalled>>
    BY <1>9 DEF ClosePeerResources
  <2>3. fileChannel' \in 0..MaxChannel
    BY <2>1
  <2>4. vEnd' \in [Channel -> {"none", "connecting", "open", "closed"}]
    BY <2>1
  <2> QED
    BY <2>2, <2>3, <2>4
<1>10. ASSUME NEW c \in Channel, OnFileMessage(c) PROVE EndType'
  BY <1>1, <1>10 DEF OnFileMessage
<1>11. ASSUME NEW u \in Upload,
              SendFile(u) \/ Offer(u) \/ PrepareFails(u) \/ StreamChunk(u) \/ UploadTimeout(u)
       PROVE  EndType'
  BY <1>1, <1>11 DEF SendFile, Offer, PrepareFails, StreamChunk, UploadTimeout
<1>12. ASSUME NEW d \in Download, DownloadFile(d) PROVE EndType'
  BY <1>1, <1>12 DEF DownloadFile
<1>13. CASE ViewerMessage \/ RunDownload \/ ContinueDownload
  BY <1>1, <1>13 DEF ViewerMessage, RunDownload, ContinueDownload
<1>14. ASSUME NEW v \in verifying, FinishDownload(v) PROVE EndType'
  BY <1>1, <1>14 DEF FinishDownload
<1>15. CASE UNCHANGED vars
  BY <1>1, <1>15 DEF vars
<1> QED
  BY <1>2, <1>3, <1>4, <1>5, <1>6, <1>7, <1>8, <1>9, <1>10, <1>11, <1>12, <1>13, <1>14, <1>15
     DEF Next

-----------------------------------------------------------------------------
(* Steps by what they leave alone *)

Connection(c) == CreateChannel(c) \/ ChannelOpens(c) \/ AttachFileChannel(c) \/ EndCloses(c)
UploadStep(u) == SendFile(u) \/ Offer(u) \/ PrepareFails(u) \/ StreamChunk(u) \/ UploadTimeout(u)
DownloadStep == RunDownload \/ ContinueDownload

\* A channel that comes or goes changes nothing else.
LEMMA ConnectionFrame ==
    ASSUME NEW c, Connection(c)
    PROVE  UNCHANGED <<runVars, showVars, diskVars, loadVars, toAgent, toViewer>>
  BY DEF Connection, CreateChannel, ChannelOpens, AttachFileChannel, EndCloses

\* An upload's own steps change only it and what it sends.
LEMMA UploadFrame ==
    ASSUME NEW u, UploadStep(u)
    PROVE  UNCHANGED <<showVars, diskVars, loadVars, endVars, toViewer>>
  BY DEF UploadStep, SendFile, Offer, PrepareFails, StreamChunk, UploadTimeout

\* The agent's coroutine changes only its download and what it sends.
LEMMA DownloadFrame ==
    ASSUME DownloadStep
    PROVE  UNCHANGED <<runVars, showVars, diskVars, endVars, toAgent>>
  BY DEF DownloadStep, RunDownload, ContinueDownload

\* The steps there are.
LEMMA NextCases ==
    ASSUME [Next]_vars
    PROVE  \/ \E c \in Channel : Connection(c) \/ OnClose(c) \/ OnFileMessage(c) \/ DiskFails(c)
           \/ \E c \in 0..MaxChannel : ClosePeer(c)
           \/ ClosePeerResources \/ ViewerMessage \/ DownloadStep
           \/ \E u \in Upload : UploadStep(u)
           \/ \E d \in Download : DownloadFile(d)
           \/ \E v \in verifying : FinishDownload(v)
           \/ UNCHANGED vars
<1>1. Channel \subseteq 0..MaxChannel /\ 0 \in 0..MaxChannel
  BY FileAssumption DEF Channel
<1> QED
  BY <1>1 DEF Next, Connection, UploadStep, DownloadStep

-----------------------------------------------------------------------------
(* The agent's disk *)

\* Nothing is left behind, whichever event ends an upload.
DiskInv == DiskType /\ NoLeftovers /\ ReceiverHasChannel

\* An upload that ends takes its .part file with it.
LEMMA ResetStep ==
    ASSUME DiskInv, ResetFileTransfer
    PROVE  DiskInv'
  BY DEF ResetFileTransfer, DiskInv, DiskType, NoLeftovers, ReceiverHasChannel

\* A chunk is appended to the receiver's bytes.
LEMMA ChunkStep ==
    ASSUME DiskInv, receiver # None, NEW m \in ToAgent, m.type = "chunk",
           Len(receiver.got) # Chunks, receiver' = [receiver EXCEPT !.got = Append(@, <<m.id, m.n>>)],
           UNCHANGED part, ReceiverHasChannel'
    PROVE  DiskInv'
<1>1. m.id \in Upload /\ m.n \in 1..Chunks
  BY DEF ToAgent
<1>2. receiver \in Receiver /\ Len(receiver.got) <= Chunks
  BY DEF DiskInv, DiskType
<1>3. receiver.got \in Bytes /\ Len(receiver.got) \in Nat
  BY <1>2 DEF Receiver, Bytes
<1>4. Append(receiver.got, <<m.id, m.n>>) \in Bytes
  BY <1>1, <1>3 DEF Bytes
<1>5. Len(Append(receiver.got, <<m.id, m.n>>)) = Len(receiver.got) + 1
  BY <1>3 DEF Bytes
<1>6. Len(receiver.got) + 1 <= Chunks
  BY <1>2, <1>3, FileAssumption
<1>7. receiver' \in Receiver /\ receiver'.got = Append(receiver.got, <<m.id, m.n>>) /\ receiver'.id = receiver.id
  BY <1>2, <1>4 DEF Receiver
<1>8. DiskType'
  BY <1>5, <1>6, <1>7 DEF DiskInv, DiskType
<1>9. NoLeftovers'
  BY <1>7, RecordAssumption DEF DiskInv, NoLeftovers
<1> QED
  BY <1>8, <1>9 DEF DiskInv

\* _on_file_message() keeps it.
LEMMA DiskMessage ==
    ASSUME DiskInv, QueueType, NEW c \in Channel, OnFileMessage(c)
    PROVE  DiskInv'
<1> DEFINE m == Head(toAgent[c])
<1>1. m \in ToAgent /\ aEnd[c] = "open" /\ UNCHANGED aEnd
  BY QueueShrinks DEF OnFileMessage, QueueType, endVars
<1>2. \/ m.type = "file.offer" /\ OnFileOffer(m, c)
      \/ m.type = "chunk" /\ OnFileChunk(m)
      \/ m.type = "file.complete" /\ OnFileComplete(m)
      \/ UNCHANGED diskVars
  BY DEF OnFileMessage
<1> HIDE DEF m
<1>3. ASSUME UNCHANGED diskVars PROVE DiskInv'
  BY <1>1, <1>3 DEF diskVars, DiskInv, DiskType, NoLeftovers, ReceiverHasChannel
<1>4. CASE m.type = "file.offer" /\ OnFileOffer(m, c)
  <2>1. CASE UNCHANGED diskVars
    BY <1>3, <2>1
  <2>2. CASE /\ receiver = None /\ part' = part \union {m.id}
             /\ receiver' = [id |-> m.id, ch |-> c, got |-> <<>>, handle |-> TRUE]
    <3>1. m.id \in Upload /\ <<>> \in Bytes
      BY <1>1, <1>4, EmptySeq DEF ToAgent, Bytes
    <3>2. receiver' \in Receiver
      BY <2>2, <3>1, Zenon DEF Receiver
    <3>3. receiver' # None /\ receiver'.id = m.id /\ receiver'.ch = c /\ receiver'.got = <<>>
      BY <2>2, <3>2, RecordAssumption
    <3>4. part = {}
      BY <2>2 DEF DiskInv, NoLeftovers
    <3>5. DiskType'
      <4>1. Len(receiver'.got) <= Chunks
        BY <3>3, Sizes
      <4> QED
        BY <2>2, <3>1, <3>2, <4>1 DEF DiskInv, DiskType
    <3>6. NoLeftovers' /\ ReceiverHasChannel'
      BY <1>1, <2>2, <3>3, <3>4 DEF NoLeftovers, ReceiverHasChannel
    <3> QED
      BY <3>5, <3>6 DEF DiskInv
  <2> QED
    BY <1>4, <2>1, <2>2 DEF OnFileOffer
<1>5. CASE m.type = "chunk" /\ OnFileChunk(m)
  <2>1. CASE UNCHANGED diskVars
    BY <1>3, <2>1
  <2>2. CASE ResetFileTransfer
    BY <2>2, ResetStep
  <2>3. CASE /\ receiver # None /\ Len(receiver.got) # Chunks /\ UNCHANGED part
             /\ receiver' = [receiver EXCEPT !.got = Append(@, <<m.id, m.n>>)]
    <3>1. ReceiverHasChannel'
      BY <1>1, <2>3 DEF DiskInv, DiskType, Receiver, ReceiverHasChannel
    <3> QED
      BY <1>1, <1>5, <2>3, <3>1, ChunkStep
  <2> QED
    BY <1>5, <2>1, <2>2, <2>3 DEF OnFileChunk, FailFileTransfer, diskVars
<1>6. CASE m.type = "file.complete" /\ OnFileComplete(m)
  <2>1. CASE UNCHANGED diskVars
    BY <1>3, <2>1
  <2>2. CASE ResetFileTransfer
    BY <2>2, ResetStep
  <2>3. CASE receiver # None /\ m.id = receiver.id /\ part' = part \ {m.id} /\ receiver' = None
    BY <2>3 DEF DiskInv, DiskType, NoLeftovers, ReceiverHasChannel
  <2> QED
    BY <1>6, <2>1, <2>2, <2>3 DEF OnFileComplete, FailFileTransfer, diskVars
<1> QED
  BY <1>2, <1>3, <1>4, <1>5, <1>6

\* Every step keeps it.
LEMMA DiskStep ==
    ASSUME EndType, DiskInv, QueueType, [Next]_vars
    PROVE  DiskInv'
<1>1. ASSUME UNCHANGED diskVars,
             \A c \in Channel : aEnd[c] \in {"open", "dead", "closing"} =>
                                aEnd'[c] \in {"open", "dead", "closing"}
      PROVE  DiskInv'
  BY <1>1 DEF diskVars, DiskInv, DiskType, NoLeftovers, ReceiverHasChannel, Receiver
<1>2. ASSUME UNCHANGED <<diskVars, endVars>> PROVE DiskInv'
  BY <1>1, <1>2 DEF endVars
<1>3. ASSUME NEW c \in Channel, Connection(c) PROVE DiskInv'
  <2>1. \A b \in Channel : aEnd[b] \in {"open", "dead", "closing"} =>
                           aEnd'[b] \in {"open", "dead", "closing"}
    BY <1>3 DEF Connection, CreateChannel, ChannelOpens, AttachFileChannel, EndCloses, EndType
  <2> QED
    BY <1>1, <1>3, <2>1, ConnectionFrame
<1>4. ASSUME NEW c \in 0..MaxChannel, ClosePeer(c) PROVE DiskInv'
  BY <1>4, ResetStep DEF ClosePeer
<1>5. ASSUME NEW c \in Channel, OnClose(c) PROVE DiskInv'
  BY <1>5, ResetStep DEF OnClose
<1>6. ASSUME NEW c \in Channel, OnFileMessage(c) PROVE DiskInv'
  BY <1>6, DiskMessage
<1>7. ASSUME NEW c \in Channel, DiskFails(c) PROVE DiskInv'
  <2> DEFINE m == Head(toAgent[c])
  <2>1. m \in ToAgent
    BY <1>7, QueueShrinks DEF DiskFails, QueueType
  <2>2. /\ aEnd[c] = "open" /\ aEnd' = [aEnd EXCEPT ![c] = "dead"] /\ UNCHANGED <<part, incoming>>
        /\ \/ UNCHANGED receiver
           \/ /\ m.type = "chunk" /\ receiver # None /\ Len(receiver.got) < Chunks
              /\ receiver' = [receiver EXCEPT !.got = Append(@, <<m.id, m.n>>)]
           \/ receiver # None /\ receiver' = [receiver EXCEPT !.handle = FALSE]
    BY <1>7 DEF DiskFails
  <2> HIDE DEF m
  <2>3. \A b \in Channel : aEnd[b] \in {"open", "dead", "closing"} =>
                           aEnd'[b] \in {"open", "dead", "closing"}
    BY <2>2 DEF EndType
  <2>4. CASE UNCHANGED receiver
    BY <1>1, <2>2, <2>3, <2>4 DEF diskVars
  <2>5. CASE /\ m.type = "chunk" /\ receiver # None /\ Len(receiver.got) < Chunks
             /\ receiver' = [receiver EXCEPT !.got = Append(@, <<m.id, m.n>>)]
    <3>1. receiver \in Receiver /\ receiver'.ch = receiver.ch
      BY <2>5 DEF DiskInv, DiskType, Receiver
    <3>2. ReceiverHasChannel'
      BY <2>3, <2>5, <3>1 DEF DiskInv, ReceiverHasChannel, Receiver
    <3>3. Len(receiver.got) # Chunks
      BY <2>5, <3>1, Sizes DEF Receiver, Bytes
    <3> QED
      BY <2>1, <2>2, <2>5, <3>2, <3>3, ChunkStep
  <2>6. CASE receiver # None /\ receiver' = [receiver EXCEPT !.handle = FALSE]
    <3>1. receiver \in Receiver /\ Len(receiver.got) <= Chunks
      BY <2>6 DEF DiskInv, DiskType
    <3>2. /\ receiver' \in Receiver
          /\ receiver'.ch = receiver.ch /\ receiver'.id = receiver.id /\ receiver'.got = receiver.got
      BY <2>6, <3>1 DEF Receiver
    <3>3. DiskType'
      BY <2>2, <3>1, <3>2 DEF DiskInv, DiskType
    <3>4. NoLeftovers' /\ ReceiverHasChannel'
      BY <2>2, <2>3, <2>6, <3>1, <3>2, RecordAssumption
         DEF DiskInv, NoLeftovers, ReceiverHasChannel, Receiver
    <3> QED
      BY <3>3, <3>4 DEF DiskInv
  <2> QED
    BY <2>2, <2>4, <2>5, <2>6
<1>8. CASE ClosePeerResources
  BY <1>1, <1>8 DEF ClosePeerResources
<1>9. CASE ViewerMessage
  BY <1>2, <1>9 DEF ViewerMessage
<1>10. CASE DownloadStep
  BY <1>2, <1>10, DownloadFrame
<1>11. ASSUME NEW u \in Upload, UploadStep(u) PROVE DiskInv'
  BY <1>2, <1>11, UploadFrame
<1>12. ASSUME NEW d \in Download, DownloadFile(d) PROVE DiskInv'
  BY <1>2, <1>12 DEF DownloadFile
<1>13. ASSUME NEW v \in verifying, FinishDownload(v) PROVE DiskInv'
  BY <1>2, <1>13 DEF FinishDownload
<1>14. CASE UNCHANGED vars
  BY <1>2, <1>14 DEF vars
<1> QED
  BY <1>3, <1>4, <1>5, <1>6, <1>7, <1>8, <1>9, <1>10, <1>11, <1>12, <1>13, <1>14, NextCases

-----------------------------------------------------------------------------
(* The agent's download *)

\* The slot is taken for a channel that lives, and freed with it.
LoadInv == LoadType /\ SlotHeld

\* One turn of _run_download()'s loop frees the slot or leaves it.
LEMMA TurnLoad ==
    ASSUME LoadInv, NEW d \in Download, NEW ch \in 0..MaxChannel, NEW pos \in 0..Chunks,
           NEW before, DownloadTurn(d, ch, pos, before), UNCHANGED aEnd
    PROVE  LoadInv'
<1>1. CASE task' = None /\ UNCHANGED <<downloadId, asked>>
  BY <1>1 DEF LoadInv, LoadType, SlotHeld
<1>2. CASE pos < Chunks /\ task' = [id |-> d, ch |-> ch, pos |-> pos + 1] /\ UNCHANGED <<downloadId, asked>>
  <2>1. pos + 1 \in 0..Chunks
    BY <1>2, Sizes
  <2>2. task' \in Task
    BY <1>2, <2>1 DEF Task
  <2> QED
    BY <1>2, <2>2 DEF LoadInv, LoadType, SlotHeld
<1>3. CASE task' = None /\ downloadId' = None /\ asked' = 0
  BY <1>3, Sizes DEF LoadInv, LoadType, SlotHeld
<1> QED
  BY <1>1, <1>2, <1>3 DEF DownloadTurn

\* Every step keeps it.
LEMMA LoadStep ==
    ASSUME EndType, LoadInv, QueueType, [Next]_vars
    PROVE  LoadInv'
<1>1. ASSUME UNCHANGED loadVars,
             \A c \in Channel : aEnd[c] \in {"open", "dead", "closing"} =>
                                aEnd'[c] \in {"open", "dead", "closing"}
      PROVE  LoadInv'
  BY <1>1 DEF loadVars, LoadInv, LoadType, SlotHeld
<1>2. ASSUME UNCHANGED <<loadVars, endVars>> PROVE LoadInv'
  BY <1>1, <1>2 DEF endVars
<1>3. ASSUME NEW c \in Channel, Connection(c) PROVE LoadInv'
  <2>1. \A b \in Channel : aEnd[b] \in {"open", "dead", "closing"} =>
                           aEnd'[b] \in {"open", "dead", "closing"}
    BY <1>3 DEF Connection, CreateChannel, ChannelOpens, AttachFileChannel, EndCloses, EndType
  <2> QED
    BY <1>1, <1>3, <2>1, ConnectionFrame
<1>4. ASSUME NEW c \in 0..MaxChannel, ClosePeer(c) PROVE LoadInv'
  <2>1. \A b \in Channel : aEnd[b] \in {"open", "dead", "closing"} =>
                           aEnd'[b] \in {"open", "dead", "closing"}
    BY <1>4 DEF ClosePeer, Channel, EndType
  <2> QED
    BY <1>1, <1>4, <2>1 DEF ClosePeer
<1>freed. ASSUME task' = None, downloadId' = None, asked' = 0 PROVE LoadInv'
  BY <1>freed, Sizes DEF LoadInv, LoadType, SlotHeld
<1>5. ASSUME NEW c \in Channel, OnClose(c) PROVE LoadInv'
  BY <1>5, <1>freed DEF OnClose, CancelDownload
<1>6. ASSUME NEW c \in Channel, OnFileMessage(c) PROVE LoadInv'
  <2> DEFINE m == Head(toAgent[c])
  <2>1. m \in ToAgent /\ aEnd[c] = "open" /\ UNCHANGED aEnd
    BY <1>6, QueueShrinks DEF OnFileMessage, QueueType, endVars
  <2>2. UNCHANGED loadVars \/ (m.type = "file.download" /\ OnFileDownload(m, c))
    BY <1>6 DEF OnFileMessage
  <2> HIDE DEF m
  <2>3. CASE UNCHANGED loadVars
    BY <1>1, <2>1, <2>3
  <2>4. CASE /\ m.type = "file.download" /\ downloadId' = m.id /\ asked' = c
             /\ task' = [id |-> m.id, ch |-> 0, pos |-> 0]
    <3>1. m.id \in Download
      BY <2>1, <2>4 DEF ToAgent
    <3>2. task' \in Task
      BY <2>4, <3>1, Sizes DEF Task
    <3> QED
      BY <2>1, <2>4, <3>1, <3>2, Sizes DEF LoadInv, LoadType, SlotHeld
  <2> QED
    BY <2>2, <2>3, <2>4 DEF OnFileDownload
<1>7. ASSUME NEW c \in Channel, DiskFails(c) PROVE LoadInv'
  <2>1. \A b \in Channel : aEnd[b] \in {"open", "dead", "closing"} =>
                           aEnd'[b] \in {"open", "dead", "closing"}
    BY <1>7 DEF DiskFails, EndType
  <2> QED
    BY <1>1, <1>7, <2>1 DEF DiskFails
<1>8. CASE ClosePeerResources
  BY <1>1, <1>8 DEF ClosePeerResources
<1>9. CASE ViewerMessage
  BY <1>2, <1>9 DEF ViewerMessage
<1>10. CASE DownloadStep
  <2>1. task \in Task /\ UNCHANGED aEnd
    BY <1>10 DEF DownloadStep, RunDownload, ContinueDownload, LoadInv, LoadType, endVars
  <2>2. task.id \in Download /\ task.ch \in 0..MaxChannel /\ task.pos \in 0..Chunks
    BY <2>1 DEF Task
  <2>3. ASSUME NEW before, DownloadTurn(task.id, aChannel, 0, before) PROVE LoadInv'
    BY <2>1, <2>2, <2>3, TurnLoad, Sizes DEF EndType
  <2>4. ASSUME NEW before, DownloadTurn(task.id, task.ch, task.pos, before) PROVE LoadInv'
    BY <2>1, <2>2, <2>4, TurnLoad
  <2> QED
    BY <1>10, <1>freed, <2>3, <2>4 DEF DownloadStep, RunDownload, ContinueDownload
<1>11. ASSUME NEW u \in Upload, UploadStep(u) PROVE LoadInv'
  BY <1>2, <1>11, UploadFrame
<1>12. ASSUME NEW d \in Download, DownloadFile(d) PROVE LoadInv'
  BY <1>2, <1>12 DEF DownloadFile
<1>13. ASSUME NEW v \in verifying, FinishDownload(v) PROVE LoadInv'
  BY <1>2, <1>13 DEF FinishDownload
<1>14. CASE UNCHANGED vars
  BY <1>2, <1>14 DEF vars
<1> QED
  BY <1>3, <1>4, <1>5, <1>6, <1>7, <1>8, <1>9, <1>10, <1>11, <1>12, <1>13, <1>14, NextCases

-----------------------------------------------------------------------------
(* The files in Incoming *)

\* A set of naturals has a least one.
LEMMA LeastNatural ==
    ASSUME NEW S, S \subseteq Nat, S # {}
    PROVE  \E x \in S : \A y \in S : x <= y
<1> DEFINE R == OpToRel(<, Nat)
<1>1. IsWellFoundedOn(R, Nat)
  BY NatLessThanWellFounded
<1>2. \A x, y \in Nat : <<y, x>> \in R <=> y < x
  BY DEF OpToRel
<1> HIDE DEF R
<1>3. PICK x \in S : \A y \in S : ~(<<y, x>> \in R)
  BY <1>1, WFMin
<1>4. \A y \in S : ~(y < x)
  BY <1>2, <1>3
<1> QED
  BY <1>4

\* _unique_destination() finds a free index: the uploads are fewer than the indices it
\* looks at, and each of them has one file at most.
LEMMA IndexIsFree ==
    ASSUME IncomingOK, NEW name
    PROVE  /\ UniqueIndex(name) \in 0..Cardinality(Upload)
           /\ \A f \in incoming : f.dest # <<name, UniqueIndex(name)>>
<1> DEFINE N == Cardinality(Upload)
           Used(i) == \E f \in incoming : f.dest = <<name, i>>
           Free == {i \in 0..N : ~Used(i)}
<1>1. IsFiniteSet(Upload) /\ N \in Nat
  BY FileAssumption, FS_CardinalityType
<1>2. IsFiniteSet(0..N) /\ Cardinality(0..N) = N + 1
  BY <1>1, FS_Interval
<1>3. Free # {}
  <2> SUFFICES ASSUME \A i \in 0..N : Used(i) PROVE FALSE
    OBVIOUS
  <2> DEFINE file(i) == CHOOSE f \in incoming : f.dest = <<name, i>>
             h == [i \in 0..N |-> file(i).id]
  <2>1. \A i \in 0..N : file(i) \in incoming /\ file(i).dest = <<name, i>>
    OBVIOUS
  <2> HIDE DEF file
  <2>2. h \in [0..N -> Upload]
    BY <2>1 DEF IncomingOK
  <2>3. Cardinality(Upload) < Cardinality(0..N)
    BY <1>1, <1>2
  <2>4. PICK x, y \in 0..N : x # y /\ file(x).id = file(y).id
    <3> HIDE DEF h, N
    <3>1. \E x, y \in 0..N : x # y /\ h[x] = h[y]
      BY <1>1, <1>2, <2>2, <2>3, FS_PigeonHole
    <3> QED
      BY <3>1 DEF h
  <2>5. file(x).id = file(y).id
    BY <2>4
  <2>6. file(x) = file(y)
    BY <2>1, <2>5 DEF IncomingOK
  <2>7. <<name, x>> = <<name, y>>
    BY <2>1, <2>6
  <2> QED
    BY <2>4, <2>7
<1>4. PICK i \in Free : \A j \in Free : i <= j
  <2>1. Free \subseteq Nat
    BY <1>1
  <2> HIDE DEF Free
  <2> QED
    BY <1>3, <2>1, LeastNatural
<1>5. ASSUME NEW j \in 0..(i - 1) PROVE Used(j)
  <2>1. j \in 0..N /\ ~(i <= j)
    BY <1>1
  <2> HIDE DEF Used
  <2> QED
    BY <1>4, <2>1
<1>6. /\ i \in 0..N /\ \A f \in incoming : f.dest # <<name, i>>
      /\ \A j \in 0..(i - 1) : \E f \in incoming : f.dest = <<name, j>>
  BY <1>4, <1>5
<1> QED
  BY <1>6 DEF UniqueIndex

\* Only finish() adds a file, whole, beside the others and for the receiver's upload.
NewFile ==
    /\ receiver # None /\ receiver' = None
    /\ \E d \in Name \X (0..Cardinality(Upload)) :
         /\ \A f \in incoming : f.dest # d
         /\ incoming' = incoming \union
                {[dest |-> d, id |-> receiver.id, bytes |-> Content(receiver.id)]}

\* So it does.
LEMMA CompleteAdds ==
    ASSUME DiskType, IncomingOK, NEW m, OnFileComplete(m)
    PROVE  UNCHANGED incoming \/ NewFile
<1>1. CASE UNCHANGED incoming
  BY <1>1
<1>2. CASE incoming' # incoming
  <2>1. /\ receiver # None /\ m.id = receiver.id /\ Verified(receiver) /\ receiver' = None
        /\ incoming' = {f \in incoming : f.dest # <<NameOf(m.id), UniqueIndex(NameOf(m.id))>>}
                \union {[dest |-> <<NameOf(m.id), UniqueIndex(NameOf(m.id))>>,
                         id |-> m.id, bytes |-> receiver.got]}
    BY <1>2 DEF OnFileComplete, FailFileTransfer, diskVars
  <2>2. m.id \in Upload /\ NameOf(m.id) \in Name
    <3>1. receiver.id \in Upload
      BY <2>1 DEF DiskType, Receiver
    <3> QED
      BY <2>1, <3>1, FileAssumption
  <2>d. PICK d : d = <<NameOf(m.id), UniqueIndex(NameOf(m.id))>>
    OBVIOUS
  <2>3. d \in Name \X (0..Cardinality(Upload)) /\ \A f \in incoming : f.dest # d
    BY <2>d, <2>2, IndexIsFree
  <2>4. receiver.got = Content(receiver.id)
    BY <2>1 DEF Verified
  <2>5. incoming' = incoming \union {[dest |-> d, id |-> receiver.id, bytes |-> Content(receiver.id)]}
    BY <2>1, <2>d, <2>3, <2>4
  <2> QED
    BY <2>1, <2>3, <2>5 DEF NewFile
<1> QED
  BY <1>1, <1>2

\* Every other step leaves Incoming alone.
LEMMA IncomingMoves ==
    ASSUME DiskType, IncomingOK, [Next]_vars
    PROVE  UNCHANGED incoming \/ NewFile
<1>1. ASSUME NEW c \in Channel, OnFileMessage(c) PROVE UNCHANGED incoming \/ NewFile
  <2> DEFINE m == Head(toAgent[c])
  <2>1. UNCHANGED incoming \/ OnFileComplete(m)
    BY <1>1 DEF OnFileMessage, OnFileOffer, OnFileChunk, FailFileTransfer, diskVars
  <2> HIDE DEF m
  <2> QED
    BY <2>1, CompleteAdds
<1>2. ASSUME NEW c \in Channel, Connection(c) PROVE UNCHANGED incoming
  BY <1>2, ConnectionFrame DEF diskVars
<1>3. ASSUME NEW c \in 0..MaxChannel, ClosePeer(c) PROVE UNCHANGED incoming
  BY <1>3 DEF ClosePeer
<1>4. ASSUME NEW c \in Channel, OnClose(c) \/ DiskFails(c) PROVE UNCHANGED incoming
  BY <1>4 DEF OnClose, DiskFails
<1>5. CASE ClosePeerResources \/ ViewerMessage
  BY <1>5 DEF ClosePeerResources, ViewerMessage, diskVars
<1>6. CASE DownloadStep
  BY <1>6, DownloadFrame DEF diskVars
<1>7. ASSUME NEW u \in Upload, UploadStep(u) PROVE UNCHANGED incoming
  BY <1>7, UploadFrame DEF diskVars
<1>8. ASSUME NEW d \in Download, DownloadFile(d) PROVE UNCHANGED incoming
  BY <1>8 DEF DownloadFile, diskVars
<1>9. ASSUME NEW v \in verifying, FinishDownload(v) PROVE UNCHANGED incoming
  BY <1>9 DEF FinishDownload, diskVars
<1>10. CASE UNCHANGED vars
  BY <1>10 DEF vars, diskVars
<1> QED
  BY <1>1, <1>2, <1>3, <1>4, <1>5, <1>6, <1>7, <1>8, <1>9, <1>10, NextCases

\* An upload that was not stored yet gets its file.
LEMMA IncomingStep ==
    ASSUME DiskType, IncomingOK, OffersOnce, [Next]_vars
    PROVE  IncomingOK' /\ incoming \subseteq incoming'
<1>1. CASE UNCHANGED incoming
  BY <1>1 DEF IncomingOK
<1>2. CASE NewFile
  <2>1. receiver.id \in Upload /\ ~Stored(receiver.id)
    BY <1>2 DEF NewFile, DiskType, Receiver, OffersOnce
  <2>2. PICK n : n.id = receiver.id /\ incoming' = incoming \union {n}
    BY <1>2 DEF NewFile
  <2> QED
    BY <2>1, <2>2 DEF IncomingOK, Stored
<1> QED
  BY <1>1, <1>2, IncomingMoves

-----------------------------------------------------------------------------
(* The viewer's uploads *)

RunInv == RunType /\ SentOK

\* An upload that is waiting for an answer moves on by it.
Answer(u) ==
    /\ fileUpload' \in {fileUpload, None}
    /\ \/ phase[u] = "offered" /\ phase' = [phase EXCEPT ![u] = "sending"]
       \/ phase[u] = "verifying" /\ Stored(u) /\ phase' = [phase EXCEPT ![u] = "done"]
       \/ phase[u] \in {"offered", "verifying"} /\ phase' = [phase EXCEPT ![u] = "error"]

\* handleFileMessage() does nothing else to the uploads.
LEMMA AnswerMoves ==
    ASSUME EndType, RunType, QueueType, ViewerMessage
    PROVE  UNCHANGED <<fileUpload, phase>> \/ \E u \in Upload : Answer(u)
<1> DEFINE m == Head(toViewer[fileChannel])
<1>1. fileChannel \in Channel
  BY Sizes DEF ViewerMessage, EndType, Channel
<1>2. m \in ToViewer
  BY <1>1, QueueShrinks DEF ViewerMessage, QueueType
<1>3. UNCHANGED <<fileUpload, phase>> \/ UploadAnswered(m)
  BY DEF ViewerMessage
<1> HIDE DEF m
<1>4. CASE UploadAnswered(m) /\ m.id = fileUpload
  <2>1. m.id \in Upload
    <3>1. m.id \in Upload \union Download
      BY <1>2 DEF ToViewer
    <3>2. None \notin Upload \union Download
      BY FileAssumption
    <3> QED
      BY <1>4, <3>1, <3>2 DEF RunType
  <2>2. m.type = "file.done" => Stored(m.id)
    BY <1>2 DEF ToViewer
  <2> QED
    BY <1>4, <2>1, <2>2 DEF UploadAnswered, Ends, Answer
<1> QED
  BY <1>3, <1>4 DEF UploadAnswered

\* Every step keeps the uploads' types and counts.
LEMMA RunStep ==
    ASSUME EndType, RunInv, QueueType, [Next]_vars
    PROVE  RunInv'
<1> USE Sizes DEF RunInv, RunType, SentOK, Phases
<1>1. ASSUME UNCHANGED runVars PROVE RunInv'
  BY <1>1 DEF runVars
<1>2. ASSUME NEW u \in Upload, SendFile(u) PROVE RunInv'
  <2>1. phase[u] = "idle"
    BY <1>2 DEF SendFile, Fresh, Started
  <2>2. /\ fileUpload' = u /\ phase' = [phase EXCEPT ![u] = "preparing"]
        /\ via' = [via EXCEPT ![u] = fileChannel] /\ UNCHANGED sent
    BY <1>2 DEF SendFile
  <2> QED
    BY <2>1, <2>2 DEF EndType
<1>3. ASSUME NEW u \in Upload, Offer(u) PROVE RunInv'
  BY <1>3 DEF Offer
<1>4. ASSUME NEW u \in Upload, PrepareFails(u) \/ UploadTimeout(u) PROVE RunInv'
  BY <1>4 DEF PrepareFails, UploadTimeout, Ends
<1>5. ASSUME NEW u \in Upload, StreamChunk(u) PROVE RunInv'
  <2>1. phase[u] = "sending" /\ sent[u] < Chunks /\ sent[u] \in Nat /\ UNCHANGED via
    BY <1>5 DEF StreamChunk
  <2>2. CASE Ends(u, "error") /\ UNCHANGED sent
    BY <2>1, <2>2 DEF Ends
  <2>3. CASE /\ sent' = [sent EXCEPT ![u] = sent[u] + 1] /\ UNCHANGED fileUpload
             /\ phase' = [phase EXCEPT ![u] = IF sent[u] + 1 = Chunks THEN "verifying" ELSE @]
    BY <2>1, <2>3
  <2> QED
    BY <1>5, <2>2, <2>3 DEF StreamChunk
<1>6. CASE ClosePeerResources
  <2>1. fileUpload' = None /\ UNCHANGED <<via, sent>>
    BY <1>6 DEF ClosePeerResources
  <2>2. UNCHANGED phase \/ (fileUpload \in Upload /\ phase' = Rejected(fileUpload))
    BY <1>6 DEF ClosePeerResources
  <2> QED
    BY <2>1, <2>2 DEF Rejected
<1>7. CASE ViewerMessage
  <2>1. UNCHANGED <<via, sent>>
    BY <1>7 DEF ViewerMessage
  <2>2. UNCHANGED <<fileUpload, phase>> \/ \E u \in Upload : Answer(u)
    BY <1>7, AnswerMoves
  <2>3. ASSUME NEW u \in Upload, Answer(u) PROVE RunInv'
    BY <2>1, <2>3 DEF Answer
  <2> QED
    BY <2>1, <2>2, <2>3
<1>8. ASSUME NEW c \in Channel, Connection(c) PROVE RunInv'
  BY <1>1, <1>8, ConnectionFrame
<1>9. ASSUME NEW c \in Channel, OnClose(c) \/ OnFileMessage(c) \/ DiskFails(c) PROVE RunInv'
  BY <1>1, <1>9 DEF OnClose, OnFileMessage, DiskFails
<1>10. ASSUME NEW c \in 0..MaxChannel, ClosePeer(c) PROVE RunInv'
  BY <1>1, <1>10 DEF ClosePeer
<1>11. CASE DownloadStep
  BY <1>1, <1>11, DownloadFrame
<1>12. ASSUME NEW d \in Download, DownloadFile(d) PROVE RunInv'
  BY <1>1, <1>12 DEF DownloadFile
<1>13. ASSUME NEW v \in verifying, FinishDownload(v) PROVE RunInv'
  BY <1>1, <1>13 DEF FinishDownload
<1>14. CASE UNCHANGED vars
  BY <1>1, <1>14 DEF vars
<1> QED
  BY <1>2, <1>3, <1>4, <1>5, <1>6, <1>7, <1>8, <1>9, <1>10, <1>11, <1>12, <1>13, <1>14,
     NextCases DEF UploadStep

-----------------------------------------------------------------------------
(* Messages *)

\* What the viewer sends is sent as a whole or not at all.
LEMMA ViewerSendsType ==
    ASSUME EndType, QueueType, NEW ms \in Seq(ToAgent), ViewerSends(ms)
    PROVE  toAgent' \in [Channel -> Seq(ToAgent)]
<1>1. CASE UNCHANGED toAgent
  BY <1>1 DEF QueueType
<1>2. CASE fileChannel # 0 /\ toAgent' = [toAgent EXCEPT ![fileChannel] = @ \o ms]
  <2>1. fileChannel \in Channel
    BY <1>2, Sizes DEF EndType, Channel
  <2> QED
    BY <1>2, <2>1, QueueGrows DEF QueueType
<1> QED
  BY <1>1, <1>2 DEF ViewerSends, ViewerOpen

\* What the agent sends reaches the viewer or is lost.
LEMMA AgentSendsType ==
    ASSUME EndType, incoming \subseteq incoming', QueueType, NEW m \in ToViewer',
           AgentSends(<<m>>)
    PROVE  toViewer' \in [Channel -> Seq(ToViewer')]
<1>1. toViewer \in [Channel -> Seq(ToViewer')] /\ <<m>> \in Seq(ToViewer')
  BY StoredStays DEF QueueType
<1>2. aChannel \in 0..MaxChannel
  BY DEF EndType
<1> QED
  BY <1>1, <1>2, DeliveredType DEF AgentSends

\* An error can be about any transfer.
LEMMA ErrorType ==
    ASSUME NEW t \in Upload \union Download
    PROVE  [type |-> "file.error", id |-> t] \in ToViewer'
  BY DEF ToViewer

\* One turn of the coroutine sends what the viewer can be told.
LEMMA TurnSends ==
    ASSUME EndType, QueueType, UNCHANGED incoming, NEW d \in Download, NEW ch \in 0..MaxChannel,
           NEW pos \in 0..Chunks, NEW before \in Seq(ToViewer), DownloadTurn(d, ch, pos, before)
    PROVE  toViewer' \in [Channel -> Seq(ToViewer)]
<1> DEFINE q == Delivered(toViewer, aChannel, before)
<1>1. q \in [Channel -> Seq(ToViewer)]
  BY DeliveredType DEF EndType, QueueType
<1> HIDE DEF q
<1>2. CASE toViewer' = q
  BY <1>1, <1>2
<1>3. CASE pos < Chunks /\ toViewer' = Delivered(q, ch, <<[type |-> "chunk", id |-> d, n |-> pos + 1]>>)
  <2> DEFINE m == [type |-> "chunk", id |-> d, n |-> pos + 1]
  <2>1. pos + 1 \in 1..Chunks
    BY <1>3, Sizes
  <2>2. m \in [type : {"chunk"}, id : Download, n : 1..Chunks]
    BY <2>1
  <2>3. m \in ToViewer
    BY <2>2 DEF ToViewer
  <2> HIDE DEF m
  <2>4. <<m>> \in Seq(ToViewer)
    BY <2>3
  <2> QED
    BY <1>1, <1>3, <2>4, DeliveredType DEF m
<1>4. CASE toViewer' = Delivered(q, aChannel,
                <<[type |-> "file.download-complete", id |-> d, sha256 |-> Content(d)]>>)
  <2> DEFINE m == [type |-> "file.download-complete", id |-> d, sha256 |-> Content(d)]
  <2>1. m \in {[type |-> "file.download-complete", id |-> e, sha256 |-> Content(e)] : e \in Download}
    OBVIOUS
  <2>2. m \in ToViewer
    BY <2>1 DEF ToViewer
  <2> HIDE DEF m
  <2>3. <<m>> \in Seq(ToViewer)
    BY <2>2
  <2> QED
    BY <1>1, <1>4, <2>3, DeliveredType DEF m, EndType
<1> QED
  BY <1>2, <1>3, <1>4 DEF DownloadTurn, q

\* The agent's answers to a message
LEMMA MessageSends ==
    ASSUME EndType, DiskType, QueueType, IncomingOK, incoming \subseteq incoming',
           NEW c \in Channel, OnFileMessage(c)
    PROVE  toViewer' \in [Channel -> Seq(ToViewer')]
<1> DEFINE m == Head(toAgent[c])
<1>1. m \in ToAgent
  BY QueueShrinks DEF OnFileMessage, QueueType
<1>2. m.id \in Upload \union Download
  BY <1>1 DEF ToAgent
<1>3. \/ m.type = "file.offer" /\ OnFileOffer(m, c)
      \/ m.type = "chunk" /\ OnFileChunk(m)
      \/ m.type = "file.complete" /\ OnFileComplete(m)
      \/ m.type = "file.download" /\ OnFileDownload(m, c)
  BY DEF OnFileMessage
<1> HIDE DEF m
<1>4. CASE UNCHANGED toViewer
  BY <1>4, StoredStays DEF QueueType
<1>5. ASSUME NEW t \in Upload \union Download, AgentSends(Error(t))
      PROVE  toViewer' \in [Channel -> Seq(ToViewer')]
  <2>1. PICK e \in ToViewer' : e = [type |-> "file.error", id |-> t]
    BY ErrorType
  <2>2. AgentSends(<<e>>)
    BY <1>5, <2>1 DEF Error
  <2> QED
    BY <2>2, AgentSendsType
<1>6. CASE receiver # None /\ AgentSends(Error(receiver.id))
  <2>1. receiver.id \in Upload
    BY <1>6 DEF DiskType, Receiver
  <2> QED
    BY <1>5, <1>6, <2>1
<1>7. CASE m.type = "file.offer" /\ AgentSends(<<[type |-> "file.accept", id |-> m.id]>>)
  <2>1. m.id \in Upload
    BY <1>1, <1>7 DEF ToAgent
  <2>2. PICK a : a = [type |-> "file.accept", id |-> m.id]
    OBVIOUS
  <2>3. a \in [type : {"file.accept"}, id : Upload]
    BY <2>1, <2>2
  <2>4. a \in ToViewer'
    BY <2>3 DEF ToViewer
  <2> QED
    BY <1>7, <2>2, <2>4, AgentSendsType
<1>8. ASSUME NEW u \in Upload, AgentSends(<<[type |-> "file.done", id |-> u]>>),
             \E f \in incoming' : f.id = u
      PROVE  toViewer' \in [Channel -> Seq(ToViewer')]
  <2>1. Stored(u)'
    BY <1>8 DEF Stored
  <2>2. PICK a : a = [type |-> "file.done", id |-> u]
    OBVIOUS
  <2>3. a \in [type : {"file.done"}, id : {w \in Upload : Stored(w)'}]
    BY <2>1, <2>2
  <2>4. a \in ToViewer'
    BY <2>3 DEF ToViewer
  <2> QED
    BY <1>8, <2>2, <2>4, AgentSendsType
<1>9. CASE m.type = "file.offer" /\ OnFileOffer(m, c)
  BY <1>2, <1>5, <1>7, <1>9 DEF OnFileOffer
<1>10. CASE m.type = "chunk" /\ OnFileChunk(m)
  BY <1>4, <1>6, <1>10 DEF OnFileChunk, FailFileTransfer
<1>11. CASE m.type = "file.complete" /\ OnFileComplete(m)
  <2>1. m.id \in Upload
    BY <1>1, <1>11 DEF ToAgent
  <2>2. CASE UNCHANGED toViewer
    BY <1>4, <2>2
  <2>3. CASE receiver # None /\ FailFileTransfer
    BY <1>6, <2>3 DEF FailFileTransfer
  <2>4. CASE /\ receiver # None /\ m.id = receiver.id
             /\ incoming' = {f \in incoming : f.dest # <<NameOf(m.id), UniqueIndex(NameOf(m.id))>>}
                    \union {[dest |-> <<NameOf(m.id), UniqueIndex(NameOf(m.id))>>,
                             id |-> m.id, bytes |-> receiver.got]}
             /\ AgentSends(<<[type |-> "file.done", id |-> m.id]>>)
    <3>1. PICK f : f = [dest |-> <<NameOf(m.id), UniqueIndex(NameOf(m.id))>>,
                        id |-> m.id, bytes |-> receiver.got]
      OBVIOUS
    <3>2. f \in incoming' /\ f.id = m.id
      BY <2>4, <3>1
    <3> QED
      BY <1>8, <2>1, <2>4, <3>2
  <2> QED
    BY <1>11, <2>2, <2>3, <2>4 DEF OnFileComplete
<1>12. CASE m.type = "file.download" /\ OnFileDownload(m, c)
  BY <1>2, <1>4, <1>5, <1>12 DEF OnFileDownload
<1> QED
  BY <1>3, <1>9, <1>10, <1>11, <1>12

\* Every step leaves messages of the known kinds, and no false "done", under way.
LEMMA QueueStep ==
    ASSUME EndType, RunInv, DiskType, LoadType, QueueType, IncomingOK,
           incoming \subseteq incoming',
           [Next]_vars
    PROVE  QueueType'
<1>1. /\ toAgent \in [Channel -> Seq(ToAgent)] /\ toViewer \in [Channel -> Seq(ToViewer)]
      /\ toViewer \in [Channel -> Seq(ToViewer')] /\ ToAgent' = ToAgent
  BY StoredStays DEF QueueType, ToAgent
<1>2. ASSUME UNCHANGED toViewer, toAgent' \in [Channel -> Seq(ToAgent)] PROVE QueueType'
  BY <1>1, <1>2 DEF QueueType
<1>3. ASSUME UNCHANGED <<toAgent, toViewer>> PROVE QueueType'
  BY <1>1, <1>2, <1>3
<1>4. ASSUME NEW c \in Channel, Connection(c) PROVE QueueType'
  BY <1>3, <1>4, ConnectionFrame
<1>5. ASSUME NEW c \in Channel, OnClose(c) PROVE QueueType'
  <2>1. [toAgent EXCEPT ![c] = <<>>] \in [Channel -> Seq(ToAgent)]
    BY <1>1, QueueEnds
  <2> QED
    BY <1>2, <1>5, <2>1 DEF OnClose
<1>6. ASSUME NEW c \in Channel, DiskFails(c) PROVE QueueType'
  <2>1. [toAgent EXCEPT ![c] = <<>>] \in [Channel -> Seq(ToAgent)]
    BY <1>1, QueueEnds
  <2> QED
    BY <1>2, <1>6, <2>1 DEF DiskFails
<1>7. ASSUME NEW c \in Channel, OnFileMessage(c) PROVE QueueType'
  <2>1. toAgent' \in [Channel -> Seq(ToAgent)]
    BY <1>1, <1>7, QueueShrinks DEF OnFileMessage
  <2>2. toViewer' \in [Channel -> Seq(ToViewer')]
    BY <1>7, MessageSends
  <2> QED
    BY <1>1, <2>1, <2>2 DEF QueueType
<1>8. ASSUME NEW c \in 0..MaxChannel, ClosePeer(c) PROVE QueueType'
  BY <1>3, <1>8 DEF ClosePeer
<1>9. CASE ClosePeerResources \/ ViewerMessage
  <2>1. fileChannel \in Channel
    BY <1>9, Sizes DEF ClosePeerResources, ViewerMessage, EndType, Channel
  <2>2. UNCHANGED toAgent
    BY <1>9 DEF ClosePeerResources, ViewerMessage
  <2>3. CASE ClosePeerResources
    <3>1. toViewer' = [toViewer EXCEPT ![fileChannel] = <<>>]
      BY <2>3 DEF ClosePeerResources
    <3>2. toViewer' \in [Channel -> Seq(ToViewer')]
      BY <1>1, <2>1, <3>1, QueueEnds
    <3> QED
      BY <1>1, <2>2, <3>2 DEF QueueType
  <2>4. CASE ViewerMessage
    <3>1. toViewer[fileChannel] # <<>> /\ toViewer' = [toViewer EXCEPT ![fileChannel] = Tail(@)]
      BY <2>4 DEF ViewerMessage
    <3>2. toViewer' \in [Channel -> Seq(ToViewer')]
      BY <1>1, <2>1, <3>1, QueueShrinks
    <3> QED
      BY <1>1, <2>2, <3>2 DEF QueueType
  <2> QED
    BY <1>9, <2>3, <2>4
<1>10. CASE DownloadStep
  <2>1. UNCHANGED <<incoming, toAgent>>
    BY <1>10, DownloadFrame DEF diskVars
  <2>2. task \in Task
    BY <1>10 DEF DownloadStep, RunDownload, ContinueDownload, LoadType
  <2>3. task.id \in Download /\ task.ch \in 0..MaxChannel /\ task.pos \in 0..Chunks
    BY <2>2 DEF Task
  <2>4. ToViewer' = ToViewer
    BY <2>1 DEF ToViewer, Stored
  <2>5. CASE AgentSends(Error(task.id))
    <3>1. PICK e \in ToViewer' : e = [type |-> "file.error", id |-> task.id]
      BY <2>3, ErrorType
    <3>2. AgentSends(<<e>>)
      BY <2>5, <3>1 DEF Error
    <3>3. toViewer' \in [Channel -> Seq(ToViewer')]
      BY <3>2, AgentSendsType
    <3> QED
      BY <1>1, <2>1, <3>3 DEF QueueType
  <2>6. ASSUME NEW size \in {Chunks, Chunks + 1},
               DownloadTurn(task.id, aChannel, 0,
                   <<[type |-> "file.download-offer", id |-> task.id, size |-> size]>>)
        PROVE  QueueType'
    <3>1. PICK m : m = [type |-> "file.download-offer", id |-> task.id, size |-> size]
      OBVIOUS
    <3>2. size \in Nat
      BY Sizes
    <3>3. m \in [type : {"file.download-offer"}, id : Download, size : Nat]
      BY <2>3, <3>1, <3>2
    <3>4. m \in ToViewer
      BY <3>3 DEF ToViewer
    <3>5. <<m>> \in Seq(ToViewer) /\ aChannel \in 0..MaxChannel /\ 0 \in 0..Chunks
      BY <3>4, Sizes DEF EndType
    <3>6. DownloadTurn(task.id, aChannel, 0, <<m>>)
      BY <2>6, <3>1
    <3>7. toViewer' \in [Channel -> Seq(ToViewer)]
      BY <2>1, <2>3, <3>5, <3>6, TurnSends
    <3> QED
      BY <1>1, <2>1, <2>4, <3>7 DEF QueueType
  <2>7. CASE DownloadTurn(task.id, task.ch, task.pos, <<>>)
    <3>1. <<>> \in Seq(ToViewer)
      BY EmptySeq
    <3>2. toViewer' \in [Channel -> Seq(ToViewer)]
      BY <2>1, <2>3, <2>7, <3>1, TurnSends
    <3> QED
      BY <1>1, <2>1, <2>4, <3>2 DEF QueueType
  <2> QED
    BY <1>10, <2>5, <2>6, <2>7 DEF DownloadStep, RunDownload, ContinueDownload
<1>11. ASSUME NEW u \in Upload, UploadStep(u) PROVE QueueType'
  <2>1. UNCHANGED toViewer
    BY <1>11, UploadFrame
  <2>2. CASE UNCHANGED toAgent
    BY <1>3, <2>1, <2>2
  <2>3. ASSUME NEW ms \in Seq(ToAgent), ViewerSends(ms) PROVE QueueType'
    BY <1>2, <2>1, <2>3, ViewerSendsType
  <2>4. CASE Offer(u)
    <3>1. PICK m : m = [type |-> "file.offer", id |-> u]
      OBVIOUS
    <3>2. m \in [type : {"file.offer", "file.complete"}, id : Upload]
      BY <3>1
    <3>3. <<m>> \in Seq(ToAgent)
      BY <3>2 DEF ToAgent
    <3> QED
      BY <2>3, <2>4, <3>1, <3>3 DEF Offer
  <2>5. CASE StreamChunk(u) /\ toAgent' # toAgent
    <3>1. sent[u] + 1 \in 1..Chunks
      BY <2>5, Sizes DEF StreamChunk, RunInv, RunType, SentOK
    <3>2. PICK m : m = [type |-> "chunk", id |-> u, n |-> sent[u] + 1]
      OBVIOUS
    <3>3. PICK l : l = [type |-> "file.complete", id |-> u]
      OBVIOUS
    <3>4. m \in [type : {"chunk"}, id : Upload, n : 1..Chunks]
      BY <3>1, <3>2
    <3>5. l \in [type : {"file.offer", "file.complete"}, id : Upload]
      BY <3>3
    <3>6. m \in ToAgent /\ l \in ToAgent
      BY <3>4, <3>5 DEF ToAgent
    <3>7. <<m>> \in Seq(ToAgent) /\ <<m, l>> \in Seq(ToAgent)
      BY <3>6
    <3>8. ViewerSends(<<m>>) \/ ViewerSends(<<m, l>>)
      BY <2>5, <3>2, <3>3 DEF StreamChunk
    <3> QED
      BY <2>3, <3>7, <3>8
  <2> QED
    BY <1>11, <2>2, <2>4, <2>5 DEF UploadStep, SendFile, PrepareFails, UploadTimeout
<1>12. ASSUME NEW d \in Download, DownloadFile(d) PROVE QueueType'
  <2>1. PICK m : m = [type |-> "file.download", id |-> d]
    OBVIOUS
  <2>2. m \in [type : {"file.download"}, id : Download]
    BY <2>1
  <2>3. <<m>> \in Seq(ToAgent)
    BY <2>2 DEF ToAgent
  <2>4. ViewerSends(<<m>>) /\ UNCHANGED toViewer
    BY <1>12, <2>1 DEF DownloadFile
  <2> QED
    BY <1>2, <2>3, <2>4, ViewerSendsType
<1>13. ASSUME NEW v \in verifying, FinishDownload(v) PROVE QueueType'
  BY <1>3, <1>13 DEF FinishDownload
<1>14. CASE UNCHANGED vars
  BY <1>3, <1>14 DEF vars
<1> QED
  BY <1>4, <1>5, <1>6, <1>7, <1>8, <1>9, <1>10, <1>11, <1>12, <1>13, <1>14, NextCases

-----------------------------------------------------------------------------
(* The viewer's downloads *)

ShowInv == ShowType /\ DownloadPhases

\* handleFileMessage() for a download: it goes on, ends in an error, or is verified.
LEMMA ShowMessage ==
    ASSUME EndType, ShowInv, QueueType, ViewerMessage
    PROVE  ShowInv'
<1> DEFINE q == Head(toViewer[fileChannel])
<1>1. fileChannel \in Channel
  BY Sizes DEF ViewerMessage, EndType, Channel
<1>2. PICK m \in ToViewer : m = q
  BY <1>1, QueueShrinks DEF ViewerMessage, QueueType
<1>3. /\ UNCHANGED saved
      /\ \/ m.type = "chunk" /\ HandleDownloadChunk(m) /\ UNCHANGED <<shown, verifying>>
         \/ /\ m.type # "chunk" /\ fileDownload # None /\ fileDownload.id = m.id
            /\ DownloadAnswered(m)
         \/ UNCHANGED <<fileDownload, shown, verifying>>
  BY <1>2 DEF ViewerMessage
<1> HIDE DEF q
<1>4. CASE UNCHANGED <<fileDownload, shown, verifying>>
  BY <1>3, <1>4 DEF ShowInv, ShowType, DownloadPhases
<1>5. CASE m.type = "chunk" /\ HandleDownloadChunk(m) /\ UNCHANGED <<shown, verifying>>
  <2>1. CASE fileDownload = None
    BY <1>3, <1>5, <2>1 DEF HandleDownloadChunk, ShowInv, ShowType, DownloadPhases
  <2>2. CASE fileDownload # None
    <3>1. m.id \in Download /\ m.n \in 1..Chunks
      BY <1>5 DEF ToViewer
    <3>2. fileDownload \in Loading
      BY <2>2 DEF ShowInv, ShowType
    <3>3. Append(fileDownload.chunks, <<m.id, m.n>>) \in Bytes
      BY <3>1, <3>2 DEF Loading, Bytes
    <3>4. fileDownload' \in Loading /\ fileDownload'.id = fileDownload.id
      BY <1>5, <2>2, <3>2, <3>3 DEF HandleDownloadChunk, Loading
    <3> QED
      BY <1>3, <1>5, <2>2, <3>4 DEF ShowInv, ShowType, DownloadPhases
  <2> QED
    BY <2>1, <2>2
<1>6. CASE m.type # "chunk" /\ fileDownload # None /\ fileDownload.id = m.id /\ DownloadAnswered(m)
  <2>1. fileDownload \in Loading /\ m.id \in Download /\ shown[m.id] = "downloading"
    BY <1>6 DEF ShowInv, ShowType, DownloadPhases, Loading
  <2>2. CASE m.type = "file.download-offer"
    <3>1. m.size \in Nat
      BY <2>2 DEF ToViewer
    <3>2. fileDownload' = [fileDownload EXCEPT !.size = m.size] /\ UNCHANGED <<shown, verifying>>
      BY <1>6, <2>2 DEF DownloadAnswered
    <3>3. fileDownload' \in Loading /\ fileDownload'.id = fileDownload.id
      BY <2>1, <3>1, <3>2 DEF Loading
    <3> QED
      BY <1>3, <1>6, <3>2, <3>3 DEF ShowInv, ShowType, DownloadPhases
  <2>3. ASSUME fileDownload' = None, UNCHANGED verifying,
               shown' = [shown EXCEPT ![m.id] = "error"]
        PROVE  ShowInv'
    BY <1>3, <2>1, <2>3 DEF ShowInv, ShowType, DownloadPhases
  <2>4. CASE m.type = "file.download-complete"
    <3>1. m.sha256 = Content(m.id)
      BY <2>4 DEF ToViewer
    <3>2. PICK v : v = [id |-> m.id, bytes |-> fileDownload.chunks, sha256 |-> m.sha256]
      OBVIOUS
    <3>3. v.id = m.id /\ v.sha256 = Content(m.id)
      BY <3>1, <3>2
    <3>4. CASE /\ fileDownload' = None /\ shown' = [shown EXCEPT ![m.id] = "verifying"]
               /\ verifying' = verifying \union {v}
      BY <1>3, <2>1, <3>3, <3>4 DEF ShowInv, ShowType, DownloadPhases
    <3> QED
      BY <1>6, <2>3, <2>4, <3>2, <3>4 DEF DownloadAnswered
  <2> QED
    BY <1>6, <2>2, <2>3, <2>4 DEF DownloadAnswered
<1> QED
  BY <1>3, <1>4, <1>5, <1>6

\* Every step keeps it.
LEMMA ShowStep ==
    ASSUME EndType, ShowInv, QueueType, [Next]_vars
    PROVE  ShowInv'
<1>1. ASSUME UNCHANGED showVars PROVE ShowInv'
  BY <1>1 DEF showVars, ShowInv, ShowType, DownloadPhases
<1>2. ASSUME NEW d \in Download, DownloadFile(d) PROVE ShowInv'
  <2>1. shown[d] = "none"
    BY <1>2 DEF DownloadFile, Fresh, Started
  <2>2. /\ fileDownload' = [id |-> d, size |-> 0, chunks |-> <<>>]
        /\ shown' = [shown EXCEPT ![d] = "downloading"] /\ UNCHANGED <<verifying, saved>>
    BY <1>2 DEF DownloadFile
  <2>3. <<>> \in Bytes
    BY EmptySeq DEF Bytes
  <2>4. fileDownload' \in Loading /\ fileDownload'.id = d
    BY <2>2, <2>3 DEF Loading
  <2> QED
    BY <2>1, <2>2, <2>4 DEF ShowInv, ShowType, DownloadPhases
<1>3. ASSUME NEW v \in verifying, FinishDownload(v) PROVE ShowInv'
  <2>1. v.id \in Download /\ v.sha256 = Content(v.id) /\ shown[v.id] = "verifying"
    BY DEF ShowInv, DownloadPhases
  <2>2. PICK f : f = [dest |-> v.id, id |-> v.id, bytes |-> v.bytes]
    OBVIOUS
  <2>3. f.dest = v.id /\ f.id = v.id
    BY <2>2
  <2>4. UNCHANGED fileDownload /\ verifying' = verifying \ {v}
    BY <1>3 DEF FinishDownload
  <2>5. \/ saved' = saved \union {f} /\ shown' = [shown EXCEPT ![v.id] = "done"]
        \/ saved' = saved /\ shown' = [shown EXCEPT ![v.id] = "error"]
    BY <1>3, <2>2 DEF FinishDownload
  <2> QED
    BY <2>1, <2>3, <2>4, <2>5 DEF ShowInv, ShowType, DownloadPhases, Loading
<1>4. CASE ClosePeerResources
  <2>1. /\ fileDownload' = None /\ UNCHANGED <<verifying, saved>>
        /\ shown' = IF fileDownload = None THEN shown
                    ELSE [shown EXCEPT ![fileDownload.id] = "error"]
    BY <1>4 DEF ClosePeerResources
  <2> QED
    BY <2>1 DEF ShowInv, ShowType, DownloadPhases, Loading
<1>5. CASE ViewerMessage
  BY <1>5, ShowMessage
<1>6. ASSUME NEW c \in Channel, Connection(c) PROVE ShowInv'
  BY <1>1, <1>6, ConnectionFrame
<1>7. ASSUME NEW c \in Channel, OnClose(c) \/ OnFileMessage(c) \/ DiskFails(c) PROVE ShowInv'
  BY <1>1, <1>7 DEF OnClose, OnFileMessage, DiskFails
<1>8. ASSUME NEW c \in 0..MaxChannel, ClosePeer(c) PROVE ShowInv'
  BY <1>1, <1>8 DEF ClosePeer
<1>9. CASE DownloadStep
  BY <1>1, <1>9, DownloadFrame
<1>10. ASSUME NEW u \in Upload, UploadStep(u) PROVE ShowInv'
  BY <1>1, <1>10, UploadFrame
<1>11. CASE UNCHANGED vars
  BY <1>1, <1>11 DEF vars
<1> QED
  BY <1>2, <1>3, <1>4, <1>5, <1>6, <1>7, <1>8, <1>9, <1>10, <1>11, NextCases

-----------------------------------------------------------------------------
(* Offers *)

\* Where the messages are after something was added to a channel ...
LEMMA ConcatAt ==
    ASSUME NEW S, NEW q \in [Channel -> Seq(S)], NEW c \in Channel, NEW ms \in Seq(S),
           NEW r, r = [q EXCEPT ![c] = @ \o ms]
    PROVE  \A d \in Channel : \A i \in DOMAIN r[d] :
             \/ i \in DOMAIN q[d] /\ r[d][i] = q[d][i]
             \/ d = c /\ i - Len(q[c]) \in DOMAIN ms /\ r[d][i] = ms[i - Len(q[c])]
<1> SUFFICES ASSUME NEW i \in DOMAIN r[c]
             PROVE  \/ i \in DOMAIN q[c] /\ r[c][i] = q[c][i]
                    \/ i - Len(q[c]) \in DOMAIN ms /\ r[c][i] = ms[i - Len(q[c])]
  OBVIOUS
<1>1. PICK s \in Seq(S) : s = q[c]
  OBVIOUS
<1>2. r[c] = s \o ms
  BY <1>1
<1>3. /\ Len(s) \in Nat /\ Len(ms) \in Nat /\ DOMAIN s = 1..Len(s) /\ DOMAIN ms = 1..Len(ms)
      /\ DOMAIN (s \o ms) = 1..(Len(s) + Len(ms))
      /\ \A k \in 1..(Len(s) + Len(ms)) :
            (s \o ms)[k] = IF k <= Len(s) THEN s[k] ELSE ms[k - Len(s)]
  BY ConcatProperties, LenProperties
<1>4. CASE i <= Len(s)
  BY <1>1, <1>2, <1>3, <1>4
<1>5. CASE ~(i <= Len(s))
  <2>1. i - Len(s) \in 1..Len(ms)
    BY <1>2, <1>3, <1>5
  <2> QED
    BY <1>1, <1>2, <1>3, <1>5, <2>1
<1> QED
  BY <1>4, <1>5

\* ... and after the first one was taken from it.
LEMMA TailAt ==
    ASSUME NEW S, NEW q \in [Channel -> Seq(S)], NEW c \in Channel, q[c] # <<>>,
           NEW r, r = [q EXCEPT ![c] = Tail(@)]
    PROVE  /\ 1 \in DOMAIN q[c] /\ Head(q[c]) = q[c][1]
           /\ \A d \in Channel : \A i \in DOMAIN r[d] :
                \/ d # c /\ i \in DOMAIN q[d] /\ r[d][i] = q[d][i]
                \/ d = c /\ i \in Nat \ {0} /\ i + 1 \in DOMAIN q[c] /\ r[c][i] = q[c][i + 1]
<1>1. PICK s \in Seq(S) : s = q[c] /\ s # <<>>
  OBVIOUS
<1>2. /\ Len(s) \in Nat /\ Len(s) >= 1 /\ DOMAIN s = 1..Len(s) /\ Head(s) = s[1]
      /\ DOMAIN Tail(s) = 1..(Len(s) - 1)
      /\ \A k \in 1..(Len(s) - 1) : Tail(s)[k] = s[k + 1]
  BY <1>1, HeadTailProperties
<1>3. r[c] = Tail(s)
  BY <1>1
<1>4. ASSUME NEW i \in DOMAIN r[c]
      PROVE i \in Nat \ {0} /\ i + 1 \in DOMAIN q[c] /\ r[c][i] = q[c][i + 1]
  BY <1>1, <1>2, <1>3
<1> QED
  BY <1>1, <1>2, <1>4

\* A step that offers, receives and stores nothing new keeps the offers in order, whatever
\* it takes out of the queues: each offer still under way was so before, `off' places behind.
LEMMA OffersKept ==
    ASSUME OffersOnce, NEW off \in [Channel -> Int], UNCHANGED incoming,
           \A u \in Upload : phase'[u] \in {"idle", "preparing"} => phase[u] \in {"idle", "preparing"},
           receiver' # None => receiver # None /\ receiver'.id = receiver.id,
           \A c \in Channel : \A i \in DOMAIN toAgent'[c] :
               toAgent'[c][i].type = "file.offer" =>
                   i \in Int /\ i + off[c] \in DOMAIN toAgent[c] /\ toAgent'[c][i] = toAgent[c][i + off[c]]
    PROVE  OffersOnce'
<1>1. \A u : Stored(u)' <=> Stored(u)
  BY DEF Stored
<1>2. \A u : Unknown(u) => Unknown(u)'
  BY <1>1 DEF Unknown
<1>3. ASSUME NEW u \in Upload, NEW c \in Channel, NEW i \in DOMAIN toAgent'[c],
             toAgent'[c][i].type = "file.offer", toAgent'[c][i].id = u
      PROVE  i \in Int /\ i + off[c] \in DOMAIN toAgent[c] /\ IsOffer(c, i + off[c], u)
  BY <1>3 DEF IsOffer
<1>4. ASSUME NEW u \in Upload, phase'[u] \in {"idle", "preparing"}, NEW c \in Channel,
             NEW i \in DOMAIN toAgent'[c], toAgent'[c][i].type = "file.offer", toAgent'[c][i].id = u
      PROVE  FALSE
  BY <1>3, <1>4 DEF OffersOnce
<1>5. ASSUME NEW u \in Upload, NEW c \in Channel, NEW i \in DOMAIN toAgent'[c],
             toAgent'[c][i].type = "file.offer", toAgent'[c][i].id = u
      PROVE  /\ Unknown(u)
             /\ \A d \in Channel : \A j \in DOMAIN toAgent'[d] :
                   toAgent'[d][j].type = "file.offer" /\ toAgent'[d][j].id = u => d = c /\ j = i
  <2>1. i \in Int /\ i + off[c] \in DOMAIN toAgent[c] /\ IsOffer(c, i + off[c], u)
    BY <1>3, <1>5
  <2>2. ASSUME NEW d \in Channel, NEW j \in DOMAIN toAgent'[d],
               toAgent'[d][j].type = "file.offer", toAgent'[d][j].id = u
        PROVE  d = c /\ j = i
    <3>1. j \in Int /\ j + off[d] \in DOMAIN toAgent[d] /\ IsOffer(d, j + off[d], u)
      BY <1>3, <2>2
    <3>2. d = c /\ j + off[d] = i + off[c]
      BY <2>1, <3>1 DEF OffersOnce
    <3> QED
      BY <2>1, <3>1, <3>2
  <2> QED
    BY <2>1, <2>2 DEF OffersOnce
<1>6. ASSUME NEW u \in Upload, receiver' # None, receiver'.id = u PROVE ~Stored(u)'
  BY <1>1, <1>6 DEF OffersOnce
<1>7. ASSUME NEW u \in Upload, phase'[u] \in {"idle", "preparing"} PROVE Unknown(u)'
  BY <1>2, <1>7 DEF OffersOnce
<1> QED
  BY <1>2, <1>4, <1>5, <1>6, <1>7 DEF OffersOnce, IsOffer

\* The same for a step that moves no offer, but may drop some.
LEMMA OffersStay ==
    ASSUME OffersOnce, QueueType, UNCHANGED incoming,
           \A u \in Upload : phase'[u] \in {"idle", "preparing"} => phase[u] \in {"idle", "preparing"},
           receiver' # None => receiver # None /\ receiver'.id = receiver.id,
           \A c \in Channel : \A i \in DOMAIN toAgent'[c] :
               toAgent'[c][i].type = "file.offer" =>
                   i \in DOMAIN toAgent[c] /\ toAgent'[c][i] = toAgent[c][i]
    PROVE  OffersOnce'
<1>1. PICK off \in [Channel -> Int] : \A c \in Channel : off[c] = 0
  <2>1. [c \in Channel |-> 0] \in [Channel -> Int]
    OBVIOUS
  <2> QED
    BY <2>1
<1>2. \A c \in Channel : \A i \in DOMAIN toAgent[c] : i \in Int /\ i + off[c] = i
  <2> SUFFICES ASSUME NEW c \in Channel, NEW i \in DOMAIN toAgent[c] PROVE i \in Int
    BY <1>1
  <2>1. toAgent[c] \in Seq(ToAgent)
    BY DEF QueueType
  <2>2. DOMAIN toAgent[c] = 1..Len(toAgent[c]) /\ Len(toAgent[c]) \in Nat
    BY <2>1, LenProperties
  <2> QED
    BY <2>2
<1> QED
  BY <1>2, OffersKept

\* What the viewer sends besides an offer changes nothing about the offers.
LEMMA OffersSent ==
    ASSUME OffersOnce, QueueType, EndType, UNCHANGED <<incoming, receiver>>,
           \A u \in Upload : phase'[u] \in {"idle", "preparing"} => phase[u] \in {"idle", "preparing"},
           NEW ms \in Seq(ToAgent), ViewerSends(ms), \A k \in DOMAIN ms : ms[k].type # "file.offer"
    PROVE  OffersOnce'
<1>1. CASE UNCHANGED toAgent
  BY <1>1, OffersStay
<1>2. CASE fileChannel # 0 /\ toAgent' = [toAgent EXCEPT ![fileChannel] = @ \o ms]
  <2>1. PICK c \in Channel : c = fileChannel
    BY <1>2 DEF EndType, Channel
  <2>2. PICK q \in [Channel -> Seq(ToAgent)] : q = toAgent
    BY DEF QueueType
  <2>3. PICK r : r = toAgent'
    OBVIOUS
  <2>4. r = [q EXCEPT ![c] = @ \o ms]
    BY <1>2, <2>1, <2>2, <2>3
  <2>5. \A d \in Channel : \A i \in DOMAIN r[d] :
          \/ i \in DOMAIN q[d] /\ r[d][i] = q[d][i]
          \/ i - Len(q[c]) \in DOMAIN ms /\ r[d][i] = ms[i - Len(q[c])]
    BY <2>4, ConcatAt
  <2> QED
    BY <2>2, <2>3, <2>5, OffersStay
<1> QED
  BY <1>1, <1>2 DEF ViewerSends, ViewerOpen

\* Phase 1 offers an upload that nobody has heard of.
LEMMA OffersMade ==
    ASSUME OffersOnce, QueueType, EndType, RunType, NEW u \in Upload, Offer(u)
    PROVE  OffersOnce'
<1>1. PICK m \in ToAgent : m = [type |-> "file.offer", id |-> u]
  <2>1. PICK m : m = [type |-> "file.offer", id |-> u]
    OBVIOUS
  <2>2. m \in [type : {"file.offer", "file.complete"}, id : Upload]
    BY <2>1
  <2> QED
    BY <2>1, <2>2 DEF ToAgent
<1>2. /\ phase[u] = "preparing" /\ phase' = [phase EXCEPT ![u] = "offered"]
      /\ UNCHANGED <<incoming, receiver>> /\ ViewerSends(<<m>>)
  BY <1>1 DEF Offer, diskVars
<1>3. \A w \in Upload : phase'[w] \in {"idle", "preparing"} => w # u /\ phase[w] \in {"idle", "preparing"}
  BY <1>2 DEF RunType
<1>4. CASE UNCHANGED toAgent
  BY <1>2, <1>3, <1>4, OffersStay
<1>5. CASE fileChannel # 0 /\ toAgent' = [toAgent EXCEPT ![fileChannel] = @ \o <<m>>]
  <2>1. PICK c \in Channel : c = fileChannel
    BY <1>5 DEF EndType, Channel
  <2>2. PICK q \in [Channel -> Seq(ToAgent)] : q = toAgent
    BY DEF QueueType
  <2>3. PICK r : r = toAgent'
    OBVIOUS
  <2>4. r = [q EXCEPT ![c] = @ \o <<m>>]
    BY <1>5, <2>1, <2>2, <2>3
  <2>5. PICK n : n = Len(q[c]) + 1
    OBVIOUS
  <2>6. \A d \in Channel : \A i \in DOMAIN r[d] :
          \/ i \in DOMAIN q[d] /\ r[d][i] = q[d][i]
          \/ d = c /\ i = n /\ r[d][i] = m
    <3>1. q[c] \in Seq(ToAgent)
      OBVIOUS
    <3>2. Len(q[c]) \in Nat
      BY <3>1, LenProperties
    <3>3. <<m>> \in Seq(ToAgent) /\ DOMAIN <<m>> = {1} /\ <<m>>[1] = m
      OBVIOUS
    <3>4. r[c] \in Seq(ToAgent)
      BY <2>4, <3>1, <3>3, ConcatProperties
    <3>5. DOMAIN r[c] \subseteq Int
      BY <3>4, LenProperties
    <3>6. \A d \in Channel : \A i \in DOMAIN r[d] :
            \/ i \in DOMAIN q[d] /\ r[d][i] = q[d][i]
            \/ d = c /\ i - Len(q[c]) \in DOMAIN <<m>> /\ r[d][i] = <<m>>[i - Len(q[c])]
      BY <2>4, <3>3, ConcatAt
    <3>7. ASSUME NEW i \in DOMAIN r[c], i - Len(q[c]) \in DOMAIN <<m>>,
                 r[c][i] = <<m>>[i - Len(q[c])]
          PROVE  i = n /\ r[c][i] = m
      <4>1. i - Len(q[c]) = 1
        BY <3>3, <3>7
      <4> QED
        BY <2>5, <3>2, <3>3, <3>5, <3>7, <4>1
    <3> QED
      BY <3>6, <3>7
  <2>7. \A w : (Stored(w)' <=> Stored(w)) /\ (Unknown(w)' <=> Unknown(w))
    BY <1>2 DEF Stored, Unknown
  <2>8. Unknown(u) /\ \A d \in Channel : \A i \in DOMAIN q[d] : ~(q[d][i].type = "file.offer" /\ q[d][i].id = u)
    BY <1>2, <2>2 DEF OffersOnce, IsOffer
  <2>9. m.id = u
    BY <1>1
  <2>10. ASSUME NEW w \in Upload, NEW d \in Channel, NEW i \in DOMAIN r[d],
                r[d][i].type = "file.offer", r[d][i].id = w
         PROVE  /\ Unknown(w) /\ phase'[w] \notin {"idle", "preparing"}
                /\ \A e \in Channel : \A j \in DOMAIN r[e] :
                      r[e][j].type = "file.offer" /\ r[e][j].id = w => e = d /\ j = i
    <3>1. CASE w = u
      BY <1>3, <2>6, <2>8, <2>9, <2>10, <3>1
    <3>2. CASE w # u
      <4>1. /\ i \in DOMAIN q[d] /\ q[d][i].type = "file.offer" /\ q[d][i].id = w
            /\ \A e \in Channel : \A j \in DOMAIN r[e] :
                 r[e][j].type = "file.offer" /\ r[e][j].id = w =>
                   j \in DOMAIN q[e] /\ q[e][j].type = "file.offer" /\ q[e][j].id = w
        BY <2>6, <2>9, <2>10, <3>2
      <4> QED
        BY <1>3, <2>2, <4>1 DEF OffersOnce, IsOffer
    <3> QED
      BY <3>1, <3>2
  <2>11. ASSUME NEW w \in Upload, receiver' # None, receiver'.id = w PROVE ~Stored(w)'
    BY <1>2, <2>7, <2>11 DEF OffersOnce
  <2>12. ASSUME NEW w \in Upload, phase'[w] \in {"idle", "preparing"} PROVE Unknown(w)'
    BY <1>3, <2>7, <2>12 DEF OffersOnce
  <2> QED
    BY <2>3, <2>7, <2>10, <2>11, <2>12 DEF OffersOnce, IsOffer
<1> QED
  BY <1>2, <1>4, <1>5 DEF ViewerSends, ViewerOpen

\* _on_file_message(): an offer that is accepted was the only one of its upload; a file that is
\* stored was that of the receiver, whose offer is gone.
LEMMA OffersTaken ==
    ASSUME OffersOnce, QueueType, DiskType, IncomingOK, NEW c \in Channel, OnFileMessage(c)
    PROVE  OffersOnce'
<1>1. PICK q \in [Channel -> Seq(ToAgent)] : q = toAgent
  BY DEF QueueType
<1>2. PICK r : r = toAgent'
  OBVIOUS
<1>3. q[c] # <<>> /\ r = [q EXCEPT ![c] = Tail(@)] /\ UNCHANGED phase
  BY <1>1, <1>2 DEF OnFileMessage, runVars
<1>4. /\ 1 \in DOMAIN q[c] /\ Head(q[c]) = q[c][1]
      /\ \A d \in Channel : \A i \in DOMAIN r[d] :
           \/ d # c /\ i \in DOMAIN q[d] /\ r[d][i] = q[d][i]
           \/ d = c /\ i \in Nat \ {0} /\ i + 1 \in DOMAIN q[c] /\ r[c][i] = q[c][i + 1]
  BY <1>3, TailAt
<1>5. \A d \in Channel : DOMAIN q[d] \subseteq Int
  <2> SUFFICES ASSUME NEW d \in Channel PROVE DOMAIN q[d] \subseteq Int
    OBVIOUS
  <2>1. q[d] \in Seq(ToAgent)
    OBVIOUS
  <2> QED
    BY <2>1, LenProperties
<1>6. PICK off \in [Channel -> Int] : off[c] = 1 /\ \A d \in Channel : d # c => off[d] = 0
  <2>1. PICK off : off = [d \in Channel |-> IF d = c THEN 1 ELSE 0]
    OBVIOUS
  <2> QED
    BY <2>1
<1>7. \A d \in Channel : \A i \in DOMAIN r[d] :
        i \in Int /\ i + off[d] \in DOMAIN q[d] /\ r[d][i] = q[d][i + off[d]]
  <2> SUFFICES ASSUME NEW d \in Channel, NEW i \in DOMAIN r[d]
               PROVE  i \in Int /\ i + off[d] \in DOMAIN q[d] /\ r[d][i] = q[d][i + off[d]]
    OBVIOUS
  <2>1. CASE d = c
    BY <1>4, <1>6, <2>1
  <2>2. CASE d # c
    <3>1. i \in Int /\ i \in DOMAIN q[d] /\ r[d][i] = q[d][i]
      BY <1>4, <1>5, <2>2
    <3>2. i + off[d] = i
      BY <1>6, <2>2, <3>1
    <3> QED
      BY <3>1, <3>2
  <2> QED
    BY <2>1, <2>2
<1>8. CASE UNCHANGED incoming /\ (receiver' # None => receiver # None /\ receiver'.id = receiver.id)
  <2>1. \A d \in Channel : \A i \in DOMAIN toAgent'[d] :
          toAgent'[d][i].type = "file.offer" =>
            i \in Int /\ i + off[d] \in DOMAIN toAgent[d] /\ toAgent'[d][i] = toAgent[d][i + off[d]]
    BY <1>1, <1>2, <1>7
  <2>2. \A u \in Upload : phase'[u] \in {"idle", "preparing"} => phase[u] \in {"idle", "preparing"}
    BY <1>3
  <2> QED
    BY <1>8, <2>1, <2>2, OffersKept
<1>9. CASE NewFile
  <2>1. PICK u \in Upload : receiver # None /\ u = receiver.id
    BY <1>9 DEF NewFile, DiskType, Receiver
  <2>2. PICK f : f.id = u /\ incoming' = incoming \union {f} /\ receiver' = None
    BY <1>9, <2>1 DEF NewFile
  <2>3. ~Unknown(u)
    BY <2>1 DEF Unknown
  <2>4. phase[u] \notin {"idle", "preparing"}
    BY <2>3 DEF OffersOnce
  <2>5. \A w : w # u /\ Unknown(w) => Unknown(w)'
    BY <2>2 DEF Unknown, Stored
  <2>6. ASSUME NEW w \in Upload, NEW d \in Channel, NEW i \in DOMAIN r[d],
               r[d][i].type = "file.offer", r[d][i].id = w
        PROVE  /\ Unknown(w)' /\ phase[w] \notin {"idle", "preparing"}
               /\ \A e \in Channel : \A j \in DOMAIN r[e] :
                     r[e][j].type = "file.offer" /\ r[e][j].id = w => e = d /\ j = i
    <3>1. IsOffer(d, i + off[d], w) /\ i + off[d] \in DOMAIN toAgent[d]
      BY <1>1, <1>7, <2>6 DEF IsOffer
    <3>2. Unknown(w) /\ phase[w] \notin {"idle", "preparing"}
      BY <3>1 DEF OffersOnce
    <3>3. Unknown(w)'
      BY <2>3, <2>5, <3>2
    <3>4. ASSUME NEW e \in Channel, NEW j \in DOMAIN r[e],
                 r[e][j].type = "file.offer", r[e][j].id = w
          PROVE  e = d /\ j = i
      <4>1. IsOffer(e, j + off[e], w) /\ j + off[e] \in DOMAIN toAgent[e]
        BY <1>1, <1>7, <3>4 DEF IsOffer
      <4>2. e = d /\ j + off[e] = i + off[d]
        BY <3>1, <4>1 DEF OffersOnce
      <4>3. i \in Int /\ j \in Int /\ off[d] \in Int
        BY <1>7
      <4> QED
        BY <4>2, <4>3
    <3> QED
      BY <3>2, <3>3, <3>4
  <2>7. ASSUME NEW w \in Upload, phase[w] \in {"idle", "preparing"} PROVE Unknown(w)'
    BY <2>4, <2>5, <2>7 DEF OffersOnce
  <2> QED
    BY <1>2, <1>3, <2>2, <2>6, <2>7 DEF OffersOnce, IsOffer
<1>10. CASE /\ q[c][1].type = "file.offer" /\ receiver = None /\ UNCHANGED incoming
            /\ receiver'.id = q[c][1].id
  <2>1. PICK u : u = q[c][1].id
    OBVIOUS
  <2>2. u \in Upload
    <3>1. q[c][1] \in ToAgent
      BY <1>3, <1>4, QueueShrinks
    <3> QED
      BY <1>10, <2>1, <3>1 DEF ToAgent
  <2>3. IsOffer(c, 1, u) /\ 1 \in DOMAIN toAgent[c]
    BY <1>1, <1>4, <1>10, <2>1 DEF IsOffer
  <2>4. Unknown(u) /\ phase[u] \notin {"idle", "preparing"}
    BY <2>2, <2>3 DEF OffersOnce
  <2>5. \A w : (Stored(w)' <=> Stored(w)) /\ (w # u /\ Unknown(w) => Unknown(w)')
    BY <1>10, <2>1 DEF Stored, Unknown
  <2>6. ASSUME NEW w \in Upload, NEW d \in Channel, NEW i \in DOMAIN r[d],
               r[d][i].type = "file.offer", r[d][i].id = w
        PROVE  /\ Unknown(w)' /\ phase[w] \notin {"idle", "preparing"}
               /\ \A e \in Channel : \A j \in DOMAIN r[e] :
                     r[e][j].type = "file.offer" /\ r[e][j].id = w => e = d /\ j = i
    <3>1. IsOffer(d, i + off[d], w) /\ i + off[d] \in DOMAIN toAgent[d]
      BY <1>1, <1>7, <2>6 DEF IsOffer
    <3>2. Unknown(w) /\ phase[w] \notin {"idle", "preparing"}
      BY <3>1 DEF OffersOnce
    <3>3. w # u
      <4> SUFFICES ASSUME w = u PROVE FALSE
        OBVIOUS
      <4>1. d = c /\ i + off[d] = 1
        BY <2>2, <2>3, <3>1 DEF OffersOnce
      <4>2. i \in Nat \ {0} /\ off[d] = 1
        BY <1>4, <1>6, <4>1
      <4> QED
        BY <4>1, <4>2
    <3>4. ASSUME NEW e \in Channel, NEW j \in DOMAIN r[e],
                 r[e][j].type = "file.offer", r[e][j].id = w
          PROVE  e = d /\ j = i
      <4>1. IsOffer(e, j + off[e], w) /\ j + off[e] \in DOMAIN toAgent[e]
        BY <1>1, <1>7, <3>4 DEF IsOffer
      <4>2. e = d /\ j + off[e] = i + off[d]
        BY <3>1, <4>1 DEF OffersOnce
      <4>3. i \in Int /\ j \in Int /\ off[d] \in Int
        BY <1>7
      <4> QED
        BY <4>2, <4>3
    <3> QED
      BY <2>5, <3>2, <3>3, <3>4
  <2>7. ASSUME NEW w \in Upload, phase[w] \in {"idle", "preparing"} PROVE Unknown(w)'
    BY <2>4, <2>5, <2>7 DEF OffersOnce
  <2>8. ~Stored(u)' /\ receiver'.id = u
    BY <1>10, <2>1, <2>4, <2>5 DEF Unknown
  <2> QED
    BY <1>2, <1>3, <2>6, <2>7, <2>8 DEF OffersOnce, IsOffer
<1>11. UNCHANGED incoming \/ NewFile
  BY IncomingMoves DEF Next
<1>12. CASE UNCHANGED incoming
  <2> DEFINE h == Head(toAgent[c])
  <2>1. PICK m : m = h
    OBVIOUS
  <2>2. \/ m.type = "file.offer" /\ OnFileOffer(m, c)
        \/ OnFileChunk(m) \/ OnFileComplete(m) \/ UNCHANGED receiver
    BY <2>1 DEF OnFileMessage, diskVars
  <2>3. m = q[c][1]
    BY <1>1, <1>4, <2>1
  <2> HIDE DEF h
  <2>4. CASE m.type = "file.offer" /\ OnFileOffer(m, c)
    BY <1>8, <1>10, <1>12, <2>3, <2>4 DEF OnFileOffer, diskVars
  <2>5. CASE OnFileChunk(m)
    <3>1. UNCHANGED receiver \/ receiver' = None
          \/ (receiver # None /\ receiver' = [receiver EXCEPT !.got = Append(@, <<m.id, m.n>>)])
      BY <2>5 DEF OnFileChunk, FailFileTransfer, ResetFileTransfer, diskVars
    <3>2. receiver' # None => receiver # None /\ receiver'.id = receiver.id
      BY <3>1 DEF DiskType, Receiver
    <3> QED
      BY <1>8, <1>12, <3>2
  <2>6. CASE OnFileComplete(m)
    BY <1>8, <1>12, <2>6 DEF OnFileComplete, FailFileTransfer, ResetFileTransfer, diskVars
  <2>7. CASE UNCHANGED receiver
    BY <1>8, <1>12, <2>7
  <2> QED
    BY <2>2, <2>4, <2>5, <2>6, <2>7
<1> QED
  BY <1>9, <1>11, <1>12

\* How an upload's phase changes: it never goes back, and "done" is what file.done says.
PhaseMove ==
    \/ UNCHANGED phase
    \/ \E u \in Upload, p \in Phases :
         /\ phase' = [phase EXCEPT ![u] = p] /\ phase[u] # "done" /\ p # "idle"
         /\ p = "preparing" => phase[u] = "idle"
         /\ p = "done" => Stored(u) /\ UNCHANGED incoming

\* One upload at a time.
LEMMA PhaseMoves ==
    ASSUME EndType, RunType, QueueType, [Next]_vars
    PROVE  PhaseMove
<1>1. ASSUME UNCHANGED runVars PROVE PhaseMove
  BY <1>1 DEF runVars, PhaseMove
<1>2. ASSUME NEW u \in Upload, UploadStep(u) PROVE PhaseMove
  <2>1. CASE SendFile(u)
    BY <2>1 DEF SendFile, Fresh, Started, PhaseMove, Phases
  <2>2. CASE Offer(u)
    BY <2>2 DEF Offer, PhaseMove, Phases
  <2>3. CASE PrepareFails(u) \/ UploadTimeout(u)
    BY <2>3 DEF PrepareFails, UploadTimeout, Ends, PhaseMove, Phases
  <2>4. CASE StreamChunk(u)
    <3>1. phase[u] = "sending" /\ (UNCHANGED phase \/ \E p \in {"error", "verifying"} :
                                      phase' = [phase EXCEPT ![u] = p])
      <4>1. phase[u] = "sending"
        BY <2>4 DEF StreamChunk
      <4>2. CASE vEnd[via[u]] # "open"
        BY <2>4, <4>1, <4>2 DEF StreamChunk, Ends
      <4>3. CASE vEnd[via[u]] = "open"
        <5>1. phase' = [phase EXCEPT ![u] = IF sent[u] + 1 = Chunks THEN "verifying" ELSE @]
          BY <2>4, <4>3 DEF StreamChunk
        <5> QED
          BY <4>1, <5>1 DEF RunType
      <4> QED
        BY <4>2, <4>3
    <3> QED
      BY <3>1 DEF PhaseMove, Phases
  <2> QED
    BY <1>2, <2>1, <2>2, <2>3, <2>4 DEF UploadStep
<1>3. CASE ClosePeerResources
  <2>1. UNCHANGED phase \/ (fileUpload \in Upload /\ phase' = Rejected(fileUpload))
    BY <1>3 DEF ClosePeerResources, RunType
  <2>2. CASE fileUpload \in Upload /\ phase' = Rejected(fileUpload)
    <3>1. CASE phase[fileUpload] \in {"offered", "verifying"}
      BY <2>2, <3>1 DEF Rejected, PhaseMove, Phases
    <3>2. CASE phase[fileUpload] \notin {"offered", "verifying"}
      BY <2>2, <3>2 DEF Rejected, RunType, PhaseMove
    <3> QED
      BY <3>1, <3>2
  <2> QED
    BY <2>1, <2>2 DEF PhaseMove
<1>4. CASE ViewerMessage
  <2>1. UNCHANGED phase \/ \E u \in Upload : Answer(u)
    BY <1>4, AnswerMoves
  <2>2. UNCHANGED incoming
    BY <1>4 DEF ViewerMessage, diskVars
  <2> QED
    BY <2>1, <2>2 DEF Answer, PhaseMove, Phases
<1>5. ASSUME NEW c \in Channel, Connection(c) PROVE PhaseMove
  BY <1>1, <1>5, ConnectionFrame
<1>6. ASSUME NEW c \in Channel, OnClose(c) \/ OnFileMessage(c) \/ DiskFails(c) PROVE PhaseMove
  BY <1>1, <1>6 DEF OnClose, OnFileMessage, DiskFails
<1>7. ASSUME NEW c \in 0..MaxChannel, ClosePeer(c) PROVE PhaseMove
  BY <1>1, <1>7 DEF ClosePeer
<1>8. CASE DownloadStep
  BY <1>1, <1>8, DownloadFrame
<1>9. ASSUME NEW d \in Download, DownloadFile(d) PROVE PhaseMove
  BY <1>1, <1>9 DEF DownloadFile
<1>10. ASSUME NEW v \in verifying, FinishDownload(v) PROVE PhaseMove
  BY <1>1, <1>10 DEF FinishDownload
<1>11. CASE UNCHANGED vars
  BY <1>1, <1>11 DEF vars
<1> QED
  BY <1>2, <1>3, <1>4, <1>5, <1>6, <1>7, <1>8, <1>9, <1>10, <1>11, NextCases

\* Every step keeps the offers in order.
LEMMA OffersStep ==
    ASSUME OffersOnce, QueueType, EndType, RunInv, DiskType, IncomingOK, [Next]_vars
    PROVE  OffersOnce'
<1>1. RunType
  BY DEF RunInv
<1>2. \A u \in Upload : phase'[u] \in {"idle", "preparing"} => phase[u] \in {"idle", "preparing"}
  BY <1>1, PhaseMoves DEF PhaseMove, RunType
<1>3. ASSUME UNCHANGED <<incoming, toAgent>>,
             receiver' # None => receiver # None /\ receiver'.id = receiver.id
      PROVE  OffersOnce'
  BY <1>2, <1>3, OffersStay
<1>4. ASSUME NEW c \in Channel, Connection(c) PROVE OffersOnce'
  BY <1>3, <1>4, ConnectionFrame DEF diskVars
<1>5. ASSUME NEW c \in Channel, OnFileMessage(c) PROVE OffersOnce'
  BY <1>5, OffersTaken
<1>6. ASSUME NEW c \in Channel, OnClose(c) \/ DiskFails(c) PROVE OffersOnce'
  <2>1. toAgent' = [toAgent EXCEPT ![c] = <<>>] /\ UNCHANGED incoming
    BY <1>6 DEF OnClose, DiskFails
  <2>2. receiver' # None => receiver # None /\ receiver'.id = receiver.id
    <3>1. CASE OnClose(c)
      BY <3>1 DEF OnClose, ResetFileTransfer
    <3>2. CASE DiskFails(c)
      <4>1. UNCHANGED receiver \/ (receiver # None /\ \E m :
               \/ receiver' = [receiver EXCEPT !.got = Append(@, <<m.id, m.n>>)]
               \/ receiver' = [receiver EXCEPT !.handle = FALSE])
        BY <3>2 DEF DiskFails
      <4> QED
        BY <4>1 DEF DiskType, Receiver
    <3> QED
      BY <1>6, <3>1, <3>2
  <2>3. \A d \in Channel : \A i \in DOMAIN toAgent'[d] :
          i \in DOMAIN toAgent[d] /\ toAgent'[d][i] = toAgent[d][i]
    <3>1. toAgent'[c] = <<>> /\ \A d \in Channel : d # c => toAgent'[d] = toAgent[d]
      BY <2>1 DEF QueueType
    <3>2. DOMAIN <<>> = {}
      OBVIOUS
    <3> QED
      BY <3>1, <3>2
  <2> QED
    BY <1>2, <2>1, <2>2, <2>3, OffersStay
<1>7. ASSUME NEW c \in 0..MaxChannel, ClosePeer(c) PROVE OffersOnce'
  BY <1>3, <1>7 DEF ClosePeer, ResetFileTransfer
<1>8. CASE ClosePeerResources \/ ViewerMessage
  BY <1>3, <1>8 DEF ClosePeerResources, ViewerMessage, diskVars
<1>9. CASE DownloadStep
  BY <1>3, <1>9, DownloadFrame DEF diskVars
<1>10. ASSUME NEW u \in Upload, UploadStep(u) PROVE OffersOnce'
  <2>1. UNCHANGED <<incoming, receiver>>
    BY <1>10, UploadFrame DEF diskVars
  <2>2. CASE UNCHANGED toAgent
    BY <1>3, <2>1, <2>2
  <2>3. CASE Offer(u)
    BY <1>1, <2>3, OffersMade
  <2>4. CASE StreamChunk(u) /\ toAgent' # toAgent
    <3>1. sent[u] + 1 \in 1..Chunks
      BY <2>4, Sizes DEF StreamChunk, RunInv, RunType, SentOK
    <3>2. PICK m : m = [type |-> "chunk", id |-> u, n |-> sent[u] + 1]
      OBVIOUS
    <3>3. PICK l : l = [type |-> "file.complete", id |-> u]
      OBVIOUS
    <3>4. m \in [type : {"chunk"}, id : Upload, n : 1..Chunks] /\ m.type # "file.offer"
      BY <3>1, <3>2
    <3>5. l \in [type : {"file.offer", "file.complete"}, id : Upload] /\ l.type # "file.offer"
      BY <3>3
    <3>6. m \in ToAgent /\ l \in ToAgent
      BY <3>4, <3>5 DEF ToAgent
    <3>7. /\ <<m>> \in Seq(ToAgent) /\ \A k \in DOMAIN <<m>> : <<m>>[k].type # "file.offer"
          /\ <<m, l>> \in Seq(ToAgent) /\ \A k \in DOMAIN <<m, l>> : <<m, l>>[k].type # "file.offer"
      BY <3>4, <3>5, <3>6
    <3>8. ViewerSends(<<m>>) \/ ViewerSends(<<m, l>>)
      BY <2>4, <3>2, <3>3 DEF StreamChunk
    <3> QED
      BY <1>2, <2>1, <3>7, <3>8, OffersSent
  <2> QED
    BY <1>10, <2>2, <2>3, <2>4 DEF UploadStep, SendFile, PrepareFails, UploadTimeout
<1>11. ASSUME NEW d \in Download, DownloadFile(d) PROVE OffersOnce'
  <2>1. PICK m : m = [type |-> "file.download", id |-> d]
    OBVIOUS
  <2>2. m \in [type : {"file.download"}, id : Download] /\ m.type # "file.offer"
    BY <2>1
  <2>3. m \in ToAgent
    BY <2>2 DEF ToAgent
  <2>4. <<m>> \in Seq(ToAgent) /\ \A k \in DOMAIN <<m>> : <<m>>[k].type # "file.offer"
    BY <2>2, <2>3
  <2>5. ViewerSends(<<m>>) /\ UNCHANGED <<incoming, receiver>>
    BY <1>11, <2>1 DEF DownloadFile, diskVars
  <2> QED
    BY <1>2, <2>4, <2>5, OffersSent
<1>12. ASSUME NEW v \in verifying, FinishDownload(v) PROVE OffersOnce'
  BY <1>3, <1>12 DEF FinishDownload, diskVars
<1>13. CASE UNCHANGED vars
  BY <1>3, <1>13 DEF vars, diskVars
<1> QED
  BY <1>4, <1>5, <1>6, <1>7, <1>8, <1>9, <1>10, <1>11, <1>12, <1>13, NextCases

-----------------------------------------------------------------------------
(* The invariant *)

\* It holds at the start.
LEMMA InitInv == Init => IInv
<1> SUFFICES ASSUME Init PROVE IInv
  OBVIOUS
<1>1. EndType /\ RunType /\ ShowType /\ DiskType /\ LoadType
  <2>1. EndType
    BY Sizes DEF Init, EndType
  <2>2. RunType
    BY Sizes DEF Init, RunType, Phases
  <2>3. ShowType /\ DiskType /\ LoadType
    BY Sizes DEF Init, ShowType, DiskType, LoadType
  <2> QED
    BY <2>1, <2>2, <2>3
<1>2. QueueType
  <2>1. <<>> \in Seq(ToAgent) /\ <<>> \in Seq(ToViewer)
    BY EmptySeq
  <2> QED
    BY <2>1 DEF Init, QueueType
<1>3. NoLeftovers /\ ReceiverHasChannel /\ SlotHeld
  BY DEF Init, NoLeftovers, ReceiverHasChannel, SlotHeld
<1>4. SentOK /\ IncomingOK /\ DoneIsStored
  BY DEF Init, SentOK, IncomingOK, DoneIsStored
<1>5. OffersOnce
  <2>1. \A c \in Channel : DOMAIN toAgent[c] = {}
    BY DEF Init
  <2> QED
    BY <2>1 DEF Init, OffersOnce, Unknown, Stored
<1>6. DownloadPhases
  BY DEF Init, DownloadPhases
<1> QED
  BY <1>1, <1>2, <1>3, <1>4, <1>5, <1>6, TypeParts DEF IInv

\* Every step keeps it.
LEMMA StepInv ==
    ASSUME IInv, [Next]_vars
    PROVE  IInv'
<1>1. EndType /\ RunType /\ ShowType /\ DiskType /\ LoadType
  BY TypeParts DEF IInv
<1>2. EndType /\ DiskInv /\ LoadInv /\ RunInv /\ ShowInv /\ QueueType /\ IncomingOK /\ OffersOnce
  BY <1>1 DEF IInv, DiskInv, LoadInv, RunInv, ShowInv
<1>3. EndType'
  BY <1>2, EndStep
<1>4. DiskInv' /\ LoadInv' /\ RunInv' /\ ShowInv'
  BY <1>2, DiskStep, LoadStep, RunStep, ShowStep
<1>5. IncomingOK' /\ incoming \subseteq incoming'
  BY <1>1, <1>2, IncomingStep
<1>6. QueueType'
  BY <1>1, <1>2, <1>5, QueueStep
<1>7. OffersOnce'
  BY <1>1, <1>2, OffersStep
<1>8. DoneIsStored'
  <2>1. PhaseMove
    BY <1>1, <1>2, PhaseMoves
  <2>2. \A u : Stored(u) => Stored(u)'
    BY <1>5 DEF Stored
  <2> QED
    BY <1>1, <2>1, <2>2 DEF PhaseMove, RunType, IInv, DoneIsStored
<1>9. TypeOK' /\ (asked \in 0..MaxChannel)'
  <2>1. EndType' /\ RunType' /\ ShowType' /\ DiskType' /\ LoadType'
    BY <1>3, <1>4 DEF DiskInv, LoadInv, RunInv, ShowInv
  <2> QED
    BY <2>1 DEF TypeOK, EndType, RunType, ShowType, DiskType, LoadType
<1> QED
  BY <1>4, <1>5, <1>6, <1>7, <1>8, <1>9 DEF IInv, DiskInv, LoadInv, RunInv, ShowInv

\* The inductive invariant of file transfer: the types of both ends and of what is under way,
\* each upload offered and stored at most once, each download in one phase at a time.
THEOREM InvariantCorrect == Spec => []IInv
  BY InitInv, StepInv, PTL DEF Spec

\* abort(), _reset_file_transfer(), _cancel_download(): no transfer leaves a .part file, a
\* receiver or a download id behind, whichever channel's close event, failure or timeout
\* ends it.
THEOREM TransferCorrect == Spec => []TransferInv
<1>1. IInv => TransferInv
  BY DEF IInv, TransferInv, SlotHeld, DownloadSlotFreed
<1> QED
  BY <1>1, InvariantCorrect, PTL

-----------------------------------------------------------------------------
(* Both directions implement FileDelivery *)

\* A step that stores an upload, or shows it as done, is one of FileDelivery.
LEMMA UploadRefines ==
    ASSUME IInv, [Next]_vars
    PROVE  [Up!Next]_<<incoming, {u \in Upload : phase[u] = "done"}>>
<1>1. EndType /\ RunType /\ DiskType /\ QueueType /\ IncomingOK /\ OffersOnce
  BY TypeParts DEF IInv
<1>2. UNCHANGED incoming \/ NewFile
  BY <1>1, IncomingMoves
<1>3. PhaseMove
  BY <1>1, PhaseMoves
<1>4. CASE UNCHANGED phase /\ UNCHANGED incoming
  BY <1>4
<1>5. CASE NewFile
  <2>1. PICK t \in Upload : t = receiver.id /\ ~Stored(t)
    BY <1>1, <1>5 DEF NewFile, DiskType, Receiver, OffersOnce
  <2>2. PICK d \in Name \X (0..Cardinality(Upload)) :
          /\ \A f \in incoming : f.dest # d
          /\ incoming' = incoming \union {[dest |-> d, id |-> t, bytes |-> Content(t)]}
    BY <1>5, <2>1 DEF NewFile
  <2>3. Up!Store(t, d)
    BY <2>1, <2>2 DEF Up!Store, Stored
  <2>4. {u \in Upload : phase[u] = "done"}' = {u \in Upload : phase[u] = "done"}
    <3>1. CASE UNCHANGED phase
      BY <3>1
    <3>2. incoming' # incoming
      <4>1. PICK f : f.id = t /\ f \in incoming'
        BY <2>2
      <4> QED
        BY <2>1, <4>1 DEF Stored
    <3>3. CASE phase' # phase
      BY <1>1, <1>3, <3>2, <3>3 DEF PhaseMove, RunType
    <3> QED
      BY <3>1, <3>3
  <2> QED
    BY <2>3, <2>4 DEF Up!Next
<1>6. CASE UNCHANGED incoming /\ phase' # phase
  <2>1. PICK u \in Upload, p \in Phases :
          /\ phase' = [phase EXCEPT ![u] = p] /\ phase[u] # "done" /\ (p = "done" => Stored(u))
    BY <1>3, <1>6 DEF PhaseMove
  <2>2. CASE p = "done"
    <3>1. {w \in Upload : phase[w] = "done"}' = {w \in Upload : phase[w] = "done"} \union {u}
      BY <1>1, <2>1, <2>2 DEF RunType
    <3>2. Up!Report(u)
      BY <1>6, <2>1, <2>2, <3>1 DEF Up!Report, Stored
    <3> QED
      BY <1>6, <3>2 DEF Up!Next
  <2>3. CASE p # "done"
    <3>1. {w \in Upload : phase[w] = "done"}' = {w \in Upload : phase[w] = "done"}
      BY <1>1, <2>1, <2>3 DEF RunType
    <3> QED
      BY <1>6, <3>1
  <2> QED
    BY <2>2, <2>3
<1> QED
  BY <1>2, <1>4, <1>5, <1>6

\* finish(): a file appears in Incoming only whole, once per upload and without replacing
\* another, and the viewer shows "done" only for a file that is there.
THEOREM UploadsCorrect == Spec => UploadsDelivered
<1>1. Init => Up!Init
  BY DEF Init, Up!Init
<1> QED
  BY <1>1, UploadRefines, InvariantCorrect, PTL DEF Spec, UploadsDelivered, Up!Spec

\* The viewer saves nothing before finishDownload() has verified it.
LEMMA ShownMoves ==
    ASSUME IInv, [Next]_vars, \A v \in verifying : ~FinishDownload(v)
    PROVE  UNCHANGED <<saved, {d \in Download : shown[d] = "done"}>>
<1> USE DEF ShowType, DownloadPhases, Loading
<1>1. ShowType /\ DownloadPhases /\ EndType /\ QueueType
  BY TypeParts DEF IInv
<1>2. ASSUME UNCHANGED showVars PROVE UNCHANGED <<saved, {d \in Download : shown[d] = "done"}>>
  BY <1>2 DEF showVars
<1>3. ASSUME UNCHANGED saved, NEW d \in Download, shown[d] # "done", NEW p, p # "done",
             shown' = [shown EXCEPT ![d] = p]
      PROVE  UNCHANGED <<saved, {e \in Download : shown[e] = "done"}>>
  BY <1>1, <1>3
<1>4. ASSUME NEW d \in Download, DownloadFile(d)
      PROVE  UNCHANGED <<saved, {e \in Download : shown[e] = "done"}>>
  <2>1. shown[d] = "none" /\ shown' = [shown EXCEPT ![d] = "downloading"] /\ UNCHANGED saved
    BY <1>4 DEF DownloadFile, Fresh, Started
  <2> QED
    BY <1>3, <2>1
<1>5. CASE ClosePeerResources
  <2>1. UNCHANGED saved /\ (UNCHANGED shown \/
           (fileDownload # None /\ shown' = [shown EXCEPT ![fileDownload.id] = "error"]))
    BY <1>5 DEF ClosePeerResources
  <2>2. fileDownload # None => fileDownload.id \in Download /\ shown[fileDownload.id] # "done"
    BY <1>1
  <2> QED
    BY <1>3, <2>1, <2>2
<1>6. CASE ViewerMessage
  <2> DEFINE h == Head(toViewer[fileChannel])
  <2>1. PICK m : m = h
    OBVIOUS
  <2>2. UNCHANGED saved /\ (UNCHANGED shown \/
           (fileDownload # None /\ fileDownload.id = m.id /\ DownloadAnswered(m)))
    BY <1>6, <2>1 DEF ViewerMessage
  <2> HIDE DEF h
  <2>3. CASE fileDownload # None /\ fileDownload.id = m.id /\ DownloadAnswered(m)
    <3>1. m.id \in Download /\ shown[m.id] # "done"
      BY <1>1, <2>3
    <3>2. UNCHANGED shown \/ \E p \in {"verifying", "error"} : shown' = [shown EXCEPT ![m.id] = p]
      BY <2>3 DEF DownloadAnswered
    <3> QED
      BY <1>3, <2>2, <3>1, <3>2
  <2> QED
    BY <2>2, <2>3
<1>7. ASSUME NEW c \in Channel, Connection(c) PROVE UNCHANGED showVars
  BY <1>7, ConnectionFrame
<1>8. ASSUME NEW c \in Channel, OnClose(c) \/ OnFileMessage(c) \/ DiskFails(c)
      PROVE UNCHANGED showVars
  BY <1>8 DEF OnClose, OnFileMessage, DiskFails
<1>9. ASSUME NEW c \in 0..MaxChannel, ClosePeer(c) PROVE UNCHANGED showVars
  BY <1>9 DEF ClosePeer
<1>10. CASE DownloadStep
  BY <1>2, <1>10, DownloadFrame
<1>11. ASSUME NEW u \in Upload, UploadStep(u) PROVE UNCHANGED showVars
  BY <1>11, UploadFrame
<1>12. CASE UNCHANGED vars
  BY <1>2, <1>12 DEF vars
<1> QED
  BY <1>2, <1>4, <1>5, <1>6, <1>7, <1>8, <1>9, <1>10, <1>11, <1>12, NextCases

\* finishDownload() stores and reports in one step.
LEMMA DownloadRefines ==
    ASSUME IInv, [Next]_vars
    PROVE  [Down!Next]_<<saved, {d \in Download : shown[d] = "done"}>>
<1>1. ShowType /\ DownloadPhases
  BY TypeParts DEF IInv
<1>2. CASE \A v \in verifying : ~FinishDownload(v)
  BY <1>2, ShownMoves
<1>3. ASSUME NEW v \in verifying, FinishDownload(v)
      PROVE  [Down!Next]_<<saved, {d \in Download : shown[d] = "done"}>>
  <2>1. v.id \in Download /\ v.sha256 = Content(v.id) /\ shown[v.id] = "verifying"
    BY <1>1 DEF DownloadPhases
  <2>2. PICK t \in Download : t = v.id
    BY <2>1
  <2>3. CASE v.bytes = v.sha256
    <3>1. saved' = saved \union {[dest |-> t, id |-> t, bytes |-> Content(t)]}
      BY <1>3, <2>1, <2>2, <2>3 DEF FinishDownload
    <3>2. \A f \in saved : f.id # t /\ f.dest # t
      BY <1>1, <2>1, <2>2 DEF DownloadPhases
    <3>3. Down!Store(t, t)
      BY <3>1, <3>2 DEF Down!Store
    <3>4. shown' = [shown EXCEPT ![t] = "done"]
      BY <1>3, <2>2, <2>3 DEF FinishDownload
    <3>5. {d \in Download : shown[d] = "done"}' = {d \in Download : shown[d] = "done"} \union {t}
      BY <1>1, <3>4 DEF ShowType
    <3>6. \E f \in saved' : f.id = t
      <4>1. PICK f : f = [dest |-> t, id |-> t, bytes |-> Content(t)]
        OBVIOUS
      <4>2. f.id = t /\ f \in saved'
        BY <3>1, <4>1
      <4> QED
        BY <4>2
    <3>7. Down!Report(t)
      BY <3>5, <3>6 DEF Down!Report
    <3> QED
      BY <3>3, <3>7 DEF Down!Next
  <2>4. CASE v.bytes # v.sha256
    <3>1. UNCHANGED saved /\ shown' = [shown EXCEPT ![t] = "error"]
      BY <1>3, <2>2, <2>4 DEF FinishDownload
    <3>2. {d \in Download : shown[d] = "done"}' = {d \in Download : shown[d] = "done"}
      BY <1>1, <2>1, <2>2, <3>1 DEF ShowType
    <3> QED
      BY <3>1, <3>2
  <2> QED
    BY <2>3, <2>4
<1> QED
  BY <1>2, <1>3

\* finishDownload(): the browser gets a download only whole and at most once, although chunks
\* carry no id and the Outgoing file may shrink while it is read.
THEOREM DownloadsCorrect == Spec => DownloadsDelivered
<1>1. Init => Down!Init
  BY DEF Init, Down!Init
<1> QED
  BY <1>1, DownloadRefines, InvariantCorrect, PTL DEF Spec, DownloadsDelivered, Down!Spec

=============================================================================
