---------------------------- MODULE FileTransfer ----------------------------
(***************************************************************************)
(* Files over the file-v1 DataChannel, both ends: uploads into the agent's *)
(* Incoming folder and downloads from its Outgoing folder                  *)
(* (file_transfer.py, outgoing.py, __main__.py, useRemoteSession.ts,       *)
(* fileUpload.ts).                                                         *)
(*                                                                         *)
(* Each connection of the viewer makes a new channel, numbered 1, 2, ...;  *)
(* an old one can outlive it at the agent, whose handlers never ask which  *)
(* channel a message or a close event came from.  One action per event     *)
(* handler, timer, or stretch of a coroutine between two awaits.           *)
(*                                                                         *)
(* A transfer id stands for its file, a file for its sequence of chunks,   *)
(* and a digest for the chunks themselves.  The browser and aiortc are     *)
(* external: a channel is ordered and reliable while it lives; what is in  *)
(* flight when it ends is lost; an exception that escapes a handler ends   *)
(* the delivery on its channel.                                            *)
(***************************************************************************)
EXTENDS Integers, Sequences, FiniteSets

CONSTANTS
    Upload, Download,   \* transfer ids, taken in order
    MaxTransfers,       \* bound: transfers the user starts
    Name, NameOf(_),    \* the name an upload offers
    Allowed,            \* names sanitize_filename() and the type policy accept
    None,
    Chunks,             \* chunks of a file
    MaxChannel          \* bound: connections of the viewer

ASSUME FileAssumption ==
    /\ Upload \subseteq Nat /\ Download \subseteq Nat /\ Upload \intersect Download = {}
    /\ IsFiniteSet(Upload) /\ None \notin Nat /\ MaxTransfers \in Nat
    /\ \A u \in Upload : NameOf(u) \in Name
    /\ Allowed \subseteq Name
    /\ Chunks \in Nat \ {0} /\ MaxChannel \in Nat \ {0}

Channel == 1..MaxChannel
Content(t) == [i \in 1..Chunks |-> <<t, i>>]
Bytes == Seq((Upload \union Download) \X (1..Chunks))

Receiver == [id : Upload, ch : Channel, got : Bytes, handle : BOOLEAN]
Loading == [id : Download, size : Nat, chunks : Bytes]
Task == [id : Download, ch : 0..MaxChannel, pos : 0..Chunks]

ASSUME RecordAssumption == None \notin Receiver /\ None \notin Loading /\ None \notin Task

VARIABLES
    \* the viewer
    fileChannel,       \* the current channel, 0 for null
    vEnd,              \* readyState of the viewer's end of each channel
    fileUpload,        \* fileUpload.current
    phase,             \* where the runUpload() of each upload is
    via,               \* the channel runUpload() captured
    sent,              \* chunks it has sent
    fileDownload,      \* fileDownload.current: [id, size, chunks]
    shown,             \* fileDownloadState of each download
    verifying,         \* finishDownload() calls waiting for a digest: [id, bytes, sha256]
    saved,             \* files handed to the browser
    \* the channels
    toAgent, toViewer,
    \* the agent
    aChannel,          \* _file_channel
    aEnd,              \* its end of each channel: "none" until answered, "answering"
                       \* until attached; "dead" still has readyState open
    receiver,          \* _file_receiver and _file_transfer_id, with the channel the
                       \* offer came by: [id, ch, got, handle]
    part,              \* .part files on disk
    incoming,          \* files in Incoming
    downloadId,        \* _download_transfer_id
    asked,             \* the channel its request came by
    task,              \* _download_task: [id, ch, pos]
    stalled            \* a peer.close() has timed out

runVars == <<fileUpload, phase, via, sent>>
showVars == <<fileDownload, shown, verifying, saved>>
diskVars == <<receiver, part, incoming>>
loadVars == <<downloadId, asked, task>>
endVars == <<fileChannel, vEnd, aChannel, aEnd, stalled>>
vars == <<runVars, showVars, diskVars, loadVars, endVars, toAgent, toViewer>>

Phases == {"idle", "preparing", "offered", "sending", "verifying", "done", "error"}

TypeOK ==
    /\ fileChannel \in 0..MaxChannel /\ aChannel \in 0..MaxChannel
    /\ vEnd \in [Channel -> {"none", "connecting", "open", "closed"}]
    /\ aEnd \in [Channel -> {"none", "answering", "open", "dead", "closing", "closed"}]
    /\ fileUpload \in Upload \union {None}
    /\ phase \in [Upload -> Phases]
    /\ via \in [Upload -> 0..MaxChannel] /\ sent \in [Upload -> 0..Chunks]
    /\ fileDownload \in Loading \union {None}
    /\ shown \in [Download -> {"none", "downloading", "verifying", "done", "error"}]
    /\ receiver \in Receiver \union {None}
    /\ receiver # None => Len(receiver.got) <= Chunks
    /\ part \subseteq Upload
    /\ downloadId \in Download \union {None} /\ task \in Task \union {None}
    /\ stalled \in BOOLEAN

Init ==
    /\ fileChannel = 0 /\ aChannel = 0 /\ stalled = FALSE
    /\ vEnd = [c \in Channel |-> "none"] /\ aEnd = [c \in Channel |-> "none"]
    /\ fileUpload = None /\ phase = [u \in Upload |-> "idle"]
    /\ via = [u \in Upload |-> 0] /\ sent = [u \in Upload |-> 0]
    /\ fileDownload = None /\ shown = [d \in Download |-> "none"]
    /\ verifying = {} /\ saved = {}
    /\ toAgent = [c \in Channel |-> <<>>] /\ toViewer = [c \in Channel |-> <<>>]
    /\ receiver = None /\ part = {} /\ incoming = {}
    /\ downloadId = None /\ asked = 0 /\ task = None

-----------------------------------------------------------------------------
(* Sending.  Neither end reports a message it could not send. *)

ViewerOpen == fileChannel # 0 /\ vEnd[fileChannel] = "open"

\* sendFileMessage() and the chunks before it: on the CURRENT channel, if it is open.
ViewerSends(ms) ==
    toAgent' = IF ViewerOpen /\ aEnd[fileChannel] \notin {"dead", "closed"}
               THEN [toAgent EXCEPT ![fileChannel] = @ \o ms] ELSE toAgent

\* _send_file() sends on _file_channel, _run_download() its chunks on the channel it
\* captured; what a dead or closed end takes is lost.
Delivered(q, c, ms) ==
    IF c # 0 /\ aEnd[c] = "open" /\ vEnd[c] # "closed"
    THEN [q EXCEPT ![c] = @ \o ms] ELSE q

AgentSends(ms) == toViewer' = Delivered(toViewer, aChannel, ms)

Error(t) == <<[type |-> "file.error", id |-> t]>>

-----------------------------------------------------------------------------
(* Connections *)

\* createPeerConnection() makes the channel of a new connection.
CreateChannel(c) ==
    /\ fileChannel = 0 /\ vEnd[c] = "none" /\ \A b \in 1..(c - 1) : vEnd[b] = "closed"
    /\ fileChannel' = c /\ vEnd' = [vEnd EXCEPT ![c] = "connecting"]
    /\ UNCHANGED <<runVars, showVars, diskVars, loadVars, aChannel, aEnd, stalled,
                   toAgent, toViewer>>

\* The channel opens at the viewer once the agent has answered.
ChannelOpens(c) ==
    /\ vEnd[c] = "connecting" /\ aEnd[c] # "none"
    /\ vEnd' = [vEnd EXCEPT ![c] = "open"]
    /\ UNCHANGED <<runVars, showVars, diskVars, loadVars, fileChannel, aChannel, aEnd,
                   stalled, toAgent, toViewer>>

\* What an upload does when its awaiting promise is rejected: only an upload that is
\* waiting for an answer has one.  finally clears fileUpload.current if it is still it.
Rejected(u) == [phase EXCEPT ![u] = IF @ \in {"offered", "verifying"} THEN "error" ELSE @]

\* closePeerResources(): a streaming upload finds `cancelled` (its channel closed) at
\* its next chunk; one that still hashes has no onFail and goes on.
ClosePeerResources ==
    /\ fileChannel # 0
    /\ phase' = IF fileUpload = None THEN phase ELSE Rejected(fileUpload)
    /\ fileUpload' = None
    /\ fileDownload' = None
    /\ shown' = IF fileDownload = None THEN shown
                ELSE [shown EXCEPT ![fileDownload.id] = "error"]
    /\ fileChannel' = 0 /\ vEnd' = [vEnd EXCEPT ![fileChannel] = "closed"]
    /\ toViewer' = [toViewer EXCEPT ![fileChannel] = <<>>]
    /\ UNCHANGED <<via, sent, verifying, saved, diskVars, loadVars, aChannel, aEnd,
                   stalled, toAgent>>

\* _reset_file_transfer(): abort() closes and unlinks the temp file.
ResetFileTransfer ==
    /\ receiver' = None
    /\ part' = IF receiver = None THEN part ELSE part \ {receiver.id}

\* _cancel_download()
CancelDownload == downloadId' = None /\ asked' = 0 /\ task' = None

\* _close_peer(), before the answer to the offer of channel c or (0) at the end of a
\* session.  The download is left alone: only a close event ends it.
ClosePeer(c) ==
    /\ c # 0 => fileChannel = c /\ aEnd[c] = "none"
    /\ c = 0 => aChannel # 0
    /\ ResetFileTransfer
    /\ aChannel' = 0
    /\ aEnd' = [b \in Channel |-> IF b = c THEN "answering" ELSE aEnd[b]]
    /\ UNCHANGED <<runVars, showVars, incoming, loadVars, fileChannel, vEnd, stalled,
                   toAgent, toViewer>>

\* The datachannel event of the new peer: _attach_file_channel().  An older channel is
\* still there only if its peer.close() timed out.
AttachFileChannel(c) ==
    /\ aEnd[c] = "answering" /\ vEnd[c] # "closed"
    /\ aEnd' = [aEnd EXCEPT ![c] = "open"]
    /\ aChannel' = c
    /\ stalled' = (stalled \/ \E b \in 1..(c - 1) : aEnd[b] \notin {"none", "answering", "closed"})
    /\ UNCHANGED <<runVars, showVars, diskVars, loadVars, fileChannel, vEnd, toAgent, toViewer>>

\* A channel being closed is "closing" before its close event.
EndCloses(c) ==
    /\ aEnd[c] \in {"open", "dead"}
    /\ aEnd' = [aEnd EXCEPT ![c] = "closing"]
    /\ UNCHANGED <<runVars, showVars, diskVars, loadVars, fileChannel, vEnd, aChannel,
                   stalled, toAgent, toViewer>>

\* Mutant: only the attached channel's close event resets.
OnCloseOfAttached(c) ==
    /\ aEnd[c] \in {"open", "dead", "closing"}
    /\ aEnd' = [aEnd EXCEPT ![c] = "closed"]
    /\ toAgent' = [toAgent EXCEPT ![c] = <<>>]
    /\ aChannel' = IF aChannel = c THEN 0 ELSE aChannel
    /\ IF aChannel = c THEN ResetFileTransfer /\ CancelDownload
       ELSE UNCHANGED <<receiver, part, loadVars>>
    /\ UNCHANGED <<runVars, showVars, incoming, fileChannel, vEnd, stalled, toViewer>>

\* The channel's close event, whichever channel is attached by now.
OnClose(c) ==
    /\ aEnd[c] \in {"open", "dead", "closing"}
    /\ aEnd' = [aEnd EXCEPT ![c] = "closed"]
    /\ toAgent' = [toAgent EXCEPT ![c] = <<>>]
    /\ aChannel' = IF aChannel = c THEN 0 ELSE aChannel
    /\ ResetFileTransfer
    /\ CancelDownload
    /\ UNCHANGED <<runVars, showVars, incoming, fileChannel, vEnd, stalled, toViewer>>

-----------------------------------------------------------------------------
(* Uploads *)

Started == {u \in Upload : phase[u] # "idle"} \union {d \in Download : shown[d] # "none"}

\* newTransferId()
Fresh(t, kind) == /\ Cardinality(Started) < MaxTransfers
                  /\ t \notin Started /\ \A s \in kind : s < t => s \in Started

\* sendFile()
SendFile(u) ==
    /\ Fresh(u, Upload) /\ fileUpload = None /\ ViewerOpen
    /\ fileUpload' = u
    /\ phase' = [phase EXCEPT ![u] = "preparing"]
    /\ via' = [via EXCEPT ![u] = fileChannel]
    /\ UNCHANGED <<sent, showVars, diskVars, loadVars, endVars, toAgent, toViewer>>

\* The end of runUpload(): sendFile()'s finally clears only its own upload.
Ends(u, how) ==
    /\ phase' = [phase EXCEPT ![u] = how]
    /\ fileUpload' = IF fileUpload = u THEN None ELSE fileUpload

\* The file is read and hashed: phase 1 offers it.  Nobody asks whether the upload was
\* torn down meanwhile.
Offer(u) ==
    /\ phase[u] = "preparing"
    /\ phase' = [phase EXCEPT ![u] = "offered"]
    /\ ViewerSends(<<[type |-> "file.offer", id |-> u]>>)
    /\ UNCHANGED <<fileUpload, via, sent, showVars, diskVars, loadVars, endVars, toViewer>>

\* arrayBuffer() or the digest rejects.
PrepareFails(u) ==
    /\ phase[u] = "preparing" /\ Ends(u, "error")
    /\ UNCHANGED <<via, sent, showVars, diskVars, loadVars, endVars, toAgent, toViewer>>

\* streamFileChunks() up to the next wait for buffer space; phase 3 follows the last
\* chunk at once.
StreamChunk(u) ==
    /\ phase[u] = "sending"
    /\ IF vEnd[via[u]] # "open"
       THEN Ends(u, "error") /\ UNCHANGED <<sent, toAgent>>
       ELSE LET n == sent[u] + 1
                chunk == [type |-> "chunk", id |-> u, n |-> n]
            IN /\ sent' = [sent EXCEPT ![u] = n]
               /\ phase' = [phase EXCEPT ![u] = IF n = Chunks THEN "verifying" ELSE @]
               /\ ViewerSends(IF n = Chunks THEN <<chunk, [type |-> "file.complete", id |-> u]>>
                              ELSE <<chunk>>)
               /\ UNCHANGED fileUpload
    /\ UNCHANGED <<via, showVars, diskVars, loadVars, endVars, toViewer>>

\* The 30 s timer of awaitSignal().  The agent is not told.
UploadTimeout(u) ==
    /\ phase[u] \in {"offered", "verifying"} /\ Ends(u, "error")
    /\ UNCHANGED <<via, sent, showVars, diskVars, loadVars, endVars, toAgent, toViewer>>

\* handleFileMessage() for file.accept, file.done and file.error of the current upload;
\* a promise that is settled ignores a second answer.
UploadAnswered(m) ==
    IF m.id # fileUpload THEN UNCHANGED <<fileUpload, phase>>
    ELSE CASE m.type = "file.accept" /\ phase[m.id] = "offered" ->
                  phase' = [phase EXCEPT ![m.id] = "sending"] /\ UNCHANGED fileUpload
           [] m.type = "file.done" /\ phase[m.id] = "verifying" -> Ends(m.id, "done")
           [] m.type = "file.error" /\ phase[m.id] \in {"offered", "verifying"} ->
                  Ends(m.id, "error")
           [] OTHER -> UNCHANGED <<fileUpload, phase>>

-----------------------------------------------------------------------------
(* The agent's receiver *)

FailFileTransfer == ResetFileTransfer /\ UNCHANGED incoming /\ AgentSends(Error(receiver.id))

\* _on_file_offer() and FileReceiver.begin()
OnFileOffer(m, c) ==
    IF receiver # None \/ NameOf(m.id) \notin Allowed
    THEN AgentSends(Error(m.id)) /\ UNCHANGED diskVars
    ELSE /\ receiver' = [id |-> m.id, ch |-> c, got |-> <<>>, handle |-> TRUE]
         /\ part' = part \union {m.id}
         /\ AgentSends(<<[type |-> "file.accept", id |-> m.id]>>)
         /\ UNCHANGED incoming

\* _on_file_chunk() and write_chunk(): the size is enforced against the declared one.
OnFileChunk(m) ==
    CASE receiver = None -> UNCHANGED <<diskVars, toViewer>>
      [] receiver # None /\ (~receiver.handle \/ Len(receiver.got) = Chunks) -> FailFileTransfer
      [] OTHER -> /\ receiver' = [receiver EXCEPT !.got = Append(@, <<m.id, m.n>>)]
                  /\ UNCHANGED <<part, incoming, toViewer>>

\* Mutant: the plain name is always used.
FirstIndex(name) == 0

\* _unique_destination(): the first free index of the name.
UniqueIndex(name) ==
    CHOOSE i \in 0..Cardinality(Upload) :
        /\ \A f \in incoming : f.dest # <<name, i>>
        /\ \A j \in 0..(i - 1) : \E f \in incoming : f.dest = <<name, j>>

\* finish(): the bytes it accepts are those the declared size and digest describe.
Verified(r) == r.got = Content(r.id)

\* _on_file_complete() and finish()
OnFileComplete(m) ==
    CASE receiver = None \/ m.id # receiver.id -> UNCHANGED <<diskVars, toViewer>>
      [] receiver # None /\ m.id = receiver.id /\ ~(receiver.handle /\ Verified(receiver)) ->
             FailFileTransfer
      [] OTHER ->
             /\ incoming' = {f \in incoming : f.dest # <<NameOf(m.id), UniqueIndex(NameOf(m.id))>>}
                    \union {[dest |-> <<NameOf(m.id), UniqueIndex(NameOf(m.id))>>,
                             id |-> m.id, bytes |-> receiver.got]}
             /\ part' = part \ {m.id} /\ receiver' = None
             /\ AgentSends(<<[type |-> "file.done", id |-> m.id]>>)

\* Mutant: a request for a missing file is ignored.
IgnoreMissing(m, c) ==
    IF downloadId # None THEN AgentSends(Error(m.id)) /\ UNCHANGED loadVars
    ELSE \/ UNCHANGED <<loadVars, toViewer>>
         \/ /\ downloadId' = m.id /\ asked' = c
            /\ task' = [id |-> m.id, ch |-> 0, pos |-> 0]
            /\ UNCHANGED toViewer

\* _on_file_download()
OnFileDownload(m, c) ==
    IF downloadId # None THEN AgentSends(Error(m.id)) /\ UNCHANGED loadVars
    ELSE \/ AgentSends(Error(m.id)) /\ UNCHANGED loadVars   \* not in Outgoing any more
         \/ /\ downloadId' = m.id /\ asked' = c
            /\ task' = [id |-> m.id, ch |-> 0, pos |-> 0]
            /\ UNCHANGED toViewer

\* _on_file_message(), from whichever channel.
OnFileMessage(c) ==
    /\ aEnd[c] = "open" /\ toAgent[c] # <<>>
    /\ toAgent' = [toAgent EXCEPT ![c] = Tail(@)]
    /\ LET m == Head(toAgent[c]) IN
       \/ m.type = "file.offer" /\ OnFileOffer(m, c) /\ UNCHANGED loadVars
       \/ m.type = "chunk" /\ OnFileChunk(m) /\ UNCHANGED loadVars
       \/ m.type = "file.complete" /\ OnFileComplete(m) /\ UNCHANGED loadVars
       \/ m.type = "file.download" /\ OnFileDownload(m, c) /\ UNCHANGED diskVars
    /\ UNCHANGED <<runVars, showVars, endVars>>

\* The disk refuses a new file, a write, or the final rename: the OSError is not a
\* FileTransferError and escapes the handler with the receiver still in place.
DiskFails(c) ==
    /\ aEnd[c] = "open" /\ toAgent[c] # <<>>
    /\ LET m == Head(toAgent[c]) IN
       \/ /\ m.type = "file.offer" /\ receiver = None /\ NameOf(m.id) \in Allowed
          /\ UNCHANGED receiver
       \/ /\ m.type = "chunk" /\ receiver # None /\ receiver.handle /\ Len(receiver.got) < Chunks
          /\ receiver' = [receiver EXCEPT !.got = Append(@, <<m.id, m.n>>)]
       \/ /\ m.type = "file.complete" /\ receiver # None /\ m.id = receiver.id
          /\ receiver.handle /\ Verified(receiver)
          /\ receiver' = [receiver EXCEPT !.handle = FALSE]
    /\ aEnd' = [aEnd EXCEPT ![c] = "dead"]
    /\ toAgent' = [toAgent EXCEPT ![c] = <<>>]
    /\ UNCHANGED <<runVars, showVars, part, incoming, loadVars, fileChannel, vEnd, aChannel,
                   stalled, toViewer>>

-----------------------------------------------------------------------------
(* Downloads *)

\* downloadFile()
DownloadFile(d) ==
    /\ Fresh(d, Download) /\ fileDownload = None /\ ViewerOpen
    /\ fileDownload' = [id |-> d, size |-> 0, chunks |-> <<>>]
    /\ shown' = [shown EXCEPT ![d] = "downloading"]
    /\ ViewerSends(<<[type |-> "file.download", id |-> d]>>)
    /\ UNCHANGED <<runVars, verifying, saved, diskVars, loadVars, endVars, toViewer>>

\* One turn of _run_download()'s loop, with the messages `before` it, for a task that
\* sends on channel ch and has sent pos chunks.
DownloadTurn(d, ch, pos, before) ==
    LET q == Delivered(toViewer, aChannel, before)
        chunk == [type |-> "chunk", id |-> d, n |-> pos + 1]
    IN CASE ch = 0 \/ aEnd[ch] \notin {"open", "dead"} \/ downloadId # d ->
                task' = None /\ toViewer' = q /\ UNCHANGED <<downloadId, asked>>
         [] pos < Chunks ->
                /\ task' = [id |-> d, ch |-> ch, pos |-> pos + 1]
                /\ toViewer' = Delivered(q, ch, <<chunk>>)
                /\ UNCHANGED <<downloadId, asked>>
         [] OTHER ->
                /\ task' = None /\ downloadId' = None /\ asked' = 0
                /\ toViewer' = Delivered(q, aChannel,
                                   <<[type |-> "file.download-complete", id |-> d,
                                      sha256 |-> Content(d)]>>)

\* _run_download() begins: it captures the channel that is attached by now.  A file
\* may have become shorter by the time it is read.
RunDownload ==
    /\ task # None /\ task.pos = 0
    /\ \/ \E size \in {Chunks, Chunks + 1} :
              DownloadTurn(task.id, aChannel, 0,
                  <<[type |-> "file.download-offer", id |-> task.id, size |-> size]>>)
       \/ /\ AgentSends(Error(task.id))     \* the file is gone
          /\ task' = None /\ downloadId' = None /\ asked' = 0
    /\ UNCHANGED <<runVars, showVars, diskVars, endVars, toAgent>>

\* The coroutine goes on after sleep(): the next chunk, or a read error.
ContinueDownload ==
    /\ task # None /\ task.pos > 0
    /\ \/ DownloadTurn(task.id, task.ch, task.pos, <<>>)
       \/ /\ task.pos < Chunks
          /\ aEnd[task.ch] \in {"open", "dead"} /\ downloadId = task.id
          /\ AgentSends(Error(task.id))
          /\ task' = None /\ downloadId' = None /\ asked' = 0
    /\ UNCHANGED <<runVars, showVars, diskVars, endVars, toAgent>>

\* handleFileMessage() for the current download, and finishDownload() up to its await.
DownloadAnswered(m) ==
    CASE m.type = "file.download-offer" ->
             fileDownload' = [fileDownload EXCEPT !.size = m.size]
             /\ UNCHANGED <<shown, verifying>>
      [] m.type = "file.download-complete" ->
             LET whole == Len(fileDownload.chunks) = fileDownload.size IN
             /\ fileDownload' = None
             /\ shown' = [shown EXCEPT ![m.id] = IF whole THEN "verifying" ELSE "error"]
             /\ verifying' = IF whole
                    THEN verifying \union {[id |-> m.id, bytes |-> fileDownload.chunks,
                                            sha256 |-> m.sha256]}
                    ELSE verifying
      [] OTHER ->
             /\ fileDownload' = None
             /\ shown' = [shown EXCEPT ![m.id] = "error"]
             /\ UNCHANGED verifying

\* A chunk has no id: it goes to whatever download is current.
HandleDownloadChunk(m) ==
    fileDownload' = IF fileDownload = None THEN None
                    ELSE [fileDownload EXCEPT !.chunks = Append(@, <<m.id, m.n>>)]

\* The message event of the current channel
ViewerMessage ==
    /\ fileChannel # 0 /\ toViewer[fileChannel] # <<>>
    /\ toViewer' = [toViewer EXCEPT ![fileChannel] = Tail(@)]
    /\ LET m == Head(toViewer[fileChannel]) IN
       CASE m.type = "chunk" ->
                HandleDownloadChunk(m) /\ UNCHANGED <<shown, verifying, fileUpload, phase>>
         [] m.type # "chunk" /\ fileDownload # None /\ fileDownload.id = m.id ->
                DownloadAnswered(m) /\ UNCHANGED <<fileUpload, phase>>
         [] OTHER -> UploadAnswered(m) /\ UNCHANGED <<fileDownload, shown, verifying>>
    /\ UNCHANGED <<saved, via, sent, diskVars, loadVars, endVars, toAgent>>

\* Mutant: finishDownload() trusts the size alone.
SaveUnverified(v) ==
    /\ verifying' = verifying \ {v}
    /\ saved' = saved \union {[dest |-> v.id, id |-> v.id, bytes |-> v.bytes]}
    /\ shown' = [shown EXCEPT ![v.id] = "done"]
    /\ UNCHANGED <<runVars, fileDownload, diskVars, loadVars, endVars, toAgent, toViewer>>

\* finishDownload() after the digest of v: the file is handed to the browser, or fails.
FinishDownload(v) ==
    /\ verifying' = verifying \ {v}
    /\ saved' = IF v.bytes = v.sha256
                THEN saved \union {[dest |-> v.id, id |-> v.id, bytes |-> v.bytes]} ELSE saved
    /\ shown' = [shown EXCEPT ![v.id] = IF v.bytes = v.sha256 THEN "done" ELSE "error"]
    /\ UNCHANGED <<runVars, fileDownload, diskVars, loadVars, endVars, toAgent, toViewer>>

-----------------------------------------------------------------------------
Next ==
    \/ \E c \in Channel :
          \/ CreateChannel(c) \/ ChannelOpens(c) \/ ClosePeer(c) \/ AttachFileChannel(c)
          \/ EndCloses(c) \/ OnClose(c) \/ OnFileMessage(c) \/ DiskFails(c)
    \/ ClosePeer(0) \/ ClosePeerResources \/ ViewerMessage
    \/ \E u \in Upload :
          \/ SendFile(u) \/ Offer(u) \/ PrepareFails(u) \/ StreamChunk(u) \/ UploadTimeout(u)
    \/ \E d \in Download : DownloadFile(d)
    \/ RunDownload \/ ContinueDownload
    \/ \E v \in verifying : FinishDownload(v)

\* The event loops run what is ready; peers connect; a peer that was closed ends in the
\* end; the browser notices a lost peer.
Fairness ==
    /\ WF_vars(ViewerMessage) /\ WF_vars(RunDownload) /\ WF_vars(ContinueDownload)
    /\ WF_vars(\E v \in verifying : FinishDownload(v))
    /\ \A c \in Channel :
          /\ WF_vars(ClosePeer(c)) /\ WF_vars(AttachFileChannel(c)) /\ WF_vars(OnFileMessage(c))
          /\ WF_vars(fileChannel = c /\ aEnd[c] \in {"dead", "closing", "closed"}
                     /\ ClosePeerResources)
          /\ WF_vars(aChannel # c /\ OnClose(c))
    /\ \A u \in Upload :
          WF_vars(Offer(u)) /\ WF_vars(StreamChunk(u)) /\ WF_vars(UploadTimeout(u))

Spec == Init /\ [][Next]_vars /\ Fairness

-----------------------------------------------------------------------------
(* Properties *)

Up == INSTANCE FileDelivery WITH
    Transfer <- Upload, Dest <- Name \X (0..Cardinality(Upload)),
    stored <- incoming, reported <- {u \in Upload : phase[u] = "done"}

Down == INSTANCE FileDelivery WITH
    Transfer <- Download, Dest <- Download,
    stored <- saved, reported <- {d \in Download : shown[d] = "done"}

\* finish(): a file appears in Incoming only whole, once per upload and without
\* replacing another, and the viewer shows "done" only for a file that is there,
\* although chunks and close events of an old channel reach the receiver of a new one.
UploadsDelivered == Up!Spec

\* finishDownload(): the browser gets a download only whole and at most once, although
\* chunks carry no id and the Outgoing file may shrink while it is read.
DownloadsDelivered == Down!Spec

\* abort(), _discard_temp(): a .part file exists only for the upload in progress.
NoLeftovers == \A u \in part : receiver # None /\ receiver.id = u

\* _reset_file_transfer(): a receiver does not outlive the channel its offer came by,
\* so an upload the viewer gave up blocks the agent (BUSY) at most until then.
ReceiverHasChannel == receiver # None => aEnd[receiver.ch] \in {"open", "dead", "closing"}

\* _download_transfer_id is set only while its coroutine runs or the channel it was
\* asked on has not ended: no download answers BUSY for ever.
DownloadSlotFreed ==
    downloadId # None =>
        \/ task # None /\ task.id = downloadId
        \/ aEnd[asked] \in {"open", "dead", "closing"}

\* A download the viewer shows as running ends, although the viewer has no timer for
\* it, unless a peer.close() timed out: then a late close event cancels it silently.
DownloadEnds ==
    \A d \in Download :
        shown[d] \in {"downloading", "verifying"} ~> (shown[d] \in {"done", "error"} \/ stalled)

\* Every upload ends, by its answers, its timers or its channel.
UploadEnds == \A u \in Upload : phase[u] # "idle" ~> phase[u] \in {"done", "error"}

\* What a transfer occupies (its .part file, its receiver, its download id) does not
\* outlive the transfer and the channel it came by, whichever channel's close event,
\* failure or timeout ends it: the agent never answers BUSY for ever.
TransferInv == TypeOK /\ NoLeftovers /\ ReceiverHasChannel /\ DownloadSlotFreed

\* No transfer keeps the viewer waiting for ever, in either direction.
TransfersEnd == DownloadEnds /\ UploadEnds
=============================================================================
