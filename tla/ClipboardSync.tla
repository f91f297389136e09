--------------------------- MODULE ClipboardSync ---------------------------
(***************************************************************************)
(* The clipboards of the two computers: the agent's monitor mirrors what   *)
(* is copied on the host to the viewer, and the viewer sets the host's     *)
(* clipboard to text or an image and has it pasted (__main__.py,           *)
(* windows_clipboard.py, useRemoteSession.ts, RemoteClipboard.tsx,         *)
(* ImageClipboardPanel.tsx).                                               *)
(*                                                                         *)
(* The Windows clipboard is external: what it holds, where that came from  *)
(* and the sequence number, which every change advances.  The agent's      *)
(* write of a text and its look at the number afterwards are two steps,    *)
(* and so are the monitor's look at the number and its read: the agent     *)
(* does nothing else in between, but another program may copy.  A text or  *)
(* an image is a value; the image that is read back is a re-encoded one,   *)
(* Normalize(i).                                                           *)
(***************************************************************************)
EXTENDS Integers, Sequences, FiniteSets

CONSTANTS
    Text, Image, Normalize(_), None,
    HostItem,       \* what the user of the host copies: texts, images, "other"
    RetryLimit,     \* CLIPBOARD_READ_RETRY_LIMIT
    Upload,         \* calls of sendRemoteClipboardImage(), taken in order
    ImageOf(_),     \* the image of an upload
    MaxSeq,         \* bound: changes of the host's clipboard
    MaxPastes,      \* bound: texts the viewer pastes
    MaxConn,        \* bound: connections
    MaxLate         \* bound: channels of ended connections that are still to open

ASSUME ClipboardAssumption ==
    /\ HostItem \subseteq Text \union Image \union {"other"}
    /\ Text \intersect Image = {} /\ "other" \notin Text \union Image
    /\ None \notin Text \union Image /\ None \notin Upload /\ None \notin [text : Text, seq : Nat]
    /\ \A i \in Image : Normalize(i) \in Image /\ Normalize(Normalize(i)) = Normalize(i)
    /\ Upload \subseteq Nat \ {0} /\ \A u \in Upload : ImageOf(u) \in Image
    /\ RetryLimit \in Nat \ {0}
    /\ MaxSeq \in Nat \ {0} /\ MaxPastes \in Nat /\ MaxConn \in Nat /\ MaxLate \in Nat

VARIABLES
    clip, from, seq,        \* the host's clipboard, who set it ("host", "viewer"), its number
    \* the agent
    monitor,                \* _clipboard_task is running
    seen,                   \* the number this poll saw, 0 between polls
    last,                   \* _last_clipboard_sequence
    pending, tries,         \* the number being retried, and how often
    writing,                \* the text just written, until its number is remembered
    echo,                   \* _clipboard_text_echo with its sequence: [text, seq]
    imageEcho,              \* _clipboard_image_echo_digest
    sending,                \* the number whose image _send_clipboard_image_to_viewer() streams
    incoming,               \* _incoming_clipboard_image: the upload on offer, its bytes
    granted,                \* the control grant is active
    own,                    \* which of _control_channel and _clipboard_image_channel
                            \* are the present connection's
    late,                   \* channels of older connections that are still to open
    stale,                  \* a channel of an older connection is still to close
    \* the channels, viewer to agent and agent to viewer
    control, images, answers,
    \* the viewer
    conn,                   \* number of the connection, 0 for none
    used,                   \* connections made so far
    current,                \* clipboardImageUpload.current
    phase,                  \* where each upload is
    over,                   \* uploads that captured the channel of the present connection
    pastes,                 \* pasteToRemote() calls so far
    \* history
    written,                \* uploads that reached the clipboard
    echoes,                 \* texts of its own that were staged for the viewer
    owed                    \* the present copy is a program's, made while the monitor ran and
                            \* not while the agent was writing the same text; it was neither
                            \* sent on the present connection's channel nor given up

hostVars == <<clip, from, seq>>
monitorVars == <<monitor, seen, last, pending, tries, writing, echo, imageEcho, sending, owed>>
uploadVars == <<current, phase, over>>
linkVars == <<conn, used, own, late, stale>>
wireVars == <<control, images, answers>>
vars == <<hostVars, monitorVars, uploadVars, linkVars, wireVars, incoming, granted,
          echoes, pastes, written>>

Channel == {"control", "image"}
Phases == {"idle", "hashing", "streaming", "waiting", "done"}

TypeOK ==
    /\ clip \in Text \union Image \union {"other"} /\ from \in {"host", "viewer"}
    /\ seq \in 1..MaxSeq
    /\ monitor \in BOOLEAN /\ seen \in 0..seq /\ last \in 0..seq
    /\ pending \in 0..seq /\ tries \in 0..RetryLimit
    /\ writing \in Text \union {None}
    /\ echo # None => echo.text \in Text /\ echo.seq \in 1..seq
    /\ imageEcho \in Image \union {None}
    /\ sending \in 0..seq
    /\ incoming # None => incoming.id \in Upload
    /\ granted \in BOOLEAN /\ stale \in BOOLEAN
    /\ own \subseteq Channel /\ late \subseteq Channel
    /\ conn \in 0..MaxConn /\ current \in Upload \union {None}
    /\ phase \in [Upload -> Phases] /\ over \subseteq Upload
    /\ owed \in BOOLEAN /\ echoes \subseteq Text

Init ==
    /\ clip \in HostItem /\ from = "host" /\ seq = 1
    /\ monitor = FALSE /\ seen = 0 /\ last = 0 /\ pending = 0 /\ tries = 0
    /\ writing = None /\ echo = None /\ imageEcho = None /\ sending = 0 /\ incoming = None
    /\ granted = FALSE /\ own = {} /\ late = {} /\ stale = FALSE
    /\ control = <<>> /\ images = <<>> /\ answers = <<>>
    /\ conn = 0 /\ used = 0
    /\ current = None /\ phase = [u \in Upload |-> "idle"] /\ over = {}
    /\ echoes = {} /\ pastes = 0
    /\ written = {} /\ owed = FALSE

-----------------------------------------------------------------------------
(* The host's clipboard: external *)

Changes(v, who) ==
    /\ clip' = v /\ from' = who /\ seq' = seq + 1
    /\ owed' = (who = "host" /\ v # writing)

\* A program of the host copies something.
HostCopies(v) ==
    /\ seq < MaxSeq /\ Changes(v, "host")
    /\ UNCHANGED <<monitor, seen, last, pending, tries, writing, echo, imageEcho, sending,
                   uploadVars, linkVars, wireVars, incoming, granted, echoes,
                   pastes, written>>

-----------------------------------------------------------------------------
(* Connections *)

\* No handler of the agent's event loop is between two of its steps.
LoopFree == seen = 0 /\ writing = None

\* _stop_clipboard_monitor()
StopMonitor ==
    /\ monitor' = FALSE /\ seen' = 0 /\ last' = 0 /\ pending' = 0 /\ tries' = 0
    /\ echo' = None /\ imageEcho' = None /\ sending' = 0

\* A new connection: _close_peer() ends what is left of the old one, the channels
\* attach, and _run_clipboard_monitor() seeds itself with the present number.
Connect ==
    /\ conn = 0 /\ used < MaxConn /\ LoopFree
    /\ conn' = used + 1 /\ used' = used + 1
    /\ monitor' = TRUE /\ seen' = 0 /\ last' = seq /\ pending' = 0 /\ tries' = 0
    /\ echo' = None /\ imageEcho' = None /\ sending' = 0
    /\ incoming' = None /\ granted' = TRUE /\ own' = Channel
    /\ owed' = FALSE
    /\ UNCHANGED <<hostVars, uploadVars, late, stale, writing, wireVars, echoes,
                   pastes, written>>

\* What the loss of the connection does to the current upload.
Abandon == /\ phase' = IF current = None THEN phase ELSE [phase EXCEPT ![current] = "done"]
           /\ current' = None /\ over' = {}

\* closePeerResources() in the viewer; the agent sees its channels close, or, if its
\* peer stalls, only later.  Of a connection that
\* ended so early that it saw no channel, channels may still open.
Disconnect ==
    /\ conn # 0 /\ LoopFree /\ conn' = 0 /\ own' = {}
    /\ control' = <<>> /\ images' = <<>> /\ answers' = <<>>
    /\ Abandon
    /\ \/ /\ StopMonitor /\ incoming' = None /\ UNCHANGED stale
          /\ \E some \in SUBSET Channel :
               late' = late \union some /\ Cardinality(late') <= MaxLate
       \/ /\ stale' = TRUE
          /\ UNCHANGED <<late, monitor, seen, last, pending, tries, echo, imageEcho, sending, incoming>>
    /\ UNCHANGED <<hostVars, used, writing, granted, echoes, pastes,
                   written, owed>>

\* A channel of an older connection opens late, and on_datachannel() takes it for the
\* present one's: what is sent on it no longer reaches the viewer.
StaleOpens(c) ==
    /\ c \in late /\ LoopFree
    /\ late' = late \ {c} /\ stale' = TRUE /\ own' = own \ {c}
    /\ incoming' = IF c = "image" THEN None ELSE incoming
    /\ IF c = "control" /\ ~monitor
       THEN monitor' = TRUE /\ last' = seq /\ pending' = 0 /\ tries' = 0 /\ owed' = FALSE
       ELSE UNCHANGED <<monitor, last, pending, tries, owed>>
    /\ UNCHANGED <<hostVars, seen, writing, echo, imageEcho, sending, uploadVars, conn, used,
                   wireVars, granted, echoes, pastes, written>>

\* The late close events of an older connection stop the monitor of the present one.
StaleClose ==
    /\ stale /\ LoopFree /\ stale' = FALSE
    /\ StopMonitor /\ incoming' = None
    /\ UNCHANGED <<hostVars, writing, uploadVars, conn, used, own, late, wireVars, granted,
                   echoes, pastes, written, owed>>

\* The control grant lapses or is revoked; only a new session request grants it again.
GrantLapses ==
    /\ granted /\ LoopFree /\ granted' = FALSE
    /\ UNCHANGED <<hostVars, monitorVars, uploadVars, linkVars, wireVars, incoming, echoes,
                   pastes, written>>

-----------------------------------------------------------------------------
(* The monitor *)

\* _run_clipboard_monitor() wakes and compares the sequence number.
PollNumber ==
    /\ monitor /\ sending = 0 /\ LoopFree /\ seq # last
    /\ seen' = seq /\ pending' = seq
    /\ tries' = IF seq = pending THEN tries ELSE 0
    /\ UNCHANGED <<hostVars, monitor, last, writing, echo, imageEcho, sending, owed,
                   uploadVars, linkVars, wireVars, incoming, granted, echoes, pastes, written>>

\* Mutant: the echo is recognised by its content alone.
EchoByContent(text) == echo # None /\ text = echo.text

\* The text is the viewer's own, at the number its write made.
IsEcho(text) == echo # None /\ text = echo.text /\ seen = echo.seq

\* The monitor is done with the number this poll saw.
Consumed == last' = seen /\ pending' = 0 /\ tries' = 0 /\ seen' = 0

\* clipboard.text at the viewer: staged, never written to its own clipboard; noted here is
\* only what it had written to the host itself.
StageText(t) ==
    IF "control" \in own
    THEN owed' = FALSE /\ echoes' = IF from = "viewer" THEN echoes \union {t} ELSE echoes
    ELSE UNCHANGED <<owed, echoes>>

\* _forward_clipboard_text(): whatever channel it is, the text counts as handled.
ForwardText ==
    /\ clip \in Text
    /\ echo' = IF echo # None /\ (IsEcho(clip) \/ seen # echo.seq) THEN None ELSE echo
    /\ IF IsEcho(clip) THEN UNCHANGED <<owed, echoes>> ELSE StageText(clip)
    /\ Consumed
    /\ UNCHANGED <<imageEcho, sending>>

\* A channel that is not the present connection's need not be open: the text waits.
HoldText ==
    /\ clip \in Text /\ "control" \notin own /\ seen' = 0
    /\ UNCHANGED <<last, pending, tries, echo, imageEcho, sending, owed, echoes>>

\* An image: suppressed as the viewer's own, or its transfer begins.
ForwardImage ==
    /\ clip \in Image
    /\ IF Normalize(clip) = imageEcho
       THEN imageEcho' = None /\ Consumed /\ UNCHANGED sending
       ELSE /\ sending' = seen
            /\ seen' = 0 /\ UNCHANGED <<imageEcho, last, pending, tries>>
    /\ UNCHANGED <<echo, owed, echoes>>

\* The clipboard is locked, or holds no known format: a retry, up to the limit.
Unreadable ==
    /\ IF tries + 1 < RetryLimit
       THEN tries' = tries + 1 /\ seen' = 0 /\ UNCHANGED <<last, pending, owed>>
       ELSE Consumed /\ owed' = (owed /\ seen # seq)
    /\ UNCHANGED <<echo, imageEcho, sending, echoes>>

\* The rest of the poll: what is read may be newer than the number seen.
PollRead ==
    /\ seen # 0
    /\ ForwardText \/ HoldText \/ ForwardImage \/ Unreadable
    /\ UNCHANGED <<hostVars, monitor, writing, uploadVars, linkVars, wireVars, incoming, granted,
                   pastes, written>>

\* _send_clipboard_image_to_viewer() ends, and the monitor is done with its number,
\* whether the image arrived at the viewer or its channel was replaced.
ImageSent ==
    /\ sending # 0 /\ LoopFree
    /\ last' = sending /\ pending' = 0 /\ tries' = 0 /\ sending' = 0
    /\ UNCHANGED <<hostVars, monitor, seen, writing, echo, imageEcho, owed, uploadVars,
                   linkVars, wireVars, incoming, granted, echoes, pastes, written>>

-----------------------------------------------------------------------------
(* Text from the viewer *)

\* emitControl() sends only during control.
CanEmit == conn # 0 /\ granted

\* RemoteClipboard's pasteToRemote(): clipboard.set; the Ctrl+V chord behind it on the same
\* channel changes nothing here.
PasteText(t) ==
    /\ CanEmit /\ pastes < MaxPastes
    /\ pastes' = pastes + 1
    /\ control' = Append(control, [type |-> "clipboard.set", text |-> t])
    /\ UNCHANGED <<hostVars, monitorVars, uploadVars, linkVars, images, answers, incoming,
                   granted, echoes, written>>

\* write_clipboard_text() succeeds and closes the clipboard.
SetText(t) == Changes(t, "viewer") /\ writing' = t

\* _on_control_message(): _handle_clipboard_set() writes, or does not (too soon after
\* the last, or the clipboard is locked), or has emptied the clipboard and fails; the
\* chord is left to the input controller.
OnControl ==
    /\ control # <<>> /\ LoopFree /\ seq < MaxSeq
    /\ control' = Tail(control)
    /\ LET m == Head(control) IN
       \/ m.type = "clipboard.set" /\ granted /\ SetText(m.text)
       \/ m.type = "clipboard.set" /\ granted /\ Changes("other", "viewer") /\ UNCHANGED writing
       \/ UNCHANGED <<hostVars, writing, owed>>
    /\ UNCHANGED <<monitor, seen, last, pending, tries, echo, imageEcho, sending,
                   uploadVars, linkVars, images, answers, incoming, granted, echoes,
                   pastes, written>>

\* Mutant: the write is not remembered.
RememberNothing ==
    /\ writing # None /\ writing' = None
    /\ UNCHANGED <<hostVars, monitor, seen, last, pending, tries, echo, imageEcho, sending, owed,
                   uploadVars, linkVars, wireVars, incoming, granted, echoes,
                   pastes, written>>

\* The rest of _handle_clipboard_set(): the text is remembered with the number of now.
RememberText ==
    /\ writing # None /\ writing' = None /\ echo' = [text |-> writing, seq |-> seq]
    /\ UNCHANGED <<hostVars, monitor, seen, last, pending, tries, imageEcho, sending, owed,
                   uploadVars, linkVars, wireVars, incoming, granted, echoes,
                   pastes, written>>

-----------------------------------------------------------------------------
(* Images from the viewer *)

\* sendRemoteClipboardImage() up to its awaits.  The panel's own `sending` flag is lost
\* when the panel is closed, so a second call may come while one hashes.
SendImage(u) ==
    /\ phase[u] = "idle" /\ \A w \in Upload : w < u => phase[w] # "idle"
    /\ conn # 0 /\ granted /\ current = None
    /\ phase' = [phase EXCEPT ![u] = "hashing"]
    /\ over' = over \union {u}
    /\ UNCHANGED <<hostVars, monitorVars, current, linkVars, wireVars, incoming, granted,
                   echoes, pastes, written>>

Ends(u) == phase' = [phase EXCEPT ![u] = "done"] /\ over' = over \ {u}

\* sendImageClipboardMessage(): on the channel of now, if there is one.
SendImageMessages(ms) == images' = IF conn = 0 THEN images ELSE images \o ms

\* The digest is there: the offer goes out on the channel of now, the bytes on the one
\* captured before; if that is gone the upload fails and the offer stays.
OfferImage(u) ==
    /\ phase[u] = "hashing"
    /\ SendImageMessages(<<[type |-> "offer", id |-> u]>>)
    /\ IF u \in over
       THEN phase' = [phase EXCEPT ![u] = "streaming"] /\ current' = u /\ UNCHANGED over
       ELSE Ends(u) /\ current' = None
    /\ UNCHANGED <<hostVars, monitorVars, linkVars, control, answers, incoming, granted,
                   echoes, pastes, written>>

\* streamFileChunks() and clipboard.image-complete.  An upload the agent has refused
\* goes on all the same: only a timeout or a teardown cancels.
StreamImage(u) ==
    /\ phase[u] = "streaming"
    /\ IF u \in over
       THEN /\ SendImageMessages(<<[type |-> "chunk", id |-> u], [type |-> "complete", id |-> u]>>)
            /\ phase' = [phase EXCEPT ![u] = "waiting"] /\ UNCHANGED <<current, over>>
       ELSE /\ Ends(u) /\ UNCHANGED images
            /\ current' = IF current = u THEN None ELSE current
    /\ UNCHANGED <<hostVars, monitorVars, linkVars, control, answers, incoming, granted,
                   echoes, pastes, written>>

\* The 20 s timer, which only the current upload still answers to.
ImageTimeout(u) ==
    /\ current = u
    /\ Ends(u) /\ current' = None
    /\ UNCHANGED <<hostVars, monitorVars, linkVars, wireVars, incoming, granted,
                   echoes, pastes, written>>

Answer(type, id) ==
    answers' = IF "image" \in own THEN Append(answers, [type |-> type, id |-> id]) ELSE answers
NoWrite == UNCHANGED <<hostVars, owed, imageEcho, written>>

OnImageOffer(u) ==
    /\ NoWrite
    /\ CASE ~granted -> incoming' = None /\ Answer("error", u)
         [] granted /\ incoming # None -> Answer("error", u) /\ UNCHANGED incoming
         [] OTHER -> incoming' = [id |-> u, got |-> <<>>] /\ UNCHANGED answers

OnImageChunk(u) ==
    /\ NoWrite
    /\ CASE incoming = None -> UNCHANGED <<incoming, answers>>
         [] incoming # None /\ incoming.got # <<>> -> incoming' = None /\ Answer("error", incoming.id)
         [] OTHER -> incoming' = [incoming EXCEPT !.got = <<u>>] /\ UNCHANGED answers

\* Mutant: the grant is asked for at the offer only.
CompleteUnguarded(u) ==
    IF incoming = None \/ incoming.id # u THEN NoWrite /\ UNCHANGED <<incoming, answers>>
    ELSE /\ incoming' = None
         /\ \/ Answer("error", u) /\ NoWrite
            \/ /\ incoming.got = <<u>>
               /\ Changes(ImageOf(u), "viewer")
               /\ imageEcho' = ImageOf(u) /\ written' = written \union {u}
               /\ Answer("applied", u)

\* The grant, size and digest are checked again; the write may fail, before or after
\* it has emptied the clipboard.
OnImageComplete(u) ==
    IF incoming = None \/ incoming.id # u THEN NoWrite /\ UNCHANGED <<incoming, answers>>
    ELSE /\ incoming' = None
         /\ \/ Answer("error", u) /\ NoWrite
            \/ /\ granted /\ incoming.got = <<u>> /\ Answer("error", u)
               /\ Changes("other", "viewer") /\ UNCHANGED <<imageEcho, written>>
            \/ /\ granted /\ incoming.got = <<u>>
               /\ Changes(ImageOf(u), "viewer")
               /\ imageEcho' = ImageOf(u) /\ written' = written \union {u}
               /\ Answer("applied", u)

\* _on_clipboard_image_message()
OnImageMessage ==
    /\ images # <<>> /\ LoopFree /\ seq < MaxSeq
    /\ images' = Tail(images)
    /\ LET m == Head(images) IN
       \/ m.type = "offer" /\ OnImageOffer(m.id)
       \/ m.type = "chunk" /\ OnImageChunk(m.id)
       \/ m.type = "complete" /\ OnImageComplete(m.id)
    /\ UNCHANGED <<monitor, seen, last, pending, tries, writing, echo, sending,
                   uploadVars, linkVars, control, granted, echoes, pastes>>

\* Mutant: the chord follows whatever the answer is.
PasteAnyway(m) == Append(control, [type |-> "paste", id |-> m.id])

\* ImageClipboardPanel's pasteToRemote(): the chord follows a success only.
PasteIfApplied(m) ==
    IF m.type = "applied" THEN Append(control, [type |-> "paste", id |-> m.id]) ELSE control

\* handleImageClipboardMessage() for the answer to the current upload.
ImageAnswered ==
    /\ answers # <<>>
    /\ answers' = Tail(answers)
    /\ LET m == Head(answers) IN
       IF m.id # current THEN UNCHANGED <<current, phase, over, control>>
       ELSE /\ current' = None
            /\ IF m.type # "applied" /\ phase[m.id] = "streaming" THEN UNCHANGED <<phase, over>>
               ELSE Ends(m.id)
            /\ control' = PasteIfApplied(m)
    /\ UNCHANGED <<hostVars, monitorVars, linkVars, images, incoming, granted,
                   echoes, pastes, written>>

-----------------------------------------------------------------------------
\* The event loop goes on with a handler or with the monitor's poll; at most one of these
\* is possible at a time.
AgentGoesOn == PollNumber \/ PollRead \/ ImageSent \/ RememberText

Next ==
    \/ \E v \in HostItem : HostCopies(v)
    \/ Connect \/ Disconnect \/ \E c \in Channel : StaleOpens(c)
    \/ StaleClose \/ GrantLapses
    \/ AgentGoesOn
    \/ \E t \in Text : PasteText(t)
    \/ OnControl \/ OnImageMessage \/ ImageAnswered
    \/ \E u \in Upload : SendImage(u) \/ OfferImage(u) \/ StreamImage(u) \/ ImageTimeout(u)

\* The agent's loop is scheduled; the rest of the system owes it nothing.
Spec == Init /\ [][Next]_vars /\ WF_vars(AgentGoesOn)

-----------------------------------------------------------------------------
(* Properties *)

\* _clipboard_text_echo: text the viewer wrote to the host does not come back to it,
\* whatever is copied between the write and the poll that sees it.
NoTextEcho == echoes = {}

\* The viewer changes the host's clipboard only while the control grant is active,
\* although an image arrives in several messages during which it may lapse.
WriteUnderGrant == [][seq' # seq /\ from' = "viewer" => granted]_vars

\* The paste chord of an image is sent only once that image was written, although the
\* image and the chord travel on different channels.
PasteAfterWrite == \A i \in DOMAIN control :
    control[i].type = "paste" => control[i].id \in written

\* A half-received image occupies the agent (BUSY) no longer than its connection.
ImageSlotFreed == incoming # None => conn # 0 \/ stale

\* A text copied on the host while the monitor runs on the viewer's own channel goes out on
\* that channel or is given up after the read limit, unless another copy, the end of the
\* monitor or the loss of the channel overtakes it, even if the viewer has just written the
\* same text.  Only a copy of that very text made between the agent's write and its look at
\* the number is taken for the echo.
EventuallyMirrored ==
    LET Unsent == /\ monitor /\ "control" \in own /\ clip \in Text /\ owed
    IN  Unsent ~> ~Unsent

\* The two channels of an image agree: the chord follows the write, and a half-received
\* image is gone with its connection.
ClipboardInv == TypeOK /\ PasteAfterWrite /\ ImageSlotFreed
=============================================================================
