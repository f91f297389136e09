# A TLA+ model of the remote desktop

This directory models the remote desktop's control path, **who may control the
host, for how long, and what is left pressed on it afterwards**, and around it the
signaling room, the viewer's side of a connection, access to the system, files,
the clipboards, input capture in the browser, screen capture and the video stream.
The modules are written from the source; every definition that stands for code is
listed with its lines in `PROJECT.json` (`map`).

## 1. Inventory

| Part | State | Operations | Talks to |
|---|---|---|---|
| Host agent (`__main__.py`) | local policy, emergency lock, grant and its deadline, adopted session, peer connection, data channels, watchdog task, tray status | reconnect loop, signaling messages, offer/answer, data channel callbacks, watchdog, tray, hotkey | room (WebSocket), viewer (WebRTC), Windows |
| Input controller (`input_control.py`) and sink (`windows_input.py`) | last sequence, pressed keys and buttons, two sliding windows, last activity | one per control message, `release_all`, watchdog tick | agent, Windows `SendInput` |
| Signaling room (`sessionRoom.ts`) | sockets with role and attachment, alarm, rate window | upgrade, message, close, error, alarm | agent, viewers |
| Viewer session (`useRemoteSession.ts`) | connection state, cycle, socket, peer, timers, transfers | connect, disconnect, recovery, reconnection, signaling messages | ticket function, room, agent |
| File transfer (`file_transfer.py`, `outgoing.py`, `fileUpload.ts`, `useRemoteSession.ts`) | one upload, one download, their promises and timers, the `.part` file | offer, chunk, finish, request, stream, verify, reset, cancel | both ends of `file-v1` |
| Clipboard (`__main__.py`, `windows_clipboard.py`, `RemoteClipboard.tsx`, `ImageClipboardPanel.tsx`) | sequence number, echo markers, incoming image, staged entries | poll, set, image transfer | both ends of `control-v1` / `clipboard-v1` |
| Input capture (`useInputCapture.ts`, `pointer.ts`) | forwarded keys, made-up Shift, touch phase and its timer, queued move | one per pointer, touch and keyboard event, blur, frame | browser, `control-v1` |
| Screen capture (`video.py`) | camera, lock, stopped flag, backoff | read in a thread, recover, stop | dxcam, event loop |
| Video stream (`h264_encoder.py`, `useRemoteSession.ts`, `__main__.py`) | profile at either end, bitrate, pending lower bitrate, receiver health, keyframe state | profile change, receiver report, estimate, frame | viewer, aiortc |
| Access (`functions/session/ticket.ts`, `accessAuth.ts`, `sessionTicket.ts`, `deviceToken.ts`, `ticket.ts`, worker `index.ts`, `productionWebSocket.ts`, `turnCredentials.ts`) | configuration; tokens carry the rest | issue, verify, upgrade, relay credentials | viewer, agent, room |
| Tray, hotkey, keep-awake (`tray.py`, `windows_emergency_stop.py`, `keep_awake.py`) | tray flags | toggle, lock, quit, restart | agent, through `call_soon_threadsafe` |

### What is hard

* **Awaits.** The agent is one asyncio loop; at every `await` of its main
  coroutine the callbacks of old and new connections, the watchdog task, the tray
  and the hotkey may run. `_close_peer()` awaits a `close()` that may time out and
  leave the old connection alive.
* **Failure.** Signaling blinks while the WebRTC session goes on; capture or input
  backends may be missing; the process may be restarted; the Durable Object may be
  hibernated or restarted.
* **Order.** A viewer may take over while the agent still answers the one before;
  a socket the room has closed may still deliver frames; in the browser the events and
  promise continuations of a torn-down connection run after the next one has started.
* **Threads.** Capture runs in executor threads while the event loop stops tracks; frames
  are encoded in one while the event loop sets the encoder's bitrate, without a lock.
* **Time.** The control lease, the input watchdog, the health of the peer, the
  heartbeat alarm (which may fire early), the rate windows, the encoder's holds, and
  clocks of services that differ.

The hazards that follow from this are listed at their lines in `PROJECT.json`
(`hazards`), each with the properties that would catch it or the reason why there is
none yet.

### What correctness means, per component

* Input controller: nothing is held down on the host that some release path would
  miss; whatever is held is under an armed watchdog; limits hold over every window of
  a controller and never stop a release; a replay presses nothing.
* Agent: input needs an unexpired lease *and* the local policy's consent; the
  emergency lock is final for the process; a controller never outlives its grant,
  its peer or its watchdog; only heartbeats renew.
* Room: one agent and one viewer; an agent that falls silent loses its slot; session
  requests are limited.
* Viewer session: one socket per cycle, a new cycle starts clean, stale events
  change nothing, a disconnect is final, nothing waits for ever.
* File transfer: a file appears only whole, once, under a name of its own, and is
  reported only then; a failed transfer leaves nothing and frees both ends.
* Clipboard: what was set remotely is not sent back, what is copied locally is not
  lost, a paste follows its image.
* Input capture: nothing stays down that the user let go of, letters have the case the
  user typed, the cursor follows the order of events.
* Access: a viewer was entitled a ticket's lifetime ago at most; tokens of one kind do
  not serve as another.
* Capture and video: a stopped track has no camera, no camera is lost, capture
  recovers; both ends name one profile; the bitrate falls when and only when it must.

## 2. Modules

| Module | Models |
|---|---|
| `InputGuard` | the abstract promise: what remote input holds down is watched, and is lifted when the viewer falls silent |
| `SlidingWindow` | the windows of the two rate limiters: timestamps as ages, what is pruned, how they grow |
| `InputControl` | `InputController` and `WindowsInputSink`; implements `InputGuard` |
| `HostAgent` | `M0Agent`: grant, peer and signaling lifecycle; composes the controller through `InputGuard`'s actions and implements `InputGuard` for the whole process |
| `SessionRoom` | the Durable Object with its sockets, alarm and rate window |
| `ViewerSession` | the connection cycle of `useRemoteSession()` |
| `FileDelivery` | the abstract promise of a file transfer, in either direction |
| `FileTransfer` | uploads and downloads at both ends; implements `FileDelivery` twice |
| `ClipboardSync` | the agent's clipboard monitor, writes of the viewer, images both ways |
| `InputCapture` | `useInputCapture()` and `pointer.ts` |
| `Access` | the ticket function, three kinds of tokens, the Worker's upgrade and TURN handlers |
| `ScreenCapture` | `DesktopDuplicationTrack`: capture jobs, recovery, stop |
| `VideoStream` | the video profile at both ends and `TunedH264Encoder`'s decisions |
| `MC`... | one per module with a run: the values of its constants for TLC |
| `SlidingWindowProofs` | lemmas on sliding windows, for `InputControlProofs` and `SignalingProofs` |
| `InputControlProofs`, `HostAgentProofs`, `FileTransferProofs`, `ClipboardSyncProofs` | theorems about the module of that name and their TLAPS proofs |
| `SignalingProofs` | the same for `SessionRoom` and `Access` |
| `ViewerProofs` | `ViewerSession` and `InputCapture` |
| `VideoProofs` | `VideoStream` and `ScreenCapture` |

`Access`, `InputCapture` and `ScreenCapture` name their specification after the component
(`AccessSpec`, `CaptureTypeOK`, `CameraNext`), so that a proof module can extend them
together with another module of the same part of the system.

Operators commented *Mutant* are variants of the definition below them with a
plausible bug. They are used by no specification; `PROJECT.json` (`mutants`) says
which property each of them must break.

### InputControl

`host_down` is what Windows holds down because of this sink; the other variables
are the fields of the controller under their own names. Each event is an action
that first consumes the sequence number (`Consume`, as `handle()` does before it
looks at the event) and then does what `_dispatch()` does. Key codes keep their map
to virtual keys because it is not injective: `Enter`, `NumpadEnter` and a newline in
composed text all move `VK_RETURN`. Coordinates, wheel deltas and text are reduced
to the outcome of the checks on them. The deques of timestamps are sequences of
ages, oldest first, pruned from the front as `popleft()` does; the two windows
differ in whether an entry of exactly one second is still live, as in the code.
`action_log` is a history variable: the actions this controller injected in the last window.
`Teardown` is `_stop_control_runtime()` followed by the next `InputController()`.

### HostAgent

`main` is where the main coroutine is suspended: between connections (`offline`),
in `connect()`, receiving, in the `peer.close()` of `_close_peer()` (`close`, with
`after` saying what follows), fetching ICE servers (`ice`), in the SDP steps
(`answer`), or ended. Everything else is an action that may run at any of these
points: the callbacks of *every* connection that still lives, the watchdog task,
queued policy updates, the tray and the hotkey. A connection whose `close()` timed
out lives on as an orphan until `OrphanDies`. The input controller is present
through `InputGuard`'s variables `down` and `idle`. `told` is the permission the
viewer was last told; `status` is what the tray shows. `CONTROL_GRANT_TTL_MS`, the
peer health timeout and the input watchdog are ticks.

A viewer's control message counts only if it carries the adopted session id
(`Speaks`); a message of any session first revokes a lapsed grant
(`LapsedMessage`), as `_on_control_message()` does.

### SessionRoom

A handler of a Durable Object has no await before its state changes are done, so
each is one action. `ready`, `kind`, `session` and `seen` are a socket's
`readyState`, its tag and its attachment. The environment is nondeterministic: a
handshake completes later than `acceptWebSocket()`, a closed socket may deliver what
was in flight (`LateFrames`), the alarm may fire up to `EarlyTicks` early, an idle
object is hibernated, and the object may be restarted without its sockets.
`adopted` is the session the agent stamps on its messages; `relayed` and `admitted`
are history.

Two assumptions on the platform are visible in the module: an agent's WebSocket
handshake takes less than a tick (the alarm is at least one timeout after it), and a
due alarm fires before time goes on.

### ViewerSession

JavaScript runs one event at a time, so every event listener, timer callback and
promise continuation of the hook is one action, and they interleave freely. A
handler captures the cycle it was registered in and only ever compares it with
`activeCycle`; the model therefore keeps `own`, the set of ticket requests, sockets
and peers that belong to the active cycle, in place of the counter. Advancing the
cycle empties `own`; the handles live on until the browser closes them, and their
events still happen. `TeardownForCycle` is the function of that name with its no-op
for a "truly idle" cycle, `ReleaseResources` what it frees. Most failures end in
`AbandonAndRetry` (teardown, then `scheduleAutoReconnect()`), some in `Abandon`.

A peer's `answered` stands between the applied answer and `connected`; a failed peer
counts as closed because it has no further events. The state `online` lasts only
within the handler of a socket's `open`, and `closing` only within a teardown, so
neither is a state between steps. `AcceptNegotiates` may happen twice on one socket
(the transition to `negotiating` is legal from itself): the first peer is then
leaked, and stays leaked after a teardown. The rejection of an answer or a candidate
is handled in the step that delivered it. An instance of the hook that is unmounted
still receives events; the next one has refs of its own (`Remount`). Identities of
handles are reused, so their number bounds only how many are alive at once.

### FileTransfer

Both ends of the `file-v1` channel, with a queue of messages in each direction per
channel. The agent's handlers never ask which channel an event came from, so a channel
of an old connection whose `peer.close()` timed out (`stalled`) can feed or reset the
transfer of the next one. `receiver` and `part` are the `FileReceiver` and its `.part`
file, `incoming` the files under their final names, `task` the download coroutine. An
upload is a coroutine of the viewer: `phase` says at which await it is, `via` which
channel it captured; `sendFileMessage()` uses the channel of the moment instead. Content
is a sequence of chunks tagged with their transfer, a digest the content itself, so a
mixture of two transfers is told from either. An exception that leaves a handler
(`DiskFails` outside the code's own handling) ends the delivery on its channel, as aiortc
does.

### ClipboardSync

The Windows clipboard is external: its content, its origin and its sequence number. Other
programs may copy between any two looks of the agent at it: the monitor's look at the
number (`PollNumber`) and its read (`PollRead`) are two steps, and so are the write of a
text (`SetText`, `writing`) and the look at the number that is remembered for its echo
(`RememberText`). The agent's own handlers run on one event loop and cannot come in between
(`LoopFree`). `Normalize` is the re-encoding that an image undergoes on its way through the
Windows clipboard. `clipboard.set` may write, be refused (rate limit, lock) or fail after
emptying the clipboard.

Channels of an older connection may open late (`late`, `StaleOpens`); `on_datachannel()`
takes them for the present ones, so `own` says which of the agent's two channels reach the
present viewer. What is sent on another one, open or not, is lost or held. They close late
too (`stale`), which stops whatever monitor is running. `owed`, `echoes` and `written` are
history: the copy that still has to reach the viewer, the viewer's own texts that came back
to it, and the uploads that reached the clipboard.

### InputCapture

The user's hands are `held`, `mouse` and `fingers`; the hook's closures are variables of
their names; `keys`, `buttons` and `cursor` are what the agent has after the messages
sent so far. Browsers lose Shift events (`NoKeyEvent`); a chord of mouse buttons reports
no `pointerup` for the first one released (`swallowed`). The position of a pointer is
the number of the event it comes from, and whether it is on the picture is computed from
the letterbox arithmetic of `pointer.ts`, scaled to integers.

### Access

A token is a record of its claims and the key that signed it; signatures are perfect. The
two services keep clocks of their own; configuration (which secrets are set, whether they
coincide or are too short) is chosen in `Init`. `reply` is the response of the last
request and `grants` the history of what Access vouched for. One step is one HTTP request.

### ScreenCapture

A capture job of each track runs in a thread, step by step; the camera lock is held
exactly across the steps the code holds it for. The event loop's `stop()` falls between
any two of them, and the job of a stopped track may go on beside its successor's. dxcam is
external, and modelled from the comments and calls in `video.py`: one registered camera
per output until it is released, `start()` refusing one that runs or failed.

### VideoStream

`shown` is the viewer's profile, `captured` the one the connection's closures see,
`profile` and `track` what the agent names and streams. Either end may lose its signaling
under a live peer: the viewer's recovery asks again (`Resume`), while the agent's return
(`AgentReturns`) makes an active viewer ask for nothing, and what the agent's socket took
with it, a confirmation or the request for one, is noted in `lost` until the agent next
says its profile to a viewer that hears it. Without the agent the room answers the viewer
itself (`Send`); a message the agent does not expect ends its socket (`AgentRefuses`).

The encoder is `target`, `ceiling`, the pending lower bitrate with its age, and the keyframe
state; ages replace times, and a frame of a new track has a clock that starts again. aiortc
calls `encode()` in an executor's thread while estimates are set on the event loop, and no
lock guards what both use. So `step` says where the thread is with its frame: each of its
looks at the pending bitrate, the target and the start of the hold is a step
(`LookAtLower`, `CompareLower`, three in `HoldLower` and `DecideDownshift`), and so is each
write (`DropLower`, `ApplyLower`, the first frame's `StartBitrate`). `setter` says where the
event loop is in the setter: what it has decided from its look at the target, then the write
of the target (`RaiseTarget`), then that of the pending bitrate (`ForgetLower`, `NoteLower`).
Two fields that one side writes without a look in between are written in one step, and the
scene detector's own fields, which only the thread uses, are moved when the frame is handed
over (`StartFrame`). Two assumptions: a frame and a call of the setter are short beside the
unit of time (half a second or more in the code's constants), and a new connection starts
when the agent has handled the old one's messages.

## 3. Runs

A run checks what several steps, usually of several actors, are needed to break. The
types of `InputControl`, `HostAgent` and `ViewerSession`, and the parts of all inductive
invariants that only serve the proofs, are proved for all constants (section 4) and not
checked again; in the other modules `TypeOK` is checked too, in most as a conjunct of the
module's invariant (`TransferInv`, `ClipboardInv`, `CaptureInv`, `AccessInv`, `CameraInv`,
`StreamInv`), whose other conjuncts are named after what they say.

| Run | Shows | Bounds |
|---|---|---|
| `input_control` | no order of presses, releases, refused and repeated messages, ticks and teardowns leaves an untracked or unwatched input down; no window of one controller has more actions than the limit; `InputControl` implements `InputGuard`, liveness included | three codes of which two share a virtual key, one button, one code outside the allowlist, limit 2 in a window of 2 ticks, watchdog 3, sequence numbers to 4 |
| `host_agent` | the agent's invariants and action properties; it implements `InputGuard`; a lapsed controller is dropped | one session next to the bootstrap id, two connections (one may be an orphan of the other), lease 2, health 1, watchdog 1 |
| `session_room` | occupancy, deadline and request limit; a silent agent is freed | three sockets (an agent, a viewer and a successor of either), one session, timeout 2, alarm up to 1 early, limit 2 per window of 2 |
| `viewer_session` | the viewer's invariants; late events are harmless; a requested session becomes active or is given up | one ticket request in flight at a time, two sockets, two peers alive at once (an old cycle's and the current one's), retry budget 1 |
| `file_transfer` | both directions implement `FileDelivery`; nothing is left over; both ends are freed; transfers end | two uploads under one name and two downloads, of which the user starts two, two chunks each, two connections |
| `clipboard_sync` | no echo, no loss, paste after write, write under grant, mirroring | one text (copied and pasted alike, the hard case for the echo marker), one image, two uploads, three clipboard changes, two connections, one late channel, retry limit 2 |
| `input_capture` | no stuck key or button, right case, cursor in order | one letter and both Shifts, two fingers, two mouse buttons, a pixel on the picture and one on the bar, five pointer events |
| `access` | entitlement, separation of roles, tolerance of clocks, relay for peers only | an account with and one without email, two sessions, one secret (so every coincidence of secrets happens) and a short one, clocks one tick apart either way, a lifetime of 2, one token in circulation |
| `screen_capture` | no camera after a stop, none lost, recovery | three tracks, two faults, four cameras |
| `video_stream` | both ends agree on the profile but for what was never sent or was lost; downshift exactly when sustained, whatever the setter does beside the thread; scene recovery stays armed | two profiles, holds of 2 and 1, and three scopes: one selection and one loss (of either signaling or the peer) with reports but no estimates; estimates below and above all bitrates; a low estimate and one selection |
| `shown_is_streamed` | *violated:* a resumed session streams another profile than both ends name | as `video_stream` |
| `never_stuck` | *violated:* with two ticket requests the establishment timer can be spent on a cycle that looks idle | two ticket requests, one peer |

The bounds are chosen so that each limit is reached and passed: a budget of two is
exhausted by two messages, a window of two ticks is crossed, a watchdog expires
before or after other timers, an orphaned connection and its successor are alive
together, a third socket meets one that is closing, the handles of a torn-down
cycle are alive next to the current ones, a transfer of one channel is in progress when
the close event of another arrives, and a third track's camera may be released by the
first one's job. The lease, health and watchdog constants are small because the code only
compares them with ages; what matters is that each may expire before each other, which the
runs reach. `viewer_session` has one ticket request because with two `NeverStuck` is
violated, which is a run of its own; the safety properties are proved for any number.
The unbounded counters are bounded by named constants: `MaxSequence`, `MaxTransfers`,
`MaxChannel`, `MaxSeq`, `MaxPastes`, `MaxConn`, `MaxEvents`, `MaxTime`, `MaxTokens`,
`MaxLate`, `MaxTracks`, `MaxFaults` and `Scopes`, the set of bounds a behaviour of
`VideoStream` may have (a selection, a loss and estimates of every kind together are more
states than a run can visit; the safety theorems hold for every set of scopes). Deadlock
is checked except where such a bound ends the behaviour and nobody need do anything more
(files, clipboard, capture, video).

### Fairness

* `InputControl`: weak fairness of `WatchdogTick` and `Tick`. The agent's watchdog
  task calls `on_watchdog_tick()` every second for as long as the controller
  exists. Nothing is assumed of the viewer.
* `HostAgent`: weak fairness of the watchdog's two outcomes, of queued policy
  updates, of `_close_peer()` ending one way or the other (it has a timeout), and of
  time. The network, viewers and the local user owe nothing.
* `SessionRoom`: the platform completes handshakes and closes, delivers the alarm
  and lets time pass. `Tick` is strongly fair because it waits for an agent's
  handshake to finish, and agents that keep connecting cannot stop time.
* `ViewerSession`: weak fairness of the three timers' callbacks. The ticket function,
  sockets, peers and the user owe nothing, so `NeverStuck` holds by the establishment
  timer alone. No timer is re-armed while the session is reserved or negotiating, so
  fairness does not stand for an expiry that re-arming would prevent.
* `FileTransfer`: the two event loops run what is ready (messages, coroutines, timers),
  a closed peer ends at last, and the browser notices a peer that is gone. The user owes
  nothing. `OnClose` is fair only for a channel that is not the attached one.
* `ClipboardSync`: the agent's event loop only, which goes on with the handler or the poll
  it is in (`AgentGoesOn`).
* `ScreenCapture`: the sender keeps asking for frames, threads and the event loop run,
  the backoff ends. Faults are finite, and nothing recovers on its own.
* `VideoStream`: while a track is sent frames are captured and encoded and time passes.
  Both are strongly fair, because a call of the setter, which returns (weak fairness), is
  the event loop's only business while it lasts, and estimates must not keep the thread or
  the clock from going on by coming often. Estimates and reports may come or not.
  `InputCapture` and `Access` have safety properties only.

## 4. Theorems

`tlapm` checks all proofs. Every safety property that a run checks is a theorem: it holds
for every value of the constants that satisfies the modules' assumptions. These are
`KeyAssumption`, `LimitAssumption`, `AgentAssumption`, `RoomAssumption`,
`ViewerAssumption`, `FileAssumption`, `RecordAssumption`, `ClipboardAssumption`,
`VideoAssumption`, `AccessAssumption`, `AccountAssumption` and the two
`CaptureAssumption`s (of `InputCapture` and of `ScreenCapture`). Most say that limits and
windows are positive, identifiers distinct, and `None` none of the values it stands beside. The others
are facts of the code: an alarm fires less than one timeout early; transfer ids are never
used twice or in both directions (they are UUIDs); normalizing an image twice changes
nothing more; a profile's bitrates are in order and a receiver report lives at least as
long as the degradation hold (5 s and 2 s, `h264_encoder.py:84`); an Access subject is not empty;
there are more cameras to create than tracks. TLC evaluates all of them in the runs.

* **InputControl.** `NothingStuck` and `TrackedIsArmed` are inductive together with
  the types: a release path lifts exactly the tracked set, so that nothing remains
  depends on everything being tracked, and a press arms the watchdog in the step
  that tracks it. `IInv` is the conjunction. `PressConsumesSequence` follows for each
  step. `RefinesGuard` is the safety half of
  `ImplementsGuard`: the initial state and every step map to `InputGuard`.
* **The two rate limiters.** `ActionsAreLimited` (`ActionRateBounded`) and
  `RequestsAreLimited` (`RequestsBounded`) are about the log of what one controller, or
  one life of the room's object, let through in the last window, a history variable the
  code does not have; the code only bounds the window it keeps, which holds refused
  actions too and prunes at its own times. `Limited` relates the two: the log is in order
  and recent, and the limiter's window has, counted from its end, an entry at most as old
  for each entry of the log (`Counted`). So pruning, which takes stale entries from the
  front, cannot take one the log still has (`CountedLive`), and the log is never longer
  than the window. That the front of an ordered window is exactly what is stale
  (`OrderedDrop`) rests on a set of indices closed downwards being an interval (`Prefix`),
  shown with a least element. In the room, hibernation empties the window: `Remembered`
  says that every logged request is at least as old as the room's silence, so after a
  window of silence the log is empty too.
* **HostAgent.** `IInv` is the types, `ControllerSupervised`, `GrantUnderPolicy`,
  `LockFailsClosed` and the facts about suspended coroutines they need (while the
  main coroutine is creating or closing a connection, which of `peer`, `closing` and
  the controller may exist). Without those `CreatePeer` could start a second
  controller next to a running one. `InputOnlyUnderLease`, `OnlyHeartbeatsRenew`,
  `LockIsOneWay` and the safety half of the refinement follow from it.
* **SessionRoom.** `RoomInv` is the socket types, `SingleOccupancy`,
  `AgentHasDeadline` and `FreshHandshake` (an agent still in its handshake has a
  full timeout ahead). The last one is what makes the alarm's early return safe:
  `alarm()` looks for an *open* agent and gives up the alarm when it finds none, so
  an alarm that fired during a handshake would leave the new agent without a
  deadline. `RoomTypeCorrect` is the whole `TypeOK`.
* **Access.** `AccessIInv` adds to the properties what the tokens in circulation are:
  every session ticket has the role, lifetime and grant of the step that signed it
  (`TokenOK`). Without it nothing relates the token a Worker accepts to what Access once
  vouched for, a request of another service on another clock.
* **ViewerSession.** `IInv` adds to the properties what the active cycle can own at
  each stage: a ticket request is alone before the first socket or belongs to a
  recovery without a socket (`OwnFetch`), a socket that does not resume is opened
  while offline (`OwnSocket`), a peer means negotiation at least (`OwnPeer`), and a
  recovery's timer is alone (`RecoveryAlone`). Without them `SocketOpens` could move a
  session that still has a peer back to `reserved`, and `RecoveryTicket` could open a
  second socket. Every kind of teardown is covered by one lemma (`Abandoned`).
  `StaleEventsHarmless` follows for each step from the handlers' comparisons.
* **InputCapture.** What the agent holds is related to the user through what the hook
  remembers: the agent's keys are among `forwardedKeys` (`KeysTracked`), a made-up Shift
  has a letter that is both held and forwarded (`RepairHasKey`; that it is held alone is
  not inductive, because `keyup` of a key that was never forwarded does not take the Shift
  along), a finger's left button has a finger (`DragHasFinger`), and when a second gesture
  starts over a drag there are two (`TwoFingers`). `QueueIsNewer` keeps the cursor in order.
* **FileTransfer.** Both refinements of `FileDelivery` (which has no fairness) are
  proved, for any number of transfers, chunks and channels. The hard part is that the
  agent's handlers do not ask which channel an event came from. `OffersOnce` says that an
  offer under way is the only one of its upload and that nothing of it is stored or being
  received; with `NoLeftovers` and what each queue may hold (`QueueType`: a `file.done` is
  only ever about a file that is there) a file appears once. The digest is the content, so
  a receiver fed by two channels never passes its check; a download is verified against
  the content its own channel announced (`DownloadPhases`).
* **ClipboardSync.** `NoTextEcho` needs `EchoKnown` (as long as the monitor has not
  consumed the number of the viewer's last text, the marker on record is that text's) and
  `PollCurrent` (the viewer's writes fall between polls, and no poll falls between a write
  and the look at its number). `PasteAfterWrite` needs what
  travels: an `applied` answer is only about an image that was written (`WireOK`).
* **VideoStream.** `AgentAndViewerAgree` speaks of quiet states only. `ProfileKnown` is
  its form for all states: a request is on its way to the agent, or the last message on
  its way to the viewer that carries a profile carries the agent's, or there is none and
  the viewer shows it, or the choice is unsent or the word lost. `DownshiftIsSustained`
  needs that no age the encoder keeps is older than what it stands for (`AgesBounded`), what
  the thread may rely on at each step although the setter writes beside it (`ThreadInv`), and
  what the setter may rely on beside the thread (`SetterInv`). `StreamInv` needs where a key
  frame that was asked for is: still owed, with the frame in the thread, or sent
  (`SceneInv`).
* **ScreenCapture.** `NoCameraLeaks` needs to know at which steps a job has a camera in
  its hands (`LocalHeld`, `LatestIsKnown`), and `StoppedHasNoCamera` that a starting job
  has the lock (`StartingLocked`) and what the event loop has just taken (`LoopOK`).

Only model-checked: liveness (`LapsedControlEnds`, `SilentAgentFreed`, `NeverStuck`,
`TransfersEnd`, `EventuallyMirrored`, `CaptureRecovers`, `LowerEstimateApplied` and the
fairness half of `ImplementsGuard`), which needs `ENABLED` and is out of this prover's
reach. There is one `SlidingWindow` for both limiters so that its lemmas are stated once.

## 5. What the checks found

The violated statements are in `PROJECT.json` (`findings`) with the line they
contradict. In these traces the safety properties above still hold: the host applies
nothing without a lease.

* `NeverStuck`: the answer to a ticket request clears `isConnecting` before it
  compares its cycle, so after cancel and connect in quick succession the running
  cycle looks idle to the establishment timer, and in the same way to `disconnect()`,
  which then cancels nothing. `viewer_session` shows that without overlapping
  requests nothing else defeats the timer.
* `ShownIsStreamed`: a resumed signaling connection asks again for the profile of the
  render that connected; the agent takes the name over without changing the track.

Further differences between the code and what its comments or documents say, met while
modelling. They are plain to see at the lines named, so no run is spent on them.

* Agent. A revocation while signaling is down is never told to the viewer
  (`__main__.py:216`). `docs/ARCHITECTURE.md` (lines 43 and 47) says that a grant has a
  fixed TTL, which pings renew, and that there is no Meta/Win key, which the allowlist
  accepts. The tray's "online, waiting for a connection" can show while a preserved peer
  with late pings goes on controlling.
* Room. A viewer refused because the agent is offline has already evicted the viewer that
  was there (`sessionRoom.ts:127` against the comment at 344); an agent's reply for an
  evicted session reaches the new viewer (`:194` against the comment at 193).
* Viewer session. The late close of an older socket schedules a reconnect after a
  replacement (`useRemoteSession.ts:1948` against 1836); a torn-down cycle's offer goes out
  on the next cycle's socket (`:1634`).
* Files. An upload whose channel is replaced while its digest is computed offers on the
  new channel although it has been given up (`useRemoteSession.ts:607`, 1405).
* Clipboard. A program that copies the very text the viewer has just written, between the
  write (`windows_clipboard.py:234`) and the look at the number (`__main__.py:867`), has
  its number remembered as the echo's, and its copy is not sent. A text handed to a
  channel of an older connection that opened late (`:623`) is not sent again. The image
  marker holds the digest of the bytes as sent, while the monitor reads a re-encoded
  image, so an image of the viewer is usually echoed (`__main__.py:1064` against 1062).
  The late close of an old control channel stops the monitor of the new one (`:633`).
  `RemoteClipboard.tsx` relies on the clipboard being set before the chord, which is not
  so when the write is rate-limited or the clipboard is locked.
* Input capture. Releases sent by the cleanup of a session that just ended are dropped by
  `emitControl()` (`useInputCapture.ts:383`; the agent's watchdog lifts them); a click on the
  bars lands at the last position (`:197`); a mouse chord leaves a button down; after
  `pointercancel` or a release by the agent's watchdog a held Shift is not pressed again.
* Input. The limiter's window belongs to the controller (`input_control.py:174`), and a new
  negotiation makes a new controller (`__main__.py:730`, 1364): two controllers in one window
  may together inject twice the limit.
* Video. A profile chosen while connecting is shown but not sent. If the agent's socket dies
  with a `session.configured` (`__main__.py:500`), the profile is applied, the peer is kept
  (`:362`), the room keeps the viewer (`sessionRoom.ts:248`), an active viewer ignores
  `agent.online` (`useRemoteSession.ts:1715`) and its timer gives up (`:1991`): the two ends
  name different profiles until the next confirmed choice or resumed session. An estimate
  that arrives between the thread's look at the hold and its assignment
  (`h264_encoder.py:350`-359) is overwritten by the lower one; and if it is at the target or
  above it between the two looks at `_pending_lower_since` (`:347`-352), the subtraction or
  comparison meets `None` and the exception ends the sender's loop (`step = "failed"`). Two
  selections, a choice and its reversal, that are handled while one frame of the old track is
  captured leave scene recovery off until the next key frame (`wasted`). The encoder's ceiling and
  starting bitrate stay those of its first profile (`h264_encoder.py:374`,
  `__main__.py:680`).
* Access. A ticket's `permission` claim is not forwarded to the room; the session id to resume is not tied
  to an account; the comment at `productionWebSocket.ts:10` is older than the code.

## 6. Not modelled

* Pixels, codecs, SDP and ICE contents, cryptography and the exact shape of
  messages: only their outcome (accepted or refused, opened or failed).
* The agent's reconnect backoff (any delay is allowed), a wall clock that jumps
  (the lease uses `time.time()`), a process that is killed without its `finally`
  blocks (a `.part` file then stays), and a failure of `SendInput` itself.
* In the viewer: the development path without tickets, the growing delay of signaling
  recovery, metrics and what errors say.
* Files: the listing of the outgoing folder, `file.cancel` (the viewer never sends it),
  files of no bytes, a program that creates the destination between `exists()` and
  `replace()`. Input: the wheel, which keeps no state, and Hangul key codes.
* The composition of room, agent and viewers with messages in flight. Each is checked
  against any behaviour of the others, which covers what each guarantees by itself. Three
  situations need all of them and are not covered: a message of another session that
  drops the agent's signaling (`__main__.py:408`), error replies whose type the room refuses
  (`:663`), and a grant revoked for want of an input sink after it was announced (`:726`).
  Together the components' states exceed what TLC explores in minutes.
* Protocol schemas (shape checks), the user interface's layout, developer scripts.

## 7. Plan

1. A reduced `Signaling` composition for the three situations of section 6.
2. The measures behind the liveness properties (what each fair step brings nearer to its
   end) as action properties, which can be proved although liveness itself cannot.
