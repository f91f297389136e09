----------------------------- MODULE VideoStream -----------------------------
(***************************************************************************)
(* The video of a session: the quality profile, which the viewer selects,  *)
(* the agent applies and both display (useRemoteSession.ts, __main__.py),  *)
(* and the bitrate of the encoder behind it (h264_encoder.py), which       *)
(* follows the receiver's estimates upwards at once and downwards only     *)
(* after a hold.                                                           *)
(*                                                                         *)
(* Time passes in Tick; an age is the time since something happened and    *)
(* stops growing where the code no longer tells it apart.  Frames carry    *)
(* the time of their track, which starts again with every new track: an    *)
(* instant noted under an older track then lies in the future, age -1.     *)
(* Frames are encoded in an executor's thread, estimates are set on the    *)
(* event loop, and no lock guards what both read and write: each goes step *)
(* by step.  A frame, like a call of the setter, is short beside the unit  *)
(* of time.  Either end may lose its signaling under a live peer.  A new   *)
(* connection starts when the agent has handled the messages of the old    *)
(* one: late ones are SessionRoom's and ViewerSession's subject.           *)
(***************************************************************************)
EXTENDS Integers, Sequences

CONSTANTS
    Profile,            \* the quality profiles, each with its frame size
    Balanced,           \* the one a viewer starts with
    Initial, Maximum,   \* their starting bitrate and their ceiling
    DefaultBitrate, MinBitrate, DesktopMax,
    None,
    Hold,               \* BITRATE_DOWNSHIFT_HOLD_SECONDS
    DegradationHold,    \* NETWORK_DEGRADATION_HOLD_SECONDS
    ReportMaxAge,       \* RECEIVER_REPORT_MAX_AGE_SECONDS
    Cooldown,           \* SCENE_KEYFRAME_COOLDOWN_SECONDS
    StableFrames,       \* SCENE_STABLE_FRAMES_REQUIRED
    Scopes              \* bounds: how many selections of a profile, how many losses of a
                        \* signaling or of the peer, and which of the receiver's bitrate
                        \* estimates a behaviour may see

ASSUME VideoAssumption ==
    /\ None \notin Profile /\ None \notin Int /\ Balanced \in Profile
    /\ Initial \in [Profile -> Nat] /\ Maximum \in [Profile -> Nat]
    /\ \A p \in Profile : MinBitrate <= Initial[p] /\ Initial[p] <= Maximum[p]
                          /\ Maximum[p] <= DesktopMax
    /\ MinBitrate <= DefaultBitrate /\ DefaultBitrate <= DesktopMax
    /\ {DefaultBitrate, MinBitrate, DesktopMax} \subseteq Nat \ {0}
    /\ {Hold, DegradationHold, Cooldown, StableFrames} \subseteq Nat \ {0}
    /\ ReportMaxAge \in Nat /\ ReportMaxAge >= DegradationHold
    /\ Scopes \subseteq [changes : Nat, drops : Nat, estimates : SUBSET Nat]

VARIABLES
    shown,          \* videoProfile, as the viewer displays it
    captured,       \* videoProfile, as the functions of the connecting render see it
    pending,        \* videoProfilePending, with its timer
    stabilizing,    \* stabilizingVideoProfile, with its timer
    unsent,         \* history: the shown profile is a choice the agent was not told of
    session,        \* the viewer: "offline", "connecting", "active"; without its
                    \* signaling "resuming", and "resumed" until the new request is accepted
    toAgent, toViewer,  \* signaling messages under way
    scope,              \* bound: this behaviour's
    changes, drops,

    agentUp,        \* the agent's signaling socket is open
    known,          \* its _session_id is the viewer's, not the bootstrap one
    lost,           \* history: its last word on the profile went with its socket, or the
                    \* request that asked for one
    profile,        \* the agent's _video_profile
    track,          \* the profile of the track being sent, None without a peer
    replaced,       \* that track has not given a frame yet, an older one has

    step,           \* the encoder's thread: where it is with its frame
    frame,          \* the frame's size, None between two frames
    key,            \* force_keyframe or scene_keyframe
    wanted,         \* the bitrate the thread has read and not yet set
    setter,         \* the event loop in the setter of target_bitrate: the clamped
                    \* estimate and what is to be done with it; None outside

    target,         \* _target_bitrate
    ceiling,        \* _profile_max_bitrate
    started,        \* _initial_bitrate_applied
    lower,          \* _pending_lower_bitrate
    lowerAge,       \* age of _pending_lower_since
    forced,         \* the sender owes a key frame (PLI/FIR or _send_keyframe)
    sampled,        \* _previous_luma_sample is there
    stable,         \* _stable_frame_count
    keyAge,         \* age of _last_scene_keyframe_time
    codec,          \* size and bit_rate of the open codec
    report,         \* the latest receiver report: its verdict
    reportAge,
    unhealthyAge,   \* age of _receiver_network_unhealthy_since

    \* history
    lowFor,         \* time since an estimate was at the target or above it
    badFor,         \* time since a report was healthy
    idrFor,         \* time since a key frame went out
    wasted          \* the key frame asked for a new track went to a frame of the old one

budget == <<scope, changes, drops>>
viewerVars == <<shown, captured, unsent, pending, stabilizing, session, budget>>
agentSide == <<agentUp, known, lost>>
signaling == <<toAgent, toViewer, agentSide>>
agentVars == <<profile, track, replaced>>
frameVars == <<step, frame, key, wanted>>
rateVars == <<target, ceiling, started, lower, lowerAge>>
sceneVars == <<forced, sampled, stable, keyAge, codec>>
reportVars == <<report, reportAge, unhealthyAge>>
history == <<lowFor, badFor, idrFor, wasted>>
encoder == <<rateVars, sceneVars, frameVars, setter>>
vars == <<viewerVars, signaling, agentVars, encoder, reportVars, history>>

Type == {"request", "offer", "configure", "close"}
Heard == {"accept", "answer", "configured", "online", "offline"}
Rate == MinBitrate..DesktopMax
Step == {"idle", "captured", "first", "set", "look", "compare", "drop", "hold", "order", "held",
         "network", "apply", "reopen", "encode", "failed"}

TypeOK ==
    /\ {shown, captured, profile} \subseteq Profile
    /\ stabilizing \in Profile \union {None} /\ pending \in BOOLEAN
    /\ unsent \in BOOLEAN
    /\ session \in {"offline", "connecting", "active", "resuming", "resumed"}
    /\ toAgent \in Seq(Type \X Profile)
    /\ toViewer \in Seq(Heard \X Profile)
    /\ agentUp \in BOOLEAN /\ known \in BOOLEAN /\ lost \in BOOLEAN /\ replaced \in BOOLEAN
    /\ scope \in Scopes /\ changes \in 0..scope.changes /\ drops \in 0..scope.drops
    /\ track \in Profile \union {None}
    /\ step \in Step /\ frame \in Profile \union {None}
    /\ key \in BOOLEAN /\ wanted \in Rate \union {None}
    /\ setter \in {None} \union [rate : Rate, to : {"start", "raise", "forget", "lower"}]
    /\ {target, ceiling} \subseteq Rate
    /\ started \in BOOLEAN /\ lower \in {None} \union Rate
    /\ lowerAge \in {None} \union (-1..Hold)
    /\ forced \in BOOLEAN /\ sampled \in BOOLEAN /\ stable \in 0..StableFrames
    /\ keyAge \in {None} \union (-1..Cooldown)
    /\ codec \in {None} \union (Profile \X Rate)
    /\ report \in {"none", "healthy", "unhealthy"} /\ reportAge \in 0..(ReportMaxAge + 1)
    /\ unhealthyAge \in {None} \union (0..DegradationHold)
    /\ lowFor \in 0..Hold /\ badFor \in 0..DegradationHold /\ idrFor \in 0..Cooldown
    /\ wasted \in BOOLEAN

Init ==
    /\ shown = Balanced /\ captured = shown /\ profile \in Profile
    /\ unsent = FALSE /\ pending = FALSE /\ stabilizing = None /\ session = "offline"
    /\ scope \in Scopes /\ changes = 0 /\ drops = 0 /\ toAgent = <<>> /\ toViewer = <<>>
    /\ agentUp = TRUE /\ known = FALSE /\ lost = FALSE /\ track = None /\ replaced = FALSE
    /\ step = "idle" /\ frame = None /\ key = FALSE /\ wanted = None /\ setter = None
    /\ target = DefaultBitrate /\ ceiling = DesktopMax /\ started = FALSE
    /\ lower = None /\ lowerAge = None
    /\ forced = FALSE /\ sampled = FALSE /\ stable = 0 /\ keyAge = None /\ codec = None
    /\ report = "none" /\ reportAge = 0 /\ unhealthyAge = None
    /\ lowFor = 0 /\ badFor = DegradationHold /\ idrFor = 0 /\ wasted = FALSE

-----------------------------------------------------------------------------
(* The viewer *)

Prefixes(s) == {SubSeq(s, 1, n) : n \in 0..Len(s)}

\* The viewer sends, its inbox being as given: without the agent the room answers.
Send(type, p, inbox) ==
    IF agentUp
    THEN toAgent' = Append(toAgent, <<type, p>>) /\ toViewer' = inbox
    ELSE toViewer' = Append(inbox, <<"offline", p>>) /\ UNCHANGED toAgent

\* connect(): the functions of this render carry the whole life of the connection, its
\* recoveries and its automatic reconnects.  The room takes no viewer without an agent.
Connect ==
    /\ session = "offline" /\ toAgent = <<>> /\ agentUp
    /\ session' = "connecting" /\ captured' = shown
    /\ toAgent' = Append(toAgent, <<"request", shown>>)
    /\ UNCHANGED <<shown, unsent, pending, stabilizing, budget, toViewer, agentSide, agentVars,
                   encoder, reportVars, history>>

AutoReconnect ==
    /\ session = "offline" /\ toAgent = <<>> /\ agentUp /\ drops > 0
    /\ session' = "connecting" /\ toAgent' = Append(toAgent, <<"request", captured>>)
    /\ UNCHANGED <<shown, captured, unsent, pending, stabilizing, budget, toViewer, agentSide,
                   agentVars, encoder, reportVars, history>>

\* changeVideoProfile(): while the connection is not active the choice only waits for it.
ChangeVideoProfile(p) ==
    /\ changes < scope.changes /\ changes' = changes + 1
    /\ p # shown /\ ~pending /\ stabilizing = None
    /\ IF session \in {"active", "resumed"}
       THEN pending' = TRUE /\ Send("configure", p, toViewer) /\ UNCHANGED <<shown, unsent>>
       ELSE shown' = p /\ unsent' = TRUE /\ UNCHANGED <<pending, toAgent, toViewer>>
    /\ UNCHANGED <<captured, stabilizing, session, scope, drops, agentSide, agentVars, encoder,
                   reportVars, history>>

\* The timer of the request, and the one of the new picture.
ProfileTimeout ==
    /\ pending /\ pending' = FALSE
    /\ UNCHANGED <<shown, captured, unsent, stabilizing, session, budget, signaling, agentVars,
                   encoder, reportVars, history>>

StabilizeTimeout ==
    /\ stabilizing # None /\ stabilizing' = None
    /\ UNCHANGED <<shown, captured, unsent, pending, session, budget, signaling, agentVars,
                   encoder, reportVars, history>>

Hears(type) == toViewer # <<>> /\ Head(toViewer)[1] = type

\* Mutant: session.accept does not carry the agent's profile.
AcceptKeepsShown ==
    /\ Hears("accept")
    /\ IF session = "connecting"
       THEN Send("offer", captured, Tail(toViewer)) /\ UNCHANGED session
       ELSE session' = "active" /\ toViewer' = Tail(toViewer) /\ UNCHANGED toAgent
    /\ UNCHANGED <<shown, captured, unsent, pending, stabilizing, budget, agentSide, agentVars,
                   encoder, reportVars, history>>

\* session.accept: a resumed session keeps its peer, a new one sends its offer.
OnAccept ==
    /\ Hears("accept") /\ shown' = Head(toViewer)[2] /\ unsent' = FALSE
    /\ IF session = "connecting"
       THEN Send("offer", captured, Tail(toViewer)) /\ UNCHANGED session
       ELSE session' = "active" /\ toViewer' = Tail(toViewer) /\ UNCHANGED toAgent
    /\ UNCHANGED <<captured, pending, stabilizing, budget, agentSide, agentVars, encoder,
                   reportVars, history>>

OnAnswer ==
    /\ Hears("answer") /\ toViewer' = Tail(toViewer) /\ session' = "active"
    /\ UNCHANGED <<shown, captured, unsent, pending, stabilizing, budget, toAgent, agentSide,
                   agentVars, encoder, reportVars, history>>

OnConfigured ==
    /\ Hears("configured") /\ toViewer' = Tail(toViewer)
    /\ shown' = Head(toViewer)[2] /\ unsent' = FALSE
    /\ pending' = FALSE /\ stabilizing' = Head(toViewer)[2]
    /\ UNCHANGED <<captured, session, budget, toAgent, agentSide, agentVars, encoder,
                   reportVars, history>>

\* The signaling socket closes under an active peer; later its recovery sends a request.
SignalingDrops ==
    /\ session \in {"active", "resumed"} /\ drops < scope.drops /\ drops' = drops + 1
    /\ session' = "resuming" /\ toAgent' \in Prefixes(toAgent) /\ toViewer' = <<>>
    /\ UNCHANGED <<shown, captured, unsent, pending, stabilizing, scope, changes, agentSide,
                   agentVars, encoder, reportVars, history>>

Resume ==
    /\ session = "resuming" /\ agentUp /\ session' = "resumed"
    /\ toAgent' = Append(toAgent, <<"request", captured>>)
    /\ UNCHANGED <<shown, captured, unsent, pending, stabilizing, budget, toViewer, agentSide,
                   agentVars, encoder, reportVars, history>>

\* teardownForCycle() and releaseResources(): session.close goes out if the socket is open.
TearsDown(open) ==
    /\ session' = "offline" /\ pending' = FALSE /\ stabilizing' = None /\ toViewer' = <<>>
    /\ IF open /\ agentUp THEN toAgent' = Append(toAgent, <<"close", captured>>)
                          ELSE toAgent' \in Prefixes(toAgent)

Teardown ==
    /\ session # "offline" /\ drops < scope.drops /\ drops' = drops + 1
    /\ \E open \in BOOLEAN : TearsDown(open)
    /\ UNCHANGED <<shown, captured, unsent, scope, changes, agentSide, agentVars, encoder,
                   reportVars, history>>

\* PEER_OFFLINE and agent.online restart a connection that is not established; an
\* established one keeps its peer, and only gives up waiting for the profile it asked for.
OnPeerOffline ==
    /\ Hears("offline")
    /\ IF session = "connecting" THEN TearsDown(TRUE)
       ELSE /\ pending' = FALSE /\ toViewer' = Tail(toViewer)
            /\ UNCHANGED <<session, stabilizing, toAgent>>
    /\ UNCHANGED <<shown, captured, unsent, budget, agentSide, agentVars, encoder, reportVars,
                   history>>

OnAgentOnline ==
    /\ Hears("online")
    /\ IF session = "connecting" THEN TearsDown(TRUE)
       ELSE toViewer' = Tail(toViewer) /\ UNCHANGED <<session, pending, stabilizing, toAgent>>
    /\ UNCHANGED <<shown, captured, unsent, budget, agentSide, agentVars, encoder, reportVars,
                   history>>

\* sampleVideoStats(): the telemetry of a decoded frame ends the stabilizing, and its loss
\* and jitter go to the agent as a receiver report.
Unhealthy == report = "unhealthy" /\ reportAge <= ReportMaxAge

SampleVideoStats(verdict) ==
    /\ session \notin {"offline", "connecting"} /\ track # None /\ codec # None
    /\ stabilizing' = IF codec[1] = stabilizing THEN None ELSE stabilizing
    /\ report' = verdict /\ reportAge' = 0
    /\ unhealthyAge' = CASE verdict = "healthy" -> None
                         [] verdict # "healthy" /\ Unhealthy -> unhealthyAge
                         [] OTHER -> 0
    /\ badFor' = IF verdict = "healthy" THEN 0 ELSE badFor
    /\ UNCHANGED <<shown, captured, unsent, pending, session, budget, signaling, agentVars,
                   encoder, lowFor, idrFor, wasted>>

-----------------------------------------------------------------------------
(* The agent *)

\* A message of the session the agent knows, and its answer if the viewer is in the room.
Received(type) ==
    agentUp /\ toAgent # <<>> /\ Head(toAgent)[1] = type /\ toAgent' = Tail(toAgent)

Away == session \in {"offline", "resuming"}
Reply(m) == toViewer' = IF Away THEN toViewer ELSE Append(toViewer, m)

\* What tells the viewer the agent's profile
Says(m) == m[1] \in {"accept", "configured"}
SaysProfile(m) == Reply(m) /\ lost' = (lost /\ Away)

\* session.request: the profile is noted, whatever a track that is being sent has.
OnRequest ==
    /\ Received("request") /\ known' = TRUE
    /\ profile' = Head(toAgent)[2] /\ SaysProfile(<<"accept", profile'>>)
    /\ UNCHANGED <<viewerVars, agentUp, track, replaced, encoder, reportVars, history>>

\* _close_peer(): the encoder goes with the peer, and so does the network's verdict.
NewEncoder ==
    /\ target' = DefaultBitrate /\ ceiling' = DesktopMax /\ started' = FALSE
    /\ lower' = None /\ lowerAge' = None /\ forced' = FALSE
    /\ sampled' = FALSE /\ stable' = 0 /\ keyAge' = None /\ codec' = None
    /\ step' = "idle" /\ frame' = None /\ key' = FALSE /\ wanted' = None /\ setter' = None
    /\ report' = "none" /\ reportAge' = 0 /\ unhealthyAge' = None
    /\ lowFor' = 0 /\ badFor' = DegradationHold /\ idrFor' = 0 /\ wasted' = FALSE

ClosePeer == track' = None /\ replaced' = FALSE /\ NewEncoder

OnOffer ==
    /\ known /\ Received("offer") /\ Reply(<<"answer", profile>>)
    /\ track' = profile /\ replaced' = FALSE /\ NewEncoder
    /\ UNCHANGED <<viewerVars, agentSide, profile>>

OnClose ==
    /\ known /\ Received("close") /\ ClosePeer
    /\ UNCHANGED <<viewerVars, agentSide, profile, toViewer>>

\* The peer fails on the agent's side only.
AgentClosesPeer ==
    /\ track # None /\ drops < scope.drops /\ drops' = drops + 1 /\ ClosePeer
    /\ UNCHANGED <<shown, captured, unsent, pending, stabilizing, session, scope, changes,
                   signaling, profile>>

\* _apply_video_profile(): a new track in the same sender, whose encoder stays and is asked
\* for a key frame.
ApplyVideoProfile(p) ==
    IF p = profile THEN UNCHANGED <<agentVars, forced>>
    ELSE profile' = p /\ track' = p /\ replaced' = TRUE /\ forced' = TRUE

\* session.configure
OnConfigure ==
    /\ known /\ track # None /\ Received("configure")
    /\ LET p == Head(toAgent)[2] IN SaysProfile(<<"configured", p>>) /\ ApplyVideoProfile(p)
    /\ UNCHANGED <<viewerVars, agentUp, known, rateVars, sampled, stable, keyAge, codec,
                   frameVars, setter, reportVars, history>>

\* The agent's socket closes: the room has passed on the first messages only, and may
\* answer for it what the viewer has sent.
SocketCloses(passed) ==
    /\ agentUp' = FALSE /\ toAgent' = <<>>
    /\ \/ toViewer' = SubSeq(toViewer, 1, passed)
       \/ /\ toAgent # <<>> /\ ~Away
          /\ toViewer' = Append(SubSeq(toViewer, 1, passed), <<"offline", Head(toAgent)[2]>>)
    /\ lost' = \/ lost
               \/ \E i \in DOMAIN toAgent : toAgent[i][1] = "request"
               \/ \E i \in DOMAIN toViewer : i > passed /\ Says(toViewer[i])

\* run() ends with it, and keeps a healthy peer.
RunEnds(passed) ==
    /\ SocketCloses(passed) /\ UNCHANGED <<known, profile>>
    /\ \/ UNCHANGED <<track, replaced, encoder, reportVars, history>>
       \/ track # None /\ ClosePeer

AgentDrops ==
    /\ agentUp /\ drops < scope.drops /\ drops' = drops + 1
    /\ \E passed \in 0..Len(toViewer) : RunEnds(passed)
    /\ UNCHANGED <<shown, captured, unsent, pending, stabilizing, session, scope, changes>>

\* A message of a session the agent does not know ends its run(), and an error it answers
\* a profile with that has no track makes the room close its socket.
AgentRefuses ==
    /\ agentUp /\ toAgent # <<>>
    /\ \/ ~known /\ Head(toAgent)[1] # "request"
       \/ track = None /\ Head(toAgent)[1] = "configure"
    /\ RunEnds(Len(toViewer)) /\ UNCHANGED viewerVars

\* run_forever(): only with a healthy peer is the session still known.
AgentReturns ==
    /\ ~agentUp /\ agentUp' = TRUE /\ Reply(<<"online", profile>>)
    /\ known' \in {FALSE, known /\ track # None}
    /\ UNCHANGED <<viewerVars, toAgent, lost, agentVars, encoder, reportVars, history>>

-----------------------------------------------------------------------------
(* The setter of target_bitrate, with a REMB estimate: it reads, then it writes *)

Clamp(rate, most) ==
    IF rate < MinBitrate THEN MinBitrate ELSE IF rate > most THEN most ELSE rate

SetTargetBitrate(estimate) ==
    LET clamped == Clamp(estimate, ceiling) IN
    /\ track # None
    /\ setter' = [rate |-> clamped,
                  to |-> CASE ~started -> "start"
                           [] started /\ clamped >= target -> "raise"
                           [] OTHER -> "lower"]
    /\ UNCHANGED <<viewerVars, signaling, agentVars, rateVars, sceneVars, frameVars,
                   reportVars, history>>

RaiseTarget ==
    /\ setter # None /\ setter.to \in {"start", "raise"}
    /\ target' = setter.rate /\ setter' = [setter EXCEPT !.to = "forget"]
    /\ UNCHANGED <<viewerVars, signaling, agentVars, ceiling, started, lower, lowerAge,
                   sceneVars, frameVars, reportVars, history>>

\* Mutant: an estimate that rises again leaves the time of the hold.
ForgetKeepsSince ==
    /\ setter # None /\ setter.to = "forget" /\ setter' = None
    /\ lower' = None /\ lowFor' = 0
    /\ UNCHANGED <<viewerVars, signaling, agentVars, target, ceiling, started, lowerAge,
                   sceneVars, frameVars, reportVars, badFor, idrFor, wasted>>

ForgetLower ==
    /\ setter # None /\ setter.to = "forget" /\ setter' = None
    /\ lower' = None /\ lowerAge' = None /\ lowFor' = 0
    /\ UNCHANGED <<viewerVars, signaling, agentVars, target, ceiling, started, sceneVars,
                   frameVars, reportVars, badFor, idrFor, wasted>>

\* Mutant: every lower estimate starts the hold again.
LowerRestartsHold ==
    /\ setter # None /\ setter.to = "lower" /\ setter' = None
    /\ lower' = setter.rate /\ lowerAge' = None
    /\ UNCHANGED <<viewerVars, signaling, agentVars, target, ceiling, started, sceneVars,
                   frameVars, reportVars, history>>

NoteLower ==
    /\ setter # None /\ setter.to = "lower" /\ setter' = None
    /\ lower' = setter.rate
    /\ UNCHANGED <<viewerVars, signaling, agentVars, target, ceiling, started, lowerAge,
                   sceneVars, frameVars, reportVars, history>>

Setter == RaiseTarget \/ ForgetLower \/ NoteLower

-----------------------------------------------------------------------------
(* The encoder's thread *)

Restarted(age) == IF age = None THEN None ELSE -1

\* recv(): the track's frame, stamped by the event loop on the track's clock.
CaptureFrame ==
    /\ step = "idle" /\ track # None /\ setter = None /\ step' = "captured" /\ frame' = track
    /\ replaced' = FALSE
    /\ IF replaced THEN lowerAge' = Restarted(lowerAge) /\ keyAge' = Restarted(keyAge)
                   ELSE UNCHANGED <<lowerAge, keyAge>>
    /\ UNCHANGED <<viewerVars, signaling, profile, track, target, ceiling, started, lower,
                   forced, sampled, stable, codec, key, wanted, setter, reportVars, history>>

\* _is_large_scene_change()
LargeSceneChange(content) ==
    /\ sampled /\ content = "scene" /\ stable = StableFrames
    /\ keyAge = None \/ keyAge = Cooldown

\* The event loop hands the frame to encode(), with the key frame the sender owes:
\* `content' is the picture against the one before.
StartFrame(content) ==
    /\ step = "captured" /\ setter = None /\ step' = IF started THEN "look" ELSE "first"
    /\ key' = (forced \/ LargeSceneChange(content)) /\ forced' = FALSE
    /\ sampled' = TRUE
    /\ stable' = CASE ~sampled \/ content # "still" -> 0
                   [] sampled /\ content = "still" /\ stable < StableFrames -> stable + 1
                   [] OTHER -> stable
    /\ wasted' = (wasted \/ (forced /\ replaced))
    /\ UNCHANGED <<viewerVars, signaling, agentVars, rateVars, keyAge, codec, frame, wanted,
                   setter, reportVars, lowFor, badFor, idrFor>>

\* The first frame gives the encoder the ceiling of its size, then its starting bitrate.
FirstFrame ==
    /\ step = "first" /\ step' = "set" /\ ceiling' = Maximum[frame]
    /\ wanted' = IF target = DefaultBitrate THEN Initial[frame] ELSE target
    /\ UNCHANGED <<viewerVars, signaling, agentVars, target, started, lower, lowerAge,
                   sceneVars, frame, key, setter, reportVars, history>>

StartBitrate ==
    /\ step = "set" /\ step' = "look" /\ started' = TRUE /\ target' = Clamp(wanted, ceiling)
    /\ lower' = None /\ lowerAge' = None /\ lowFor' = 0 /\ wanted' = None
    /\ UNCHANGED <<viewerVars, signaling, agentVars, ceiling, sceneVars, frame, key, setter,
                   reportVars, badFor, idrFor, wasted>>

\* _apply_pending_lower_bitrate() reads the pending bitrate, the target,
LookAtLower ==
    /\ step = "look" /\ wanted' = lower
    /\ step' = IF lower = None THEN "reopen" ELSE "compare"
    /\ UNCHANGED <<viewerVars, signaling, agentVars, rateVars, sceneVars, frame, key, setter,
                   reportVars, history>>

CompareLower ==
    /\ step = "compare"
    /\ IF wanted < target THEN step' = "hold" /\ UNCHANGED wanted
                          ELSE step' = "drop" /\ wanted' = None
    /\ UNCHANGED <<viewerVars, signaling, agentVars, rateVars, sceneVars, frame, key, setter,
                   reportVars, history>>

DropLower ==
    /\ step = "drop" /\ step' = "reopen" /\ lower' = None /\ lowerAge' = None
    /\ UNCHANGED <<viewerVars, signaling, agentVars, target, ceiling, started, sceneVars,
                   frame, key, wanted, setter, reportVars, history>>

\* and three times the instant it is pending since: a first or a restarted hold only begins
\* here.  Gone after the first look, it cannot be compared with the frame's time, and the
\* exception ends the sender's loop.
BeginHold == lowerAge' = 0 /\ step' = "reopen" /\ wanted' = None

HoldLower ==
    /\ \/ step = "hold" /\ lowerAge = None /\ BeginHold
       \/ step = "hold" /\ lowerAge # None /\ step' = "order" /\ UNCHANGED <<lowerAge, wanted>>
       \/ step = "order" /\ lowerAge = -1 /\ BeginHold
       \/ step = "order" /\ lowerAge = None /\ step' = "failed" /\ UNCHANGED <<lowerAge, wanted>>
       \/ step = "order" /\ lowerAge \notin {None, -1} /\ step' = "held"
          /\ UNCHANGED <<lowerAge, wanted>>
    /\ UNCHANGED <<viewerVars, signaling, agentVars, target, ceiling, started, lower,
                   sceneVars, frame, key, setter, reportVars, history>>

NetworkAllowsDownshift ==
    \/ report = "none" \/ reportAge > ReportMaxAge
    \/ report = "unhealthy" /\ unhealthyAge = DegradationHold

Downshifts ==
    \/ step = "held" /\ stable < StableFrames /\ lowerAge = Hold /\ step' = "network"
    \/ step = "network" /\ NetworkAllowsDownshift /\ step' = "apply"

KeepsTarget ==
    \/ step = "held" /\ (stable = StableFrames \/ lowerAge \notin {None, Hold})
    \/ step = "network" /\ ~NetworkAllowsDownshift

DecideDownshift ==
    /\ \/ Downshifts /\ UNCHANGED wanted
       \/ KeepsTarget /\ step' = "reopen" /\ wanted' = None
       \/ /\ step = "held" /\ stable < StableFrames /\ lowerAge = None
          /\ step' = "failed" /\ UNCHANGED wanted
    /\ UNCHANGED <<viewerVars, signaling, agentVars, rateVars, sceneVars, frame, key, setter,
                   reportVars, history>>

ApplyLower ==
    /\ step = "apply" /\ step' = "reopen" /\ target' = wanted /\ wanted' = None
    /\ lower' = None /\ lowerAge' = None /\ lowFor' = 0
    /\ UNCHANGED <<viewerVars, signaling, agentVars, ceiling, started, sceneVars, frame, key,
                   setter, reportVars, badFor, idrFor, wasted>>

Distance(a, b) == IF a > b THEN a - b ELSE b - a

ReopenCodec ==
    /\ step = "reopen" /\ step' = "encode"
    /\ codec' = IF /\ codec # None
                   /\ codec[1] # frame \/ 4 * Distance(target, codec[2]) > codec[2]
                THEN None ELSE codec
    /\ UNCHANGED <<viewerVars, signaling, agentVars, rateVars, forced, sampled, stable, keyAge,
                   frame, key, wanted, setter, reportVars, history>>

\* Mutant: only the key frames the sender or the scene asks for are timed.
SceneNoted(idr) == keyAge' = IF key THEN 0 ELSE keyAge

KeyframeNoted(idr) == keyAge' = IF idr THEN 0 ELSE keyAge

EncodeFrame ==
    LET idr == key \/ codec = None IN
    /\ step = "encode" /\ step' = "idle" /\ frame' = None /\ key' = FALSE
    /\ codec' = IF codec = None THEN <<frame, target>> ELSE codec
    /\ KeyframeNoted(idr) /\ idrFor' = IF idr THEN 0 ELSE idrFor
    /\ wasted' = (wasted /\ (replaced \/ ~idr))
    /\ UNCHANGED <<viewerVars, signaling, agentVars, rateVars, forced, sampled, stable, wanted,
                   setter, reportVars, lowFor, badFor>>

\* The browser asks for a key frame.
PictureLoss ==
    /\ track # None /\ ~forced /\ forced' = TRUE
    /\ UNCHANGED <<viewerVars, signaling, agentVars, rateVars, sampled, stable, keyAge, codec,
                   frameVars, setter, reportVars, history>>

Older(age, most) == IF age \in {None, -1, most} THEN age ELSE age + 1

Tick ==
    /\ track # None /\ step \in {"idle", "failed"} /\ setter = None
    /\ lowerAge' = Older(lowerAge, Hold) /\ keyAge' = Older(keyAge, Cooldown)
    /\ reportAge' = Older(reportAge, ReportMaxAge + 1)
    /\ unhealthyAge' = Older(unhealthyAge, DegradationHold)
    /\ lowFor' = Older(lowFor, Hold) /\ badFor' = Older(badFor, DegradationHold)
    /\ idrFor' = Older(idrFor, Cooldown)
    /\ UNCHANGED <<viewerVars, signaling, agentVars, target, ceiling, started, lower, forced,
                   sampled, stable, codec, frameVars, setter, report, wasted>>

-----------------------------------------------------------------------------
EncoderThread ==
    \/ CaptureFrame \/ \E content \in {"still", "motion", "scene"} : StartFrame(content)
    \/ FirstFrame \/ StartBitrate \/ LookAtLower \/ CompareLower \/ DropLower
    \/ HoldLower \/ DecideDownshift \/ ApplyLower \/ ReopenCodec \/ EncodeFrame

Viewer == \/ Connect \/ AutoReconnect \/ \E p \in Profile : ChangeVideoProfile(p)
          \/ ProfileTimeout \/ StabilizeTimeout \/ OnAccept \/ OnAnswer \/ OnConfigured
          \/ SignalingDrops \/ Resume \/ Teardown \/ OnPeerOffline \/ OnAgentOnline
          \/ \E verdict \in {"healthy", "unhealthy"} : SampleVideoStats(verdict)
Agent == \/ OnRequest \/ OnOffer \/ OnClose \/ OnConfigure \/ AgentClosesPeer
         \/ AgentDrops \/ AgentRefuses \/ AgentReturns

\* A call of the setter is the event loop's only business; the viewer's steps, which touch
\* nothing of the encoder's, are taken before it or after.
Next == \/ setter = None /\ (Viewer \/ Agent \/ PictureLoss)
        \/ \E estimate \in scope.estimates : setter = None /\ SetTargetBitrate(estimate)
        \/ Setter \/ EncoderThread \/ Tick

\* Frames keep coming while a track is sent, however many estimates the event loop takes
\* between them, a call of the setter returns, and time passes.
Spec == Init /\ [][Next]_vars /\ SF_vars(EncoderThread) /\ WF_vars(Setter) /\ SF_vars(Tick)

-----------------------------------------------------------------------------
(* Properties *)

Quiet == session \in {"active", "resumed"} /\ toAgent = <<>> /\ toViewer = <<>>

\* Once nothing is under way the viewer shows the profile the agent says it has, after
\* timeouts, resumed sessions and confirmations that came late or went with the viewer's
\* socket.  Two things may keep them apart: a choice made while it could not be sent is
\* still the viewer's own, and what the agent's socket took with it is not said again
\* until the next choice is confirmed or the session resumed.
AgentAndViewerAgree == Quiet => shown = profile \/ unsent \/ lost

\* A started encoder's target falls only by a decision of its thread, or by an estimate
\* that came before it had started.  When the thread finds the hold over, no estimate at the
\* target or above it has been taken for all of it; when it then finds the network bad, no
\* healthy report has come for the whole degradation hold, whatever the setter was doing
\* between the thread's reads.  An estimate that comes after the look at the hold is
\* overwritten.
DownshiftIsSustained ==
    [][/\ step # "network" /\ step' = "network" => lowFor = Hold
       /\ step # "apply" /\ step' = "apply" => step = "network" /\ badFor = DegradationHold
       /\ started /\ started' /\ target' < target =>
            \/ step = "apply" /\ target' = wanted
            \/ setter # None /\ setter.to = "start"]_vars

\* "A noisy estimate must not restart the hold on every report and therefore postpone a
\* real congestion response forever": unless an exception has ended the sender's loop.
LowerEstimateApplied ==
    []<>(lower = None \/ stable = StableFrames \/ ~NetworkAllowsDownshift \/ step = "failed")

\* The cooldown of scene key frames counts from the last key frame that went out, also
\* when a new track has started the frames' clock again: otherwise scene recovery would
\* be off for as long as the old track had run.  A new track asks for that key frame; if a
\* frame of the old one took it, the count is right from the next key frame on, which the
\* new size brings unless the choice was taken back before the frame was encoded.
SceneRecoveryArmed ==
    step = "idle" /\ codec # None /\ codec[1] = track /\ ~forced /\ ~wasted => keyAge = idrFor

\* README: "The selected profile keeps its stated resolution": what is shown, on the agent's
\* own word, is what is streamed.
ShownIsStreamed == Quiet /\ track # None /\ ~unsent /\ ~lost => track = shown

\* The encoder's state is that of the stream it encodes: rates within the encoder's limits,
\* and the cooldown of scene key frames counted on the frames' own clock.
StreamInv == TypeOK /\ SceneRecoveryArmed
=============================================================================
