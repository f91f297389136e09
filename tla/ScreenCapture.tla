--------------------------- MODULE ScreenCapture ---------------------------
(***************************************************************************)
(* DesktopDuplicationTrack (video.py): the tracks of successive peers and  *)
(* video profiles, each with a capture job in an executor thread, and the  *)
(* event loop that stops them.  A track's camera lock is held only across  *)
(* the steps the code holds it for, so a stop falls between any two steps  *)
(* of a job, and a job of a stopped track may still run beside the job of  *)
(* its successor.                                                          *)
(*                                                                         *)
(* dxcam is external, as the comments and the calls describe it: create()  *)
(* returns the registered camera of the output as long as that one is not  *)
(* released, start() refuses one that is started or has failed, and a      *)
(* released camera answers with an error.                                  *)
(***************************************************************************)
EXTENDS Integers, FiniteSets

CONSTANTS
    Camera,         \* dxcam camera objects
    NoCamera,
    MaxTracks,      \* bound: tracks
    MaxFaults       \* bound: capture faults of Windows

ASSUME CaptureAssumption ==
    /\ NoCamera \notin Camera /\ Cardinality(Camera) > MaxTracks
    /\ MaxTracks \in Nat \ {0} /\ MaxFaults \in Nat

VARIABLES
    state,          \* of each camera: "none", "created", "started", "broken", "released"
    registered,     \* the camera dxcam would return
    faults,         \* faults so far
    current,        \* the newest track, 0 for none
    stopped,        \* _stopped, of each track
    camera,         \* _camera
    lock,           \* _camera_lock is held across steps
    backoff,        \* monotonic() < _recover_not_before
    job, local,     \* where each track's job is, and its local `camera'
    loop, taken     \* the event loop in stop(): step, and the camera it took

cameraVars == <<state, registered, faults>>
trackVars == <<current, stopped>>
loopVars == <<loop, taken>>
screenVars == <<cameraVars, trackVars, camera, lock, backoff, job, local, loopVars>>

Track == 1..MaxTracks

CameraTypeOK ==
    /\ state \in [Camera -> {"none", "created", "started", "broken", "released"}]
    /\ registered \in Camera \union {NoCamera} /\ faults \in 0..MaxFaults
    /\ current \in 0..MaxTracks /\ stopped \in [Track -> BOOLEAN]
    /\ camera \in [Track -> Camera \union {NoCamera}] /\ lock \in [Track -> BOOLEAN]
    /\ backoff \in [Track -> BOOLEAN]
    /\ job \in [Track -> {"idle", "queued", "ensure", "starting", "read", "latest",
                          "fault", "take", "stop", "release"}]
    /\ local \in [Track -> Camera \union {NoCamera}]
    /\ \A t \in Track : job[t] \in {"latest", "stop", "release"} => local[t] # NoCamera
    /\ loop \in {"idle", "take", "stop", "release"} /\ taken \in Camera \union {NoCamera}

CameraInit ==
    /\ state = [c \in Camera |-> "none"] /\ registered = NoCamera /\ faults = 0
    /\ current = 0 /\ stopped = [t \in Track |-> FALSE]
    /\ camera = [t \in Track |-> NoCamera] /\ lock = [t \in Track |-> FALSE]
    /\ backoff = [t \in Track |-> FALSE]
    /\ job = [t \in Track |-> "idle"] /\ local = [t \in Track |-> NoCamera]
    /\ loop = "idle" /\ taken = NoCamera

-----------------------------------------------------------------------------
(* dxcam: external *)

Referenced == {camera[t] : t \in Track} \union {local[t] : t \in Track} \union {taken}

\* What create() may return: the registered camera, or a new object.
Created == IF registered # NoCamera THEN {registered}
           ELSE {c \in Camera : state[c] \in {"none", "released"} /\ c \notin Referenced}

Fault == faults < MaxFaults /\ faults' = faults + 1

\* camera.stop(), then camera.release(), which has create() forget the camera.
Stopped(c) == state' = [state EXCEPT ![c] = IF @ = "started" THEN "created" ELSE @]

Released(c) == /\ state' = [state EXCEPT ![c] = "released"]
               /\ registered' = IF registered = c THEN NoCamera ELSE registered

-----------------------------------------------------------------------------
(* The event loop *)

\* A new peer, or _apply_video_profile() after its old_track.stop().
NewTrack ==
    /\ loop = "idle" /\ current < MaxTracks
    /\ current # 0 => stopped[current]
    /\ current' = current + 1
    /\ UNCHANGED <<cameraVars, stopped, camera, lock, backoff, job, local, loopVars>>

\* stop(), the part under the lock
Stop ==
    /\ loop = "idle" /\ current # 0 /\ ~stopped[current] /\ ~lock[current]
    /\ stopped' = [stopped EXCEPT ![current] = TRUE] /\ loop' = "take"
    /\ UNCHANGED <<cameraVars, current, camera, lock, backoff, job, local, taken>>

\* Its _recover(None)
StopTakes ==
    /\ loop = "take" /\ ~lock[current]
    /\ taken' = camera[current] /\ camera' = [camera EXCEPT ![current] = NoCamera]
    /\ loop' = IF camera[current] = NoCamera THEN "idle" ELSE "stop"
    /\ UNCHANGED <<cameraVars, trackVars, lock, backoff, job, local>>

StopStops ==
    /\ loop = "stop" /\ Stopped(taken) /\ loop' = "release"
    /\ UNCHANGED <<registered, faults, trackVars, camera, lock, backoff, job, local, taken>>

StopReleases ==
    /\ loop = "release" /\ Released(taken) /\ loop' = "idle" /\ taken' = NoCamera
    /\ UNCHANGED <<faults, trackVars, camera, lock, backoff, job, local>>

-----------------------------------------------------------------------------
(* A capture job: _grab_rgb() *)

Goto(t, where) == job' = [job EXCEPT ![t] = where]

\* recv() hands a job to the executor; it may run after a stop.
Submit(t) ==
    /\ t = current /\ ~stopped[t] /\ loop = "idle" /\ job[t] = "idle"
    /\ Goto(t, "queued")
    /\ UNCHANGED <<cameraVars, trackVars, camera, lock, backoff, local, loopVars>>

\* A stopped track yields nothing; one in backoff a GDI snapshot.
Begin(t) ==
    /\ job[t] = "queued" /\ ~lock[t]
    /\ Goto(t, IF stopped[t] \/ (camera[t] = NoCamera /\ backoff[t]) THEN "idle" ELSE "ensure")
    /\ UNCHANGED <<cameraVars, trackVars, camera, lock, backoff, local, loopVars>>

\* Mutant: the camera is made without another look at _stopped.
EnsureUnchecked(t) ==
    /\ job[t] = "ensure" /\ ~lock[t]
    /\ IF camera[t] # NoCamera
       THEN Goto(t, "read") /\ UNCHANGED <<faults, camera, lock, state, registered>>
       ELSE \E c \in Created :
              /\ camera' = [camera EXCEPT ![t] = c] /\ registered' = c
              /\ state' = [state EXCEPT ![c] = IF registered = c THEN @ ELSE "created"]
              /\ lock' = [lock EXCEPT ![t] = TRUE] /\ Goto(t, "starting") /\ UNCHANGED faults
    /\ UNCHANGED <<trackVars, backoff, local, loopVars>>

\* _ensure_camera() up to dxcam.create(), which may fail, with the lock held from here on
EnsureCamera(t) ==
    /\ job[t] = "ensure" /\ ~lock[t]
    /\ \/ stopped[t] /\ Goto(t, "idle") /\ UNCHANGED <<faults, camera, lock, state, registered>>
       \/ ~stopped[t] /\ camera[t] # NoCamera /\ Goto(t, "read") /\ UNCHANGED <<faults, camera, lock, state, registered>>
       \/ ~stopped[t] /\ camera[t] = NoCamera /\ Fault /\ Goto(t, "fault") /\ UNCHANGED <<camera, lock, state, registered>>
       \/ /\ ~stopped[t] /\ camera[t] = NoCamera
          /\ \E c \in Created :
               /\ camera' = [camera EXCEPT ![t] = c] /\ registered' = c
               /\ state' = [state EXCEPT ![c] = IF registered = c THEN @ ELSE "created"]
          /\ lock' = [lock EXCEPT ![t] = TRUE] /\ Goto(t, "starting") /\ UNCHANGED faults
    /\ UNCHANGED <<trackVars, backoff, local, loopVars>>

\* camera.start(), and the end of the locked block
StartCamera(t) ==
    /\ job[t] = "starting" /\ lock' = [lock EXCEPT ![t] = FALSE]
    /\ \/ /\ state[camera[t]] = "created"
          /\ state' = [state EXCEPT ![camera[t]] = "started"] /\ Goto(t, "read") /\ UNCHANGED faults
       \/ /\ state[camera[t]] = "created" /\ Fault
          /\ state' = [state EXCEPT ![camera[t]] = "broken"] /\ Goto(t, "fault")
       \/ state[camera[t]] # "created" /\ Goto(t, "fault") /\ UNCHANGED <<state, faults>>
    /\ UNCHANGED <<registered, trackVars, camera, backoff, local, loopVars>>

\* The camera is read under the lock and used without it.
ReadCamera(t) ==
    /\ job[t] = "read" /\ ~lock[t]
    /\ local' = [local EXCEPT ![t] = IF stopped[t] THEN NoCamera ELSE camera[t]]
    /\ Goto(t, IF local'[t] = NoCamera THEN "idle" ELSE "latest")
    /\ UNCHANGED <<cameraVars, trackVars, camera, lock, backoff, loopVars>>

\* get_latest_frame(): a frame, none yet (a GDI snapshot), or an error
LatestFrame(t) ==
    /\ job[t] = "latest"
    /\ \/ state[local[t]] = "started" /\ Goto(t, "idle") /\ UNCHANGED <<faults, state>>
       \/ /\ state[local[t]] = "started" /\ Fault /\ Goto(t, "fault")
          /\ state' = [state EXCEPT ![local[t]] = "broken"]
       \/ state[local[t]] # "started" /\ Goto(t, "fault") /\ UNCHANGED <<faults, state>>
    /\ local' = [local EXCEPT ![t] = NoCamera]
    /\ UNCHANGED <<registered, trackVars, camera, lock, backoff, loopVars>>

\* The except branch: a stopped track needs no recovery.
OnError(t) ==
    /\ job[t] = "fault" /\ ~lock[t]
    /\ Goto(t, IF stopped[t] THEN "idle" ELSE "take")
    /\ UNCHANGED <<cameraVars, trackVars, camera, lock, backoff, local, loopVars>>

\* Mutant: _recover() leaves the released camera in _camera.
RecoverKeepsCamera(t) ==
    /\ job[t] = "take" /\ ~lock[t]
    /\ local' = [local EXCEPT ![t] = camera[t]]
    /\ IF camera[t] = NoCamera THEN Goto(t, "idle") /\ backoff' = [backoff EXCEPT ![t] = TRUE]
       ELSE Goto(t, "stop") /\ UNCHANGED backoff
    /\ UNCHANGED <<cameraVars, trackVars, camera, lock, loopVars>>

\* _recover(error), and the pause before the camera is rebuilt
RecoverTakes(t) ==
    /\ job[t] = "take" /\ ~lock[t]
    /\ local' = [local EXCEPT ![t] = camera[t]] /\ camera' = [camera EXCEPT ![t] = NoCamera]
    /\ IF camera[t] = NoCamera THEN Goto(t, "idle") /\ backoff' = [backoff EXCEPT ![t] = TRUE]
       ELSE Goto(t, "stop") /\ UNCHANGED backoff
    /\ UNCHANGED <<cameraVars, trackVars, lock, loopVars>>

RecoverStops(t) ==
    /\ job[t] = "stop" /\ Stopped(local[t]) /\ Goto(t, "release")
    /\ UNCHANGED <<registered, faults, trackVars, camera, lock, backoff, local, loopVars>>

RecoverReleases(t) ==
    /\ job[t] = "release" /\ Released(local[t]) /\ Goto(t, "idle")
    /\ local' = [local EXCEPT ![t] = NoCamera] /\ backoff' = [backoff EXCEPT ![t] = TRUE]
    /\ UNCHANGED <<faults, trackVars, camera, lock, loopVars>>

BackoffEnds(t) ==
    /\ backoff[t] /\ backoff' = [backoff EXCEPT ![t] = FALSE]
    /\ UNCHANGED <<cameraVars, trackVars, camera, lock, job, local, loopVars>>

-----------------------------------------------------------------------------
Loop == StopTakes \/ StopStops \/ StopReleases
Job(t) == \/ Submit(t) \/ Begin(t) \/ EnsureCamera(t) \/ StartCamera(t) \/ ReadCamera(t)
          \/ LatestFrame(t) \/ OnError(t) \/ RecoverTakes(t) \/ RecoverStops(t)
          \/ RecoverReleases(t)

CameraNext ==
    \/ NewTrack \/ Stop \/ Loop
    \/ \E t \in Track : Job(t) \/ BackoffEnds(t)

\* The sender keeps pulling frames, threads run, and the pause ends.
CameraSpec ==
    /\ CameraInit /\ [][CameraNext]_screenVars
    /\ WF_screenVars(Loop)
    /\ \A t \in Track : WF_screenVars(Job(t)) /\ WF_screenVars(BackoffEnds(t))

-----------------------------------------------------------------------------
(* Properties *)

\* "an ended WebRTC track can never recreate dxcam after releasing it": once stop() has
\* returned, the track has no camera, whatever its queued job does.
StoppedHasNoCamera ==
    \A t \in Track : stopped[t] /\ ~(t = current /\ loop # "idle") => camera[t] = NoCamera

\* Every camera that is capturing, or stuck, can still be released: a track has it, or
\* somebody is about to release it.
NoCameraLeaks ==
    \A c \in Camera : state[c] \in {"started", "broken"} => c \in Referenced

\* Capture recovers: as long as a track is not stopped it has, again and again, a running
\* camera, although its predecessor may release the shared one under it and dxcam may
\* hand out a camera that cannot be started.
CaptureRecovers ==
    []<>(current = 0 \/ stopped[current] \/
         (camera[current] # NoCamera /\ state[camera[current]] = "started"))

\* Cameras and tracks stay matched: none with a stopped track, none out of reach.
CameraInv == CameraTypeOK /\ StoppedHasNoCamera /\ NoCameraLeaks
=============================================================================
