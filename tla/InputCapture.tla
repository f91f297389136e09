---------------------------- MODULE InputCapture ----------------------------
(***************************************************************************)
(* useInputCapture.ts: how the viewer turns the browser's pointer and      *)
(* keyboard events into control messages, with pointer.ts for where on the *)
(* picture a pointer is.  The control channel is reliable and ordered, so  *)
(* what the agent holds pressed is the effect of the messages sent so far; *)
(* emitControl() drops what is sent outside an active control session.     *)
(*                                                                         *)
(* The user is external: keys, mouse buttons and fingers go down and up.   *)
(* A browser or an input method may swallow the keydown or the keyup of a  *)
(* Shift (the losses the code repairs), and nothing is delivered while the *)
(* window is in the background.  Mouse and touch are not used at once.     *)
(* Every pointer event has a number; a position is the event it is from.   *)
(***************************************************************************)
EXTENDS Integers, FiniteSets

CONSTANTS
    Letter,                     \* whitelisted keys other than Shift
    Finger,
    Pixel,                      \* where on the element pointers are, pairs
    ContainerW, ContainerH,     \* the element's size
    VideoW, VideoH,             \* the picture's size
    Null,
    MaxEvents                   \* bound: pointer events

ASSUME CaptureAssumption ==
    /\ Pixel \subseteq Nat \X Nat
    /\ {ContainerW, ContainerH, VideoW, VideoH} \subseteq Nat \ {0}
    /\ MaxEvents \in Nat
    /\ Letter \intersect {"ShiftLeft", "ShiftRight"} = {}
    /\ Null \notin {"ShiftLeft", "pending", "dragging", "converted"}

VARIABLES
    active,             \* isControlActive: the listeners are attached
    focus,              \* "video", "toolbar", or "away" (blurred or hidden)
    \* the user
    held, mouse, fingers,
    \* the hook
    touchPhase,         \* Null, "pending", "dragging", "converted"; the long-press
                        \* timer is armed exactly while it is "pending"
    forwardedKeys, synthesizedShift,
    pendingPointerMove, \* the move a frame is requested for, 0 for none
    \* the agent's side
    keys, buttons, cursor,
    \* history
    now,                \* pointer events so far
    swallowed           \* buttons released inside a chord, which reports no pointerup

handVars == <<held, mouse, fingers>>
keyVars == <<forwardedKeys, synthesizedShift>>
pointerVars == <<touchPhase, pendingPointerMove, cursor, now>>
captureVars == <<active, focus, handVars, keyVars, pointerVars, keys, buttons, swallowed>>

Shift == {"ShiftLeft", "ShiftRight"}
Key == Letter \union Shift
Button == {"left", "right"}
Left(b) == IF b THEN {"left"} ELSE {}

CaptureTypeOK ==
    /\ active \in BOOLEAN /\ focus \in {"video", "toolbar", "away"}
    /\ held \subseteq Key /\ mouse \subseteq Button /\ fingers \subseteq Finger
    /\ touchPhase \in {Null, "pending", "dragging", "converted"}
    /\ forwardedKeys \subseteq Key /\ synthesizedShift \in {Null, "ShiftLeft"}
    /\ now \in 0..MaxEvents /\ pendingPointerMove \in 0..now /\ cursor \in 0..now
    /\ keys \subseteq Key /\ buttons \subseteq Button /\ swallowed \subseteq Button

CaptureInit ==
    /\ active = FALSE /\ focus = "video"
    /\ held = {} /\ mouse = {} /\ fingers = {}
    /\ touchPhase = Null /\ forwardedKeys = {} /\ synthesizedShift = Null
    /\ pendingPointerMove = 0
    /\ keys = {} /\ buttons = {} /\ cursor = 0 /\ now = 0 /\ swallowed = {}

-----------------------------------------------------------------------------
(* pointer.ts, with every length multiplied by 2 * VideoW or 2 * VideoH *)

WidthLimited == ContainerW * VideoH <= ContainerH * VideoW

\* The offset, in one dimension, of content of length `full' of `unit' pixels scaled
\* by `num / unit', inside `container': twice the offset, times unit.
Offset(container, full, num, unit) == container * unit - full * num

Inside(p, container, full, num, unit) ==
    LET rel == 2 * p * unit - Offset(container, full, num, unit)
    IN  0 <= rel /\ rel <= 2 * full * num

\* normalizePointerToContent(): not null
OnPicture(p) ==
    LET num == IF WidthLimited THEN ContainerW ELSE ContainerH
        unit == IF WidthLimited THEN VideoW ELSE VideoH
    IN  /\ Inside(p[1], ContainerW, VideoW, num, unit)
        /\ Inside(p[2], ContainerH, VideoH, num, unit)

-----------------------------------------------------------------------------
(* Control sessions *)

\* Control becomes active: the agent has started a fresh controller.
Activate ==
    /\ ~active /\ active' = TRUE
    /\ forwardedKeys' = {} /\ synthesizedShift' = Null
    /\ keys' = {} /\ buttons' = {} /\ swallowed' = {}
    /\ UNCHANGED <<focus, handVars, pointerVars>>

\* Control ends.  The control.release-all of the effect's cleanup comes after the state
\* has changed, and emitControl() drops it; session.policy sends one of its own before.
Deactivate ==
    /\ active /\ active' = FALSE
    /\ touchPhase' = Null /\ pendingPointerMove' = 0
    /\ \/ UNCHANGED <<keys, buttons, swallowed>>
       \/ keys' = {} /\ buttons' = {} /\ swallowed' = {}
    /\ UNCHANGED <<focus, handVars, keyVars, cursor, now>>

\* The agent lets everything go: its watchdog, or the end of the control session.
AgentReleases ==
    /\ keys \union buttons # {}
    /\ keys' = {} /\ buttons' = {} /\ swallowed' = {}
    /\ UNCHANGED <<active, focus, handVars, keyVars, pointerVars>>

\* releaseAll(), on blur and when the page is hidden
Blur ==
    /\ focus # "away" /\ focus' = "away"
    /\ IF active
       THEN /\ forwardedKeys' = {} /\ synthesizedShift' = Null
            /\ keys' = {} /\ buttons' = {} /\ swallowed' = {}
       ELSE UNCHANGED <<keyVars, keys, buttons, swallowed>>
    /\ UNCHANGED <<active, handVars, pointerVars>>

MoveFocus(f) ==
    /\ focus # f /\ focus' = f
    /\ UNCHANGED <<active, handVars, keyVars, pointerVars, keys, buttons, swallowed>>

-----------------------------------------------------------------------------
(* The keyboard *)

NoKeyEvent == UNCHANGED <<keyVars, keys>>

\* Mutant: a Shift whose keyup was lost is not released.
KeyDownUnreconciled(k, shiftKey) ==
    LET repair == shiftKey /\ k \notin Shift /\ forwardedKeys \intersect Shift = {}
        added  == {k} \union (IF repair THEN {"ShiftLeft"} ELSE {})
    IN  /\ forwardedKeys' = forwardedKeys \union added
        /\ keys' = keys \union added
        /\ synthesizedShift' = IF repair THEN "ShiftLeft" ELSE synthesizedShift

\* handleKeyDown(), for a key that is not repeated, whitelisted and not typed into a control
HandleKeyDown(k, shiftKey) ==
    LET unshift == ~shiftKey /\ k \notin Shift
        dropped == IF unshift THEN forwardedKeys \intersect Shift ELSE {}
        repair  == shiftKey /\ k \notin Shift /\ forwardedKeys \intersect Shift = {}
        added   == {k} \union (IF repair THEN {"ShiftLeft"} ELSE {})
    IN  /\ forwardedKeys' = (forwardedKeys \ dropped) \union added
        /\ keys' = (keys \ dropped) \union added
        /\ synthesizedShift' = IF repair THEN "ShiftLeft"
                               ELSE IF unshift THEN Null ELSE synthesizedShift

\* handleKeyUp(): a synthesized Shift goes with the next keyup, whichever key it is.
HandleKeyUp(k) ==
    IF focus = "toolbar" /\ k \notin forwardedKeys \union Shift THEN NoKeyEvent
    ELSE LET dropped == {k, synthesizedShift}
         IN  /\ forwardedKeys' = forwardedKeys \ dropped
             /\ keys' = keys \ dropped /\ synthesizedShift' = Null

PressKey(k) ==
    /\ k \notin held /\ held' = held \union {k}
    /\ \/ /\ active /\ focus = "video"
          /\ HandleKeyDown(k, held' \intersect Shift # {})
       \/ (~active \/ focus # "video" \/ k \in Shift) /\ NoKeyEvent
    /\ UNCHANGED <<active, focus, mouse, fingers, pointerVars, buttons, swallowed>>

ReleaseKey(k) ==
    /\ k \in held /\ held' = held \ {k}
    /\ \/ active /\ focus # "away" /\ HandleKeyUp(k)
       \/ (~active \/ focus = "away" \/ k \in Shift) /\ NoKeyEvent
    /\ UNCHANGED <<active, focus, mouse, fingers, pointerVars, buttons, swallowed>>

-----------------------------------------------------------------------------
(* Pointer moves *)

Event == now < MaxEvents /\ now' = now + 1

\* queuePointerMove(): only the newest position of a frame
QueuePointerMove(p) == pendingPointerMove' = IF OnPicture(p) THEN now' ELSE pendingPointerMove

\* The requested animation frame
Frame ==
    /\ pendingPointerMove # 0
    /\ cursor' = pendingPointerMove /\ pendingPointerMove' = 0
    /\ UNCHANGED <<active, focus, handVars, keyVars, touchPhase, now, keys, buttons, swallowed>>

\* sendPointerMoveImmediately(), for a point on the picture
SendPointerMoveImmediately(p) ==
    IF OnPicture(p) THEN cursor' = now' /\ pendingPointerMove' = 0
    ELSE UNCHANGED <<cursor, pendingPointerMove>>

\* Mutant: a release leaves the last move of a drag queued.
KeepPointerMove == UNCHANGED <<cursor, pendingPointerMove>>

FlushPointerMove ==
    /\ cursor' = IF pendingPointerMove = 0 THEN cursor ELSE pendingPointerMove
    /\ pendingPointerMove' = 0

-----------------------------------------------------------------------------
(* The mouse: a press while a button is down, and the release of one that is not the *)
(* last, come as pointermove, whose handler looks at the position only.              *)

MouseMove(p) ==
    /\ active /\ fingers = {} /\ Event
    /\ QueuePointerMove(p)
    /\ UNCHANGED <<active, focus, handVars, keyVars, touchPhase, cursor, keys, buttons, swallowed>>

MousePress(b, p) ==
    /\ active /\ fingers = {} /\ b \notin mouse /\ Event
    /\ mouse' = mouse \union {b}
    /\ IF mouse = {}
       THEN /\ SendPointerMoveImmediately(p)
            /\ buttons' = buttons \union {b}
            /\ focus' = "video"
       ELSE QueuePointerMove(p) /\ UNCHANGED <<cursor, buttons, focus>>
    /\ UNCHANGED <<active, held, fingers, keyVars, touchPhase, keys, swallowed>>

MouseRelease(b, p) ==
    /\ b \in mouse /\ Event
    /\ mouse' = mouse \ {b}
    /\ CASE ~active -> UNCHANGED <<cursor, pendingPointerMove, buttons, swallowed>>
         [] active /\ mouse' # {} ->
              /\ QueuePointerMove(p) /\ swallowed' = swallowed \union {b}
              /\ UNCHANGED <<cursor, buttons>>
         [] OTHER -> /\ FlushPointerMove
                     /\ buttons' = buttons \ {b} /\ swallowed' = swallowed \ {b}
    /\ UNCHANGED <<active, focus, held, fingers, keyVars, touchPhase, keys>>

-----------------------------------------------------------------------------
(* Touch *)

TouchDown(f, p) ==
    /\ active /\ mouse = {} /\ f \notin fingers /\ Event
    /\ fingers' = fingers \union {f} /\ focus' = "video"
    /\ SendPointerMoveImmediately(p)
    /\ touchPhase' = "pending"
    /\ UNCHANGED <<active, held, mouse, keyVars, keys, buttons, swallowed>>

\* Mutant: the timer of a gesture that became a drag still fires.
LongPressAnyway ==
    /\ touchPhase \in {"pending", "dragging"} /\ touchPhase' = "converted"
    /\ UNCHANGED <<active, focus, handVars, keyVars, pendingPointerMove, cursor, now, keys, buttons, swallowed>>

\* The long-press timer: a right click, which leaves no button down.
LongPress ==
    /\ touchPhase = "pending" /\ touchPhase' = "converted"
    /\ UNCHANGED <<active, focus, handVars, keyVars, pendingPointerMove, cursor, now, keys, buttons, swallowed>>

\* handlePointerMove() for touch; far: beyond the drag threshold
TouchMove(f, p, far) ==
    /\ active /\ f \in fingers /\ Event
    /\ LET drag == touchPhase = "dragging" \/ (touchPhase = "pending" /\ far)
       IN  /\ touchPhase' = IF drag THEN "dragging" ELSE touchPhase
           /\ buttons' = buttons \union Left(drag /\ touchPhase = "pending")
           /\ IF drag THEN QueuePointerMove(p) ELSE UNCHANGED pendingPointerMove
    /\ UNCHANGED <<active, focus, handVars, keyVars, cursor, keys, swallowed>>

\* handlePointerUp() for touch: a tap clicks, a drag ends, a long press is over; a finger
\* without a gesture lifts the left button.
TouchUp(f) ==
    /\ f \in fingers /\ fingers' = fingers \ {f}
    /\ IF active
       THEN /\ FlushPointerMove /\ touchPhase' = Null
            /\ buttons' = buttons \ Left(touchPhase # "converted")
            /\ swallowed' = swallowed \ Left(touchPhase # "converted")
       ELSE UNCHANGED <<touchPhase, pendingPointerMove, cursor, buttons, swallowed>>
    /\ UNCHANGED <<active, focus, held, mouse, keyVars, now, keys>>

\* handlePointerCancel(): the agent releases everything, the keys that are still in
\* forwardedKeys too.
TouchCancel(f) ==
    /\ f \in fingers /\ fingers' = fingers \ {f}
    /\ IF active
       THEN touchPhase' = Null /\ keys' = {} /\ buttons' = {} /\ swallowed' = {}
       ELSE UNCHANGED <<touchPhase, keys, buttons, swallowed>>
    /\ UNCHANGED <<active, focus, held, mouse, keyVars, pendingPointerMove, cursor, now>>

-----------------------------------------------------------------------------
CaptureNext ==
    \/ Activate \/ Deactivate \/ AgentReleases \/ Blur
    \/ \E f \in {"video", "toolbar"} : MoveFocus(f)
    \/ \E k \in Key : PressKey(k) \/ ReleaseKey(k)
    \/ Frame \/ LongPress
    \/ \E p \in Pixel :
         \/ MouseMove(p)
         \/ \E b \in Button : MousePress(b, p) \/ MouseRelease(b, p)
         \/ \E f \in Finger : TouchDown(f, p) \/ \E far \in BOOLEAN : TouchMove(f, p, far)
    \/ \E f \in Finger : TouchUp(f) \/ TouchCancel(f)

CaptureSpec == CaptureInit /\ [][CaptureNext]_captureVars

-----------------------------------------------------------------------------
(* Properties *)

\* handleKeyUp() "would leave Shift (or another modifier) stuck on the remote computer":
\* during control the agent holds no letter key the user has let go of, wherever focus
\* went in between.
NoStuckKey == active => keys \intersect Letter \subseteq held

\* "the next unshifted keyboard event is authoritative": a key pressed without Shift
\* never reaches the agent shifted, although keydowns and keyups of Shift may be lost.
NeverWronglyShifted ==
    [][\A k \in Letter :
         k \in keys' \ keys /\ held' \intersect Shift = {} => keys' \intersect Shift = {}]_captureVars

\* "A synthesized Shift belongs only to this repaired chord": the agent holds a Shift the
\* code made up only while the user holds a key, even if no event of the real Shift is
\* ever delivered.
RepairIsTemporary == active /\ synthesizedShift # Null => held \intersect Letter # {}

\* No button stays down at the agent after the mouse buttons and fingers are up, through
\* taps, drags, long presses, several fingers and cancelled pointers, except for a
\* button let go inside a mouse chord, whose release the browser does not report.
NoStuckButton ==
    active /\ fingers = {} => buttons \subseteq mouse \union swallowed

\* What the agent holds down is what the user holds, whatever moves the focus, loses a
\* Shift, adds a finger or cancels a pointer.
CaptureInv == CaptureTypeOK /\ NoStuckKey /\ RepairIsTemporary /\ NoStuckButton

\* "Finish a drag at the newest queued position before releasing the button": moves are
\* coalesced, sent at once and flushed, but the remote cursor never goes back to an older
\* position, and no release of a mouse button leaves a newer move behind in the queue.
PointerInOrder ==
    [][/\ cursor' >= cursor
       /\ mouse' # mouse /\ buttons' # buttons /\ buttons' \subseteq buttons
            => cursor' >= pendingPointerMove]_captureVars
=============================================================================
