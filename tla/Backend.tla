------------------------------- MODULE Backend -------------------------------
(***************************************************************************)
(* The compositor's presentation backends                                  *)
(* (graphics-compositor/src/backend.cpp, presentation.cpp, buffers.cpp).   *)
(*                                                                         *)
(* FlipBackend keeps two scanout buffers. The present* calls of a pass     *)
(* only record what each buffer is missing; commit() waits until the last  *)
(* flip landed, brings the buffer that is not on screen up to date and     *)
(* flips to it. When the display refuses it releases it and draws straight *)
(* into the firmware's framebuffer from then on, which is also all that    *)
(* SoftwareBackend and VgpuBackend ever do: both cases are `direct'.       *)
(*                                                                         *)
(* commit() is cut at its Display system calls, because the display takes  *)
(* a queued flip at its own vertical blank, between any two of them.       *)
(*                                                                         *)
(* A rectangle is the set of its pixels; a pixel of a buffer records the   *)
(* scene colour it was painted with and which pointer position, if any,    *)
(* was blended over it.                                                    *)
(***************************************************************************)
EXTENDS Integers

CONSTANTS
    Plane,          \* pixels a rectangle may cover, off-screen ones included
    Screen,         \* the pixels of the screen
    Colors,         \* colours of the scene
    Positions,      \* where the pointer can be
    NoPointer,      \* no pointer was blended over this pixel
    Garbage,        \* a pixel the compositor never wrote
    Nothing,        \* no picture is queued (the mapping to Presentation)
    StaleImage,     \* the screen shows nothing the compositor composed (likewise)
    CursorRect(_),  \* cursor_rect(): the pixels the pointer covers at a position
    Unite(_, _)     \* ui::Rect::unite(): a rectangle that holds both (external)

ASSUME ScreenAssumption == Screen \subseteq Plane

ASSUME PointerAssumption ==
    /\ NoPointer \notin Positions
    /\ \A c \in Positions : CursorRect(c) \in SUBSET Plane

ASSUME NothingAssumption ==
    Nothing \notin [Screen -> [color : Colors, pointer : Positions \cup {NoPointer}] \cup {Garbage}]

ASSUME UniteAssumption ==
    \A r, s \in SUBSET Plane :
        /\ Unite(r, s) \in SUBSET Plane
        /\ r \cup s \subseteq Unite(r, s)

VARIABLES
    scene,          \* *scene_: the composed scene
    cursor,         \* cursor_: where the pointer is
    missing,        \* missing_[i]
    cursorDrawn,    \* cursorDrawn_[i]
    front,          \* front_: the buffer last flipped to, or NoBuffer
    pending,        \* pending_
    direct,         \* failed_, or a backend without scanout buffers
    pc,             \* where in renderInitialScene() / commit() the thread is
    buffer,         \* the pixels of the two scanout buffers
    framebuffer,    \* the pixels of the firmware's framebuffer
    scanout,        \* what the display scans out: a buffer or Firmware
    inFlight        \* a flip the display has not taken yet, or NoBuffer

backendVars == <<missing, cursorDrawn, front, pending, direct>>
displayVars == <<buffer, framebuffer, scanout, inFlight>>
vars == <<scene, cursor, backendVars, pc, displayVars>>

Buffers  == {0, 1}
NoBuffer == 2
Firmware == 3
PixelValues == [color : Colors, pointer : Positions \cup {NoPointer}] \cup {Garbage}
Images      == [Screen -> PixelValues]

-----------------------------------------------------------------------------
(* Pixels.                                                                 *)

Bare(c)       == [color |-> c, pointer |-> NoPointer]
Over(c, at)   == [color |-> c, pointer |-> at]

\* The scene sc with the pointer at c over it: what the screen should show.
Picture(sc, c) ==
    [p \in Screen |-> IF p \in CursorRect(c) THEN Over(sc[p], c) ELSE Bare(sc[p])]

\* present_rect_to_framebuffer(): the scene's pixels of rect into an image.
PresentRectTo(image, sc, rect) ==
    [p \in Screen |-> IF p \in rect THEN Bare(sc[p]) ELSE image[p]]

\* present_cursor_move(): scene and pointer over where it was and is.
CursorMoveTo(image, sc, old, new) ==
    [p \in Screen |-> IF p \in Unite(CursorRect(old), CursorRect(new))
                      THEN Picture(sc, new)[p] ELSE image[p]]

\* Which buffer commit() draws into.
Back == IF front = 0 THEN 1 ELSE 0

-----------------------------------------------------------------------------
Init ==
    /\ scene \in [Screen -> Colors]
    /\ cursor \in Positions
    /\ missing = [i \in Buffers |-> Screen]
    /\ cursorDrawn = [i \in Buffers |-> {}]
    /\ front = NoBuffer
    /\ pending = FALSE
    /\ direct \in BOOLEAN
    /\ pc = "start"
    /\ buffer = [i \in Buffers |-> [p \in Screen |-> Garbage]]
    /\ framebuffer = [p \in Screen |-> Garbage]
    /\ scanout = Firmware
    /\ inFlight = NoBuffer

\* FlipBackend::note(): every buffer is missing what changed.
note(changed) ==
    /\ missing' = [i \in Buffers |-> Unite(missing[i], changed)]
    /\ pending' = TRUE
    /\ UNCHANGED <<cursorDrawn, front, direct, displayVars>>

\* Drawing straight into the framebuffer instead.
DrawDirect(image) ==
    /\ framebuffer' = image
    /\ UNCHANGED <<backendVars, buffer, scanout, inFlight>>

presentFull(sc, c) ==
    /\ scene' = sc
    /\ cursor' = c
    /\ IF direct
       THEN DrawDirect(CursorMoveTo(PresentRectTo(framebuffer, sc, Screen), sc, c, c))
       ELSE note(Screen)

\* Mutant: the pointer is not drawn again over what was presented.
PresentRectBare(sc, rect) ==
    /\ scene' = sc
    /\ UNCHANGED cursor
    /\ IF direct THEN DrawDirect(PresentRectTo(framebuffer, sc, rect)) ELSE note(rect)

presentRect(sc, rect) ==
    /\ scene' = sc
    /\ UNCHANGED cursor
    /\ IF direct
       THEN DrawDirect(CursorMoveTo(PresentRectTo(framebuffer, sc, rect), sc, cursor, cursor))
       ELSE note(rect)

\* Mutant: a pointer that only moved leaves nothing for commit() to do.
MoveWithoutNote(c) ==
    /\ cursor' = c
    /\ UNCHANGED scene
    /\ IF direct
       THEN DrawDirect(CursorMoveTo(framebuffer, scene, cursor, c))
       ELSE UNCHANGED <<backendVars, displayVars>>

presentCursorMove(c) ==
    /\ cursor' = c
    /\ UNCHANGED scene
    /\ IF direct
       THEN DrawDirect(CursorMoveTo(framebuffer, scene, cursor, c))
       ELSE note({})

-----------------------------------------------------------------------------
(* The event loop's calls. They come between commits, from one thread.     *)

\* renderInitialScene(): the first full scene, committed at once.
RenderInitialScene ==
    /\ pc = "start"
    /\ pc' = "idle"
    /\ presentFull(scene, cursor)

\* redrawFullScene(): any scene, drawn after any pointer motion.
RedrawFullScene ==
    /\ pc = "idle"
    /\ \E sc \in [Screen -> Colors], c \in Positions : presentFull(sc, c)
    /\ UNCHANGED pc

\* redrawDirtyRect(): the scene is redrawn inside the rectangle only.
RedrawDirtyRect ==
    /\ pc = "idle"
    /\ \E rect \in SUBSET Screen, sc \in [Screen -> Colors] :
          /\ rect # {}
          /\ Unite(rect, rect) \subseteq rect     \* it is a rectangle
          /\ \A p \in Screen \ rect : sc[p] = scene[p]
          /\ presentRect(sc, rect)
    /\ UNCHANGED pc

\* handlePointerEventMessage(): the pointer moved, nothing else did.
MovePointer ==
    /\ pc = "idle"
    /\ \E c \in Positions \ {cursor} : presentCursorMove(c)
    /\ UNCHANGED pc

-----------------------------------------------------------------------------
(* FlipBackend::commit().                                                  *)

CommitBegin ==
    /\ pc = "idle"
    /\ pending
    /\ ~direct
    /\ pending' = FALSE
    /\ pc' = "wait"
    /\ UNCHANGED <<scene, cursor, missing, cursorDrawn, front, direct, displayVars>>

\* Mutant: drawing starts without waiting for the last flip.
CommitUnwaited ==
    /\ pc = "wait"
    /\ pc' = "draw"
    /\ UNCHANGED <<scene, cursor, backendVars, displayVars>>

\* Display Wait returned: no flip is in flight any more.
CommitWaited ==
    /\ pc = "wait"
    /\ inFlight = NoBuffer
    /\ pc' = "draw"
    /\ UNCHANGED <<scene, cursor, backendVars, displayVars>>

\* present_rect_to_framebuffer(repaint) and the pointer into the back buffer,
\* which then holds a pointer at `drawn'.
DrawBack(repaint, drawn) ==
    /\ pc = "draw"
    /\ buffer' = [buffer EXCEPT ![Back] =
           CursorMoveTo(PresentRectTo(buffer[Back], scene, repaint), scene, cursor, cursor)]
    /\ missing' = [missing EXCEPT ![Back] = {}]
    /\ cursorDrawn' = [cursorDrawn EXCEPT ![Back] = drawn]
    /\ pc' = "flip"
    /\ UNCHANGED <<scene, cursor, front, pending, direct, framebuffer, scanout, inFlight>>

\* Mutant: where this buffer's pointer was is not repainted.
DrawKeepsOldPointer == DrawBack(missing[Back] \cap Screen, CursorRect(cursor) \cap Screen)

\* The back buffer is brought up to date: what it misses and where its
\* pointer was, then the pointer.
CommitDraw ==
    DrawBack(Unite(missing[Back], cursorDrawn[Back]) \cap Screen, CursorRect(cursor) \cap Screen)

\* Display Flip took the back buffer.
CommitFlip ==
    /\ pc = "flip"
    /\ inFlight' = Back
    /\ front' = Back
    /\ pc' = "idle"
    /\ UNCHANGED <<scene, cursor, missing, cursorDrawn, pending, direct,
                   buffer, framebuffer, scanout>>

\* fallBack(), after a Wait that timed out or a refused Flip: the kernel puts
\* the firmware's framebuffer back on screen ...
fallBack ==
    /\ pc \in {"wait", "flip"}
    /\ direct' = TRUE
    /\ scanout' = Firmware
    /\ inFlight' = NoBuffer
    /\ pc' = "paint"
    /\ UNCHANGED <<scene, cursor, missing, cursorDrawn, front, pending, buffer, framebuffer>>

\* ... and it gets the whole current picture.
FallBackPaint ==
    /\ pc = "paint"
    /\ framebuffer' =
          CursorMoveTo(PresentRectTo(framebuffer, scene, Screen), scene, cursor, cursor)
    /\ pc' = "idle"
    /\ UNCHANGED <<scene, cursor, backendVars, buffer, scanout, inFlight>>

\* The display, at its vertical blank.
VerticalBlank ==
    /\ inFlight # NoBuffer
    /\ scanout' = inFlight
    /\ inFlight' = NoBuffer
    /\ UNCHANGED <<scene, cursor, backendVars, pc, buffer, framebuffer>>

-----------------------------------------------------------------------------
Commit == CommitBegin \/ CommitWaited \/ CommitDraw \/ CommitFlip \/ fallBack \/ FallBackPaint

Next ==
    \/ RenderInitialScene
    \/ RedrawFullScene
    \/ RedrawDirtyRect
    \/ MovePointer
    \/ CommitBegin
    \/ CommitWaited
    \/ CommitDraw
    \/ CommitFlip
    \/ fallBack
    \/ FallBackPaint
    \/ VerticalBlank

Spec == Init /\ [][Next]_vars

\* The compositor's thread keeps running, every pass ends in commit(), and the
\* display keeps refreshing.
FairSpec == Spec /\ WF_vars(RenderInitialScene) /\ WF_vars(Commit) /\ WF_vars(VerticalBlank)

-----------------------------------------------------------------------------
\* What the user sees.
OnScreen == IF scanout = Firmware THEN framebuffer ELSE buffer[scanout]

\* Every variable has the values the code's declarations allow.
TypeOK ==
    /\ scene \in [Screen -> Colors]
    /\ cursor \in Positions
    /\ missing \in [Buffers -> SUBSET Plane]
    /\ cursorDrawn \in [Buffers -> SUBSET Screen]
    /\ front \in Buffers \cup {NoBuffer}
    /\ pending \in BOOLEAN
    /\ direct \in BOOLEAN
    /\ pc \in {"start", "idle", "wait", "draw", "flip", "paint"}
    /\ buffer \in [Buffers -> Images]
    /\ framebuffer \in Images
    /\ scanout \in Buffers \cup {Firmware}
    /\ inFlight \in Buffers \cup {NoBuffer}

\* "Each buffer remembers what it is missing" (backend.cpp:134): a pixel that
\* neither missing_ nor cursorDrawn_ of a buffer names already holds the current
\* scene, however many passes presented into the other buffer since. (After a
\* fallback the buffers are the kernel's again.)
BuffersRemember ==
    ~direct => \A i \in Buffers : \A p \in Screen \ (missing[i] \cup cursorDrawn[i]) :
        buffer[i][p] = Bare(scene[p])

\* Tear-free (backend.cpp:126): commit() writes only into a buffer that is
\* neither on screen nor about to come up.
DrawsOffScreen ==
    pc = "draw" => Back # scanout /\ inFlight = NoBuffer

\* Once a pass is committed and its flip landed, the screen shows exactly the
\* current scene with the pointer where it is: no rectangle of an older frame,
\* no second pointer; also after a fallback, and for the direct backends.
SettledScreenIsCurrent ==
    pc = "idle" /\ ~pending /\ inFlight = NoBuffer => OnScreen = Picture(scene, cursor)

\* Which buffer is on screen follows from what commit() knows: the one last
\* flipped to is in flight or scanned out, and a direct backend has none.
FrontIsKnown ==
    /\ direct => /\ scanout = Firmware
                 /\ inFlight = NoBuffer
                 /\ ~pending
                 /\ pc \in {"start", "idle", "paint"}
    /\ ~direct => /\ pc # "paint"
                  /\ inFlight \in {NoBuffer, front}
                  /\ inFlight = NoBuffer =>
                        scanout = IF front = NoBuffer THEN Firmware ELSE front
    /\ pc \in {"wait", "draw", "flip"} => ~pending
    /\ pc \in {"draw", "flip"} => inFlight = NoBuffer
    /\ pc = "start" => front = NoBuffer

\* The picture a finished step leaves behind is the current one.
StepsLeaveCurrent ==
    /\ pc = "flip" => buffer[Back] = Picture(scene, cursor)
    /\ pc = "idle" /\ ~direct /\ ~pending =>
          front \in Buffers /\ buffer[front] = Picture(scene, cursor)
    /\ pc = "idle" /\ direct => framebuffer = Picture(scene, cursor)

\* The inductive invariant behind the three properties above.
IInv == TypeOK /\ BuffersRemember /\ FrontIsKnown /\ StepsLeaveCurrent

\* When the scene and the pointer stop changing, the screen ends up showing
\* them and stays so, whether or not the display works.
EventuallyCurrent ==
    (<>[][UNCHANGED <<scene, cursor>>]_<<scene, cursor>>)
        => <>[](OnScreen = Picture(scene, cursor))

-----------------------------------------------------------------------------
(* The promise of Presentation, with this mapping.                         *)
AllPictures == {Picture(sc, c) : sc \in [Screen -> Colors], c \in Positions}

Promise == INSTANCE Presentation WITH
    Pictures  <- AllPictures,
    NoPicture <- Nothing,
    Stale     <- StaleImage,
    current   <- Picture(scene, cursor),
    queued    <- IF inFlight = NoBuffer THEN Nothing ELSE buffer[inFlight],
    shown     <- IF pc = "start" \/ pc = "paint" \/ (scanout = Firmware /\ ~direct)
                 THEN StaleImage ELSE OnScreen,
    direct    <- direct

\* The backends implement Presentation: what comes up is always a whole
\* picture that was current when it was committed.
KeepsPromise == Promise!Spec
=============================================================================
