---------------------------- MODULE BackendProofs ----------------------------
(* The backends keep every buffer's damage exact and show whole pictures,   *)
(* for every screen, pointer shape, set of colours and uniting of           *)
(* rectangles that covers both.                                             *)
EXTENDS Backend, TLAPS

USE DEF Buffers, NoBuffer, Firmware

-----------------------------------------------------------------------------
(* What the painting operators leave in an image.                           *)

\* A picture is an image.
LEMMA PictureIsImage ==
    ASSUME NEW sc \in [Screen -> Colors], NEW c \in Positions
    PROVE  /\ Picture(sc, c) \in Images
           /\ Picture(sc, c) \in AllPictures
BY DEF Picture, Images, PixelValues, Over, Bare, AllPictures

\* present_rect_to_framebuffer() then present_cursor_move() give an image.
LEMMA PaintIsImage ==
    ASSUME NEW im \in Images, NEW sc \in [Screen -> Colors], NEW r,
           NEW c \in Positions, NEW d \in Positions
    PROVE  /\ CursorMoveTo(PresentRectTo(im, sc, r), sc, c, d) \in Images
           /\ CursorMoveTo(im, sc, c, d) \in Images
BY DEF CursorMoveTo, PresentRectTo, Picture, Images, PixelValues, Over, Bare

\* Repainting a region brings an image up to date when every pixel outside the
\* region and the pointer held the scene already.
LEMMA RepaintIsPicture ==
    ASSUME NEW im \in Images, NEW sc \in [Screen -> Colors], NEW r,
           NEW c \in Positions,
           \A p \in Screen \ (r \cup CursorRect(c)) : im[p] = Bare(sc[p])
    PROVE  CursorMoveTo(PresentRectTo(im, sc, r), sc, c, c) = Picture(sc, c)
<1> DEFINE new == CursorMoveTo(PresentRectTo(im, sc, r), sc, c, c)
<1>1. CursorRect(c) \subseteq Unite(CursorRect(c), CursorRect(c))
  BY UniteAssumption, PointerAssumption
<1>2. ASSUME NEW p \in Screen PROVE new[p] = Picture(sc, c)[p]
  BY <1>1, <1>2 DEF CursorMoveTo, PresentRectTo, Picture
<1>3. new = [p \in Screen |-> new[p]]
  BY DEF CursorMoveTo
<1>4. Picture(sc, c) = [p \in Screen |-> Picture(sc, c)[p]]
  BY DEF Picture
<1> QED BY <1>2, <1>3, <1>4

\* Moving the pointer repaints where it was and where it is, which is enough.
LEMMA CursorMoveIsPicture ==
    ASSUME NEW sc \in [Screen -> Colors], NEW c \in Positions, NEW d \in Positions
    PROVE  CursorMoveTo(Picture(sc, c), sc, c, d) = Picture(sc, d)
<1> DEFINE new == CursorMoveTo(Picture(sc, c), sc, c, d)
<1>1. /\ CursorRect(c) \subseteq Unite(CursorRect(c), CursorRect(d))
      /\ CursorRect(d) \subseteq Unite(CursorRect(c), CursorRect(d))
  BY UniteAssumption, PointerAssumption
<1>2. ASSUME NEW p \in Screen PROVE new[p] = Picture(sc, d)[p]
  BY <1>1, <1>2 DEF CursorMoveTo, Picture
<1>3. new = [p \in Screen |-> new[p]]
  BY DEF CursorMoveTo
<1>4. Picture(sc, d) = [p \in Screen |-> Picture(sc, d)[p]]
  BY DEF Picture
<1> QED BY <1>2, <1>3, <1>4

-----------------------------------------------------------------------------
\* The inductive invariant holds initially.
LEMMA InitIInv == Init => IInv
<1> SUFFICES ASSUME Init PROVE IInv
  OBVIOUS
<1>1. [p \in Screen |-> Garbage] \in Images
  BY DEF Images, PixelValues
<1>2. TypeOK
  BY <1>1, ScreenAssumption DEF Init, TypeOK
<1>3. BuffersRemember
  BY DEF Init, BuffersRemember
<1>4. FrontIsKnown /\ StepsLeaveCurrent
  BY DEF Init, FrontIsKnown, StepsLeaveCurrent
<1> QED BY <1>2, <1>3, <1>4 DEF IInv

\* note() keeps the damage of both buffers: the scene changed only inside
\* `changed', which both are missing now.
LEMMA NoteIInv ==
    ASSUME IInv, pc \in {"start", "idle"}, pc' = "idle", ~direct,
           NEW changed \in SUBSET Plane, note(changed),
           scene' \in [Screen -> Colors], cursor' \in Positions,
           \A p \in Screen \ changed : scene'[p] = scene[p]
    PROVE  IInv'
<1> USE DEF IInv
<1>1. \A i \in Buffers : /\ missing'[i] \in SUBSET Plane
                         /\ missing[i] \cup changed \subseteq missing'[i]
  BY UniteAssumption DEF note, TypeOK
<1>2. TypeOK'
  BY <1>1 DEF note, TypeOK, displayVars
<1>3. BuffersRemember'
  <2> SUFFICES ASSUME NEW i \in Buffers,
                      NEW p \in Screen \ (missing'[i] \cup cursorDrawn'[i])
               PROVE  buffer'[i][p] = Bare(scene'[p])
    BY DEF BuffersRemember
  <2>1. p \in Screen \ (missing[i] \cup cursorDrawn[i]) /\ p \notin changed
    BY <1>1 DEF note
  <2> QED BY <2>1 DEF BuffersRemember, note, displayVars
<1>4. FrontIsKnown'
  BY DEF FrontIsKnown, note, displayVars
<1>5. StepsLeaveCurrent'
  BY DEF StepsLeaveCurrent, note, displayVars
<1> QED BY <1>2, <1>3, <1>4, <1>5

\* A direct backend leaves the current picture in the framebuffer.
LEMMA DirectIInv ==
    ASSUME IInv, pc \in {"start", "idle"}, pc' = "idle", direct,
           NEW image \in Images, DrawDirect(image),
           scene' \in [Screen -> Colors], cursor' \in Positions,
           image = Picture(scene', cursor')
    PROVE  IInv'
BY DEF IInv, DrawDirect, backendVars, TypeOK, BuffersRemember, FrontIsKnown, StepsLeaveCurrent

\* Every step keeps the inductive invariant.
LEMMA NextIInv == IInv /\ [Next]_vars => IInv'
<1> SUFFICES ASSUME IInv, [Next]_vars PROVE IInv'
  OBVIOUS
<1>t. /\ scene \in [Screen -> Colors] /\ cursor \in Positions
      /\ framebuffer \in Images /\ \A i \in Buffers : buffer[i] \in Images
  BY DEF IInv, TypeOK
<1>full. ASSUME NEW sc \in [Screen -> Colors], NEW c \in Positions,
                pc \in {"start", "idle"}, pc' = "idle", presentFull(sc, c)
         PROVE  IInv'
  <2>1. scene' = sc /\ cursor' = c
    BY <1>full DEF presentFull
  <2> DEFINE image == CursorMoveTo(PresentRectTo(framebuffer, sc, Screen), sc, c, c)
  <2>2. CASE direct
    <3>1. image \in Images
      BY <1>t, PaintIsImage
    <3>2. image = Picture(sc, c)
      BY <1>t, RepaintIsPicture
    <3>3. DrawDirect(image)
      BY <1>full, <2>2 DEF presentFull
    <3> HIDE DEF image
    <3> QED BY <1>full, <2>1, <2>2, <3>1, <3>2, <3>3, DirectIInv
  <2>3. CASE ~direct
    <3>1. note(Screen)
      BY <1>full, <2>3 DEF presentFull
    <3> QED BY <1>full, <2>1, <2>3, <3>1, NoteIInv, ScreenAssumption
  <2> QED BY <2>2, <2>3
<1>1. CASE RenderInitialScene
  BY <1>1, <1>full, <1>t DEF RenderInitialScene
<1>2. CASE RedrawFullScene
  BY <1>2, <1>full DEF RedrawFullScene
<1>3. CASE RedrawDirtyRect
  <2>1. PICK rect \in SUBSET Screen, sc \in [Screen -> Colors] :
           /\ \A p \in Screen \ rect : sc[p] = scene[p]
           /\ presentRect(sc, rect)
    BY <1>3 DEF RedrawDirtyRect
  <2>2. scene' = sc /\ cursor' = cursor /\ pc = "idle" /\ pc' = "idle"
    BY <1>3, <2>1 DEF RedrawDirtyRect, presentRect
  <2> DEFINE image == CursorMoveTo(PresentRectTo(framebuffer, sc, rect), sc, cursor, cursor)
  <2>3. CASE direct
    <3>1. image \in Images
      BY <1>t, PaintIsImage
    <3>2. framebuffer = Picture(scene, cursor)
      BY <2>2, <2>3 DEF IInv, StepsLeaveCurrent
    <3>3. \A p \in Screen \ (rect \cup CursorRect(cursor)) : framebuffer[p] = Bare(sc[p])
      BY <2>1, <3>2 DEF Picture
    <3>4. image = Picture(sc, cursor)
      BY <1>t, <3>3, RepaintIsPicture
    <3>5. DrawDirect(image)
      BY <2>1, <2>3 DEF presentRect
    <3> HIDE DEF image
    <3> QED BY <1>t, <2>2, <2>3, <3>1, <3>4, <3>5, DirectIInv
  <2>4. CASE ~direct
    <3>1. note(rect)
      BY <2>1, <2>4 DEF presentRect
    <3> QED BY <1>t, <2>1, <2>2, <2>4, <3>1, NoteIInv, ScreenAssumption
  <2> QED BY <2>3, <2>4
<1>4. CASE MovePointer
  <2>1. PICK c \in Positions : presentCursorMove(c)
    BY <1>4 DEF MovePointer
  <2>2. scene' = scene /\ cursor' = c /\ pc = "idle" /\ pc' = "idle"
    BY <1>4, <2>1 DEF MovePointer, presentCursorMove
  <2> DEFINE image == CursorMoveTo(framebuffer, scene, cursor, c)
  <2>3. CASE direct
    <3>1. image \in Images
      BY <1>t, PaintIsImage
    <3>2. framebuffer = Picture(scene, cursor)
      BY <2>2, <2>3 DEF IInv, StepsLeaveCurrent
    <3>3. image = Picture(scene, c)
      BY <1>t, <3>2, CursorMoveIsPicture
    <3>4. DrawDirect(image)
      BY <2>1, <2>3 DEF presentCursorMove
    <3> HIDE DEF image
    <3> QED BY <1>t, <2>2, <2>3, <3>1, <3>3, <3>4, DirectIInv
  <2>4. CASE ~direct
    <3>1. note({})
      BY <2>1, <2>4 DEF presentCursorMove
    <3> QED BY <1>t, <2>1, <2>2, <2>4, <3>1, NoteIInv
  <2> QED BY <2>3, <2>4
<1>5. CASE CommitBegin
  BY <1>5 DEF IInv, CommitBegin, displayVars, TypeOK, BuffersRemember, FrontIsKnown, StepsLeaveCurrent
<1>6. CASE CommitWaited
  BY <1>6 DEF IInv, CommitWaited, displayVars, backendVars, TypeOK, BuffersRemember,
              FrontIsKnown, StepsLeaveCurrent
<1>7. CASE CommitDraw
  <2> DEFINE repaint == Unite(missing[Back], cursorDrawn[Back]) \cap Screen
             image   == CursorMoveTo(PresentRectTo(buffer[Back], scene, repaint), scene, cursor, cursor)
  <2>1. Back \in Buffers /\ ~direct /\ pc = "draw"
    BY <1>7 DEF Back, CommitDraw, DrawBack, IInv, FrontIsKnown
  <2>2. image \in Images
    BY <1>t, <2>1, PaintIsImage
  <2>3. /\ missing[Back] \in SUBSET Plane
        /\ cursorDrawn[Back] \in SUBSET Plane
    BY <2>1, ScreenAssumption DEF IInv, TypeOK
  <2>4. missing[Back] \cup cursorDrawn[Back] \subseteq Unite(missing[Back], cursorDrawn[Back])
    BY <2>3, UniteAssumption
  <2>5. \A p \in Screen \ repaint : buffer[Back][p] = Bare(scene[p])
    BY <2>1, <2>4 DEF IInv, BuffersRemember
  <2>6. image = Picture(scene, cursor)
    BY <1>t, <2>1, <2>5, RepaintIsPicture
  <2>7. /\ buffer' = [buffer EXCEPT ![Back] = image]
        /\ missing' = [missing EXCEPT ![Back] = {}]
        /\ cursorDrawn' = [cursorDrawn EXCEPT ![Back] = CursorRect(cursor) \cap Screen]
        /\ pc' = "flip"
        /\ UNCHANGED <<scene, cursor, front, pending, direct, framebuffer, scanout, inFlight>>
    BY <1>7 DEF CommitDraw, DrawBack
  <2> HIDE DEF image, repaint
  <2>8. TypeOK'
    BY <2>1, <2>2, <2>7 DEF IInv, TypeOK
  <2>9. BuffersRemember'
    <3> SUFFICES ASSUME NEW i \in Buffers,
                        NEW p \in Screen \ (missing'[i] \cup cursorDrawn'[i])
                 PROVE  buffer'[i][p] = Bare(scene'[p])
      BY DEF BuffersRemember
    <3>1. CASE i = Back
      <4>1. p \notin CursorRect(cursor)
        BY <2>1, <2>7, <3>1 DEF IInv, TypeOK
      <4>2. buffer'[i] = Picture(scene, cursor)
        BY <2>1, <2>6, <2>7, <3>1 DEF IInv, TypeOK
      <4> QED BY <2>7, <4>1, <4>2 DEF Picture
    <3>2. CASE i # Back
      BY <2>1, <2>7, <3>2 DEF IInv, TypeOK, BuffersRemember
    <3> QED BY <3>1, <3>2
  <2>10. FrontIsKnown'
    BY <2>1, <2>7 DEF IInv, FrontIsKnown
  <2>11. StepsLeaveCurrent'
    <3>1. Back' = Back
      BY <2>7 DEF Back
    <3>2. buffer'[Back] = Picture(scene, cursor)
      BY <2>1, <2>6, <2>7 DEF IInv, TypeOK
    <3>3. Picture(scene, cursor)' = Picture(scene, cursor)
      BY <2>7 DEF Picture
    <3> QED BY <2>7, <3>1, <3>2, <3>3 DEF StepsLeaveCurrent
  <2> QED BY <2>8, <2>9, <2>10, <2>11 DEF IInv
<1>8. CASE CommitFlip
  <2> USE <1>8 DEF CommitFlip
  <2>1. TypeOK'
    BY DEF IInv, TypeOK, Back
  <2>2. BuffersRemember'
    BY DEF IInv, BuffersRemember
  <2>3. FrontIsKnown'
    BY DEF IInv, FrontIsKnown, Back
  <2>4. StepsLeaveCurrent'
    BY DEF IInv, FrontIsKnown, StepsLeaveCurrent, Back
  <2> QED BY <2>1, <2>2, <2>3, <2>4 DEF IInv
<1>9. CASE fallBack
  BY <1>9 DEF IInv, fallBack, TypeOK, BuffersRemember, FrontIsKnown, StepsLeaveCurrent
<1>10. CASE FallBackPaint
  <2> DEFINE image == CursorMoveTo(PresentRectTo(framebuffer, scene, Screen), scene, cursor, cursor)
  <2>1. image \in Images /\ image = Picture(scene, cursor)
    BY <1>t, PaintIsImage, RepaintIsPicture
  <2>2. /\ framebuffer' = image /\ pc = "paint" /\ pc' = "idle"
        /\ UNCHANGED <<scene, cursor, missing, cursorDrawn, front, pending, direct,
                       buffer, scanout, inFlight>>
    BY <1>10 DEF FallBackPaint, backendVars
  <2>3. direct
    BY <2>2 DEF IInv, FrontIsKnown
  <2> HIDE DEF image
  <2> QED BY <2>1, <2>2, <2>3 DEF IInv, TypeOK, BuffersRemember, FrontIsKnown, StepsLeaveCurrent
<1>11. CASE VerticalBlank
  BY <1>11 DEF IInv, VerticalBlank, backendVars, TypeOK, BuffersRemember, FrontIsKnown,
               StepsLeaveCurrent, Back
<1>12. CASE UNCHANGED vars
  BY <1>12 DEF IInv, vars, backendVars, displayVars, TypeOK, BuffersRemember, FrontIsKnown,
               StepsLeaveCurrent, Back
<1> QED BY <1>1, <1>2, <1>3, <1>4, <1>5, <1>6, <1>7, <1>8, <1>9, <1>10, <1>11, <1>12 DEF Next

\* The inductive invariant holds in every state of every behaviour.
THEOREM IInvHolds == Spec => []IInv
BY InitIInv, NextIInv, PTL DEF Spec

\* Type correctness.
THEOREM TypeCorrect == Spec => []TypeOK
<1>1. IInv => TypeOK
  BY DEF IInv
<1> QED BY <1>1, IInvHolds, PTL

\* missing_ and cursorDrawn_ always name every pixel in which a scanout buffer
\* differs from the scene.
THEOREM DamageIsExact == Spec => []BuffersRemember
<1>1. IInv => BuffersRemember
  BY DEF IInv
<1> QED BY <1>1, IInvHolds, PTL

\* commit() never writes into the buffer on screen or one about to come up.
THEOREM TearFree == Spec => []DrawsOffScreen
<1>1. IInv => DrawsOffScreen
  BY DEF IInv, TypeOK, FrontIsKnown, DrawsOffScreen, Back
<1> QED BY <1>1, IInvHolds, PTL

\* After a committed pass the screen shows the current scene and pointer.
THEOREM SettledScreen == Spec => []SettledScreenIsCurrent
<1>1. IInv => SettledScreenIsCurrent
  BY DEF IInv, TypeOK, FrontIsKnown, StepsLeaveCurrent, SettledScreenIsCurrent, OnScreen
<1> QED BY <1>1, IInvHolds, PTL

-----------------------------------------------------------------------------
(* The backends implement Presentation.                                     *)

\* The initial states map to initial states.
LEMMA PromiseInit == Init => Promise!Init
BY PictureIsImage DEF Init, Promise!Init

\* A present* call of a flipping backend changes only what is wanted.
LEMMA NoteStep ==
    ASSUME IInv, pc \in {"start", "idle"}, pc' = "idle", ~direct,
           NEW changed, note(changed),
           scene' \in [Screen -> Colors], cursor' \in Positions
    PROVE  Promise!Next
<1>1. Picture(scene', cursor') \in AllPictures
  BY PictureIsImage
<1>2. /\ direct' = direct /\ buffer' = buffer /\ framebuffer' = framebuffer
      /\ scanout' = scanout /\ inFlight' = inFlight
  BY DEF note, displayVars
<1>3. pc = "start" => scanout = Firmware \/ inFlight # NoBuffer
  BY DEF IInv, FrontIsKnown
<1>4. pc = "start" => inFlight = NoBuffer
  BY DEF IInv, FrontIsKnown, TypeOK
<1>5. Promise!Change
  BY <1>1, <1>2, <1>3, <1>4 DEF Promise!Change, OnScreen
<1> QED BY <1>5 DEF Promise!Next

\* A present* call of a direct backend shows what it draws.
LEMMA DirectStep ==
    ASSUME IInv, pc \in {"start", "idle"}, pc' = "idle", direct,
           NEW image, DrawDirect(image),
           scene' \in [Screen -> Colors], cursor' \in Positions,
           image = Picture(scene', cursor')
    PROVE  Promise!Next
<1>1. Picture(scene', cursor') \in AllPictures
  BY PictureIsImage
<1>2. /\ direct' = direct /\ buffer' = buffer /\ framebuffer' = Picture(scene', cursor')
      /\ scanout' = Firmware /\ inFlight' = NoBuffer /\ inFlight = NoBuffer
  BY DEF DrawDirect, backendVars, IInv, FrontIsKnown
<1>3. Promise!DirectChange
  BY <1>1, <1>2 DEF Promise!DirectChange, OnScreen
<1> QED BY <1>3 DEF Promise!Next

\* Every step maps to a step of Presentation or leaves its variables alone.
LEMMA PromiseNext == IInv /\ [Next]_vars => [Promise!Next]_Promise!vars
<1> SUFFICES ASSUME IInv, [Next]_vars PROVE Promise!Next \/ UNCHANGED Promise!vars
  OBVIOUS
<1>t. /\ scene \in [Screen -> Colors] /\ cursor \in Positions
      /\ framebuffer \in Images /\ \A i \in Buffers : buffer[i] \in Images
  BY DEF IInv, TypeOK
<1>full. ASSUME NEW sc \in [Screen -> Colors], NEW c \in Positions,
                pc \in {"start", "idle"}, pc' = "idle", presentFull(sc, c)
         PROVE  Promise!Next
  <2>1. scene' = sc /\ cursor' = c
    BY <1>full DEF presentFull
  <2> DEFINE image == CursorMoveTo(PresentRectTo(framebuffer, sc, Screen), sc, c, c)
  <2>2. CASE direct
    <3>1. image = Picture(sc, c)
      BY <1>t, RepaintIsPicture
    <3>2. DrawDirect(image)
      BY <1>full, <2>2 DEF presentFull
    <3> HIDE DEF image
    <3> QED BY <1>full, <2>1, <2>2, <3>1, <3>2, DirectStep
  <2>3. CASE ~direct
    <3>1. note(Screen)
      BY <1>full, <2>3 DEF presentFull
    <3> QED BY <1>full, <2>1, <2>3, <3>1, NoteStep
  <2> QED BY <2>2, <2>3
<1>1. CASE RenderInitialScene
  BY <1>1, <1>full, <1>t DEF RenderInitialScene
<1>2. CASE RedrawFullScene
  BY <1>2, <1>full DEF RedrawFullScene
<1>3. CASE RedrawDirtyRect
  <2>1. PICK rect \in SUBSET Screen, sc \in [Screen -> Colors] :
           /\ \A p \in Screen \ rect : sc[p] = scene[p]
           /\ presentRect(sc, rect)
    BY <1>3 DEF RedrawDirtyRect
  <2>2. scene' = sc /\ cursor' = cursor /\ pc = "idle" /\ pc' = "idle"
    BY <1>3, <2>1 DEF RedrawDirtyRect, presentRect
  <2> DEFINE image == CursorMoveTo(PresentRectTo(framebuffer, sc, rect), sc, cursor, cursor)
  <2>3. CASE direct
    <3>1. framebuffer = Picture(scene, cursor)
      BY <2>2, <2>3 DEF IInv, StepsLeaveCurrent
    <3>2. \A p \in Screen \ (rect \cup CursorRect(cursor)) : framebuffer[p] = Bare(sc[p])
      BY <2>1, <3>1 DEF Picture
    <3>3. image = Picture(sc, cursor)
      BY <1>t, <3>2, RepaintIsPicture
    <3>4. DrawDirect(image)
      BY <2>1, <2>3 DEF presentRect
    <3> HIDE DEF image
    <3> QED BY <1>t, <2>2, <2>3, <3>3, <3>4, DirectStep
  <2>4. CASE ~direct
    <3>1. note(rect)
      BY <2>1, <2>4 DEF presentRect
    <3> QED BY <1>t, <2>2, <2>4, <3>1, NoteStep
  <2> QED BY <2>3, <2>4
<1>4. CASE MovePointer
  <2>1. PICK c \in Positions : presentCursorMove(c)
    BY <1>4 DEF MovePointer
  <2>2. scene' = scene /\ cursor' = c /\ pc = "idle" /\ pc' = "idle"
    BY <1>4, <2>1 DEF MovePointer, presentCursorMove
  <2> DEFINE image == CursorMoveTo(framebuffer, scene, cursor, c)
  <2>3. CASE direct
    <3>1. framebuffer = Picture(scene, cursor)
      BY <2>2, <2>3 DEF IInv, StepsLeaveCurrent
    <3>2. image = Picture(scene, c)
      BY <1>t, <3>1, CursorMoveIsPicture
    <3>3. DrawDirect(image)
      BY <2>1, <2>3 DEF presentCursorMove
    <3> HIDE DEF image
    <3> QED BY <1>t, <2>2, <2>3, <3>2, <3>3, DirectStep
  <2>4. CASE ~direct
    <3>1. note({})
      BY <2>1, <2>4 DEF presentCursorMove
    <3> QED BY <1>t, <2>2, <2>4, <3>1, NoteStep
  <2> QED BY <2>3, <2>4
<1>5. CASE CommitBegin
  <2>1. UNCHANGED <<scene, cursor, direct, buffer, framebuffer, scanout, inFlight>>
        /\ pc = "idle" /\ pc' = "wait"
    BY <1>5 DEF CommitBegin, displayVars
  <2> QED BY <2>1 DEF Promise!vars, OnScreen, Picture
<1>6. CASE CommitWaited
  <2>1. UNCHANGED <<scene, cursor, direct, buffer, framebuffer, scanout, inFlight>>
        /\ pc = "wait" /\ pc' = "draw"
    BY <1>6 DEF CommitWaited, backendVars, displayVars
  <2> QED BY <2>1 DEF Promise!vars, OnScreen, Picture
<1>7. CASE CommitDraw
  <2>1. /\ UNCHANGED <<scene, cursor, direct, framebuffer, scanout, inFlight>>
        /\ pc = "draw" /\ pc' = "flip"
    BY <1>7 DEF CommitDraw, DrawBack
  <2>2. Back # scanout /\ inFlight = NoBuffer
    BY <2>1 DEF IInv, TypeOK, FrontIsKnown, Back
  <2>3. scanout # Firmware => scanout \in Buffers
    BY DEF IInv, TypeOK
  <2>4. scanout \in Buffers => buffer'[scanout] = buffer[scanout]
    BY <1>7, <2>2 DEF CommitDraw, DrawBack, IInv, TypeOK
  <2>5. OnScreen' = OnScreen
    BY <2>1, <2>3, <2>4 DEF OnScreen
  <2> QED BY <2>1, <2>2, <2>5 DEF Promise!vars, Picture
<1>8. CASE CommitFlip
  <2>1. /\ UNCHANGED <<scene, cursor, direct, buffer, framebuffer, scanout>>
        /\ pc = "flip" /\ pc' = "idle" /\ inFlight' = Back
    BY <1>8 DEF CommitFlip
  <2>2. Back \in Buffers /\ inFlight = NoBuffer /\ ~direct
    BY <2>1 DEF Back, IInv, FrontIsKnown
  <2>3. buffer[Back] = Picture(scene, cursor)
    BY <2>1 DEF IInv, StepsLeaveCurrent
  <2>4. Promise!Queue
    BY <2>1, <2>2, <2>3 DEF Promise!Queue, OnScreen, Picture
  <2> QED BY <2>4 DEF Promise!Next
<1>9. CASE fallBack
  <2>1. ~direct
    BY <1>9 DEF fallBack, IInv, FrontIsKnown
  <2>2. Promise!FallBack
    BY <1>9, <2>1 DEF fallBack, Promise!FallBack, Picture
  <2> QED BY <2>2 DEF Promise!Next
<1>10. CASE FallBackPaint
  <2>1. CursorMoveTo(PresentRectTo(framebuffer, scene, Screen), scene, cursor, cursor)
           = Picture(scene, cursor)
    BY <1>t, RepaintIsPicture
  <2>2. /\ framebuffer' = Picture(scene, cursor) /\ pc = "paint" /\ pc' = "idle"
        /\ UNCHANGED <<scene, cursor, direct, buffer, scanout, inFlight>>
    BY <1>10, <2>1 DEF FallBackPaint, backendVars
  <2>3. direct /\ scanout = Firmware
    BY <2>2 DEF IInv, FrontIsKnown
  <2>4. Promise!Repaint
    BY <2>2, <2>3 DEF Promise!Repaint, OnScreen, Picture
  <2> QED BY <2>4 DEF Promise!Next
<1>11. CASE VerticalBlank
  <2>1. /\ inFlight # NoBuffer /\ scanout' = inFlight /\ inFlight' = NoBuffer
        /\ UNCHANGED <<scene, cursor, direct, pc, buffer, framebuffer>>
    BY <1>11 DEF VerticalBlank, backendVars
  <2>2. inFlight \in Buffers /\ ~direct /\ pc # "start" /\ pc # "paint"
    BY <2>1 DEF IInv, TypeOK, FrontIsKnown
  <2>3. buffer[inFlight] # Nothing
    BY <1>t, <2>2, NothingAssumption DEF Images, PixelValues
  <2>4. Promise!Land
    BY <2>1, <2>2, <2>3 DEF Promise!Land, OnScreen, Picture
  <2> QED BY <2>4 DEF Promise!Next
<1>12. CASE UNCHANGED vars
  BY <1>12 DEF vars, backendVars, displayVars, Promise!vars, OnScreen, Picture
<1> QED BY <1>1, <1>2, <1>3, <1>4, <1>5, <1>6, <1>7, <1>8, <1>9, <1>10, <1>11, <1>12 DEF Next

\* The backends implement Presentation: through lost, refused and late flips
\* the screen goes from one whole composed picture to another.
THEOREM Implements == Spec => KeepsPromise
<1>1. Init => Promise!Init
  BY PromiseInit
<1>2. IInv /\ [Next]_vars => [Promise!Next]_Promise!vars
  BY PromiseNext
<1> QED BY <1>1, <1>2, IInvHolds, PTL DEF Spec, KeepsPromise, Promise!Spec
=============================================================================
