------------------------------ MODULE GlBackend ------------------------------
(***************************************************************************)
(* The GL backend (graphics-compositor/src/gl_backend.cpp): every frame is *)
(* drawn anew by the GPU into the buffer that is not on screen and then    *)
(* flipped. A window's contents are a texture: a GPU buffer imported where *)
(* it is, or shared memory uploaded when its generation changed. Textures  *)
(* outlive the compositor's surface cache, which counts the generations.   *)
(*                                                                         *)
(* A surface's pixels are the number of the commit they belong to; of a    *)
(* frame only the windows' contents are kept (title bars, taskbar and      *)
(* wallpaper are textures too, keyed by what they show). The loop's pass   *)
(* is one step here; CompositorLoop has its system calls, and the slots of *)
(* the surface cache.                                                      *)
(***************************************************************************)
EXTENDS Integers

CONSTANTS
    Windows,
    Surfaces,
    Shared,         \* the surfaces in shared memory; the others are GPU buffers
    NoSurface,
    Nothing,        \* a window drawn without contents
    MaxTextures,    \* kMaxTextures
    KeepFrames,     \* kTextureKeepFrames
    ForgetLists,    \* kSurfaceForgetLists
    MaxMoves        \* bound: steps of the programs

ASSUME GlAssumption ==
    /\ Shared \subseteq Surfaces
    /\ NoSurface \notin Surfaces
    /\ Nothing \notin Nat
    /\ {MaxTextures, KeepFrames, ForgetLists, MaxMoves} \subseteq Nat

VARIABLES
    \* the programs and the kernel
    memory,     \* the commit whose pixels a surface holds
    committed,  \* commits surface_poll() has not handed out yet
    list,       \* what each window shows
    moves,
    \* the display
    screen,     \* the buffer on screen; 2 is what was there before
    flip,       \* the flip it was given, or 2
    \* the loop
    cache,      \* gSurfaceCache
    windows,    \* the snapshot
    \* the backend
    pc,         \* "wait" is pending_
    front,      \* 2 before the first flip
    textures,   \* surfaces_
    todo,       \* windows this frame has not drawn yet
    drawing,    \* the frame being drawn
    frame,      \* what each scanout buffer holds
    \* history
    timedOut,   \* the last wait ended with the flip still queued
    refused,    \* the last flip was refused
    restarted   \* surfaces whose generations began anew with a texture there

programVars == <<memory, committed, list, moves>>
displayVars == <<screen, flip>>
loopVars    == <<cache, windows>>
frameVars   == <<todo, drawing, frame>>
vars == <<programVars, displayVars, loopVars, pc, front, textures,
          frameVars, timedOut, refused, restarted>>

Buffers  == {0, 1}
None     == 2
Pictures == 0 .. MaxMoves
Slots    == 1 .. MaxTextures

\* A cache entry; generation 0 is an invalid one.
Entries  == [generation : Pictures, unshownLists : 0 .. ForgetLists, commit : Pictures]
Invalid  == [generation |-> 0, unshownLists |-> 0, commit |-> 0]
Valid(s) == s # NoSurface /\ cache[s].generation # 0

\* A surface's texture: whether it is uploaded, the generation in it, those
\* pixels, whether this frame drew it, and the frames since one did.
Texture == [id : Surfaces \cup {NoSurface}, shared : BOOLEAN, uploaded : Pictures,
            picture : Pictures, seen : BOOLEAN, age : 0 .. KeepFrames + 1]
Free    == [id |-> NoSurface, shared |-> FALSE, uploaded |-> 0, picture |-> 0, seen |-> FALSE, age |-> 0]

Holds(s) == {i \in Slots : textures[i].id = s}
Visible(w) == windows[w].visible
Blank == [w \in Windows |-> Nothing]

-----------------------------------------------------------------------------
\* start() succeeded; nothing is drawn yet.
Init ==
    /\ memory = [s \in Surfaces |-> 0]
    /\ committed = {}
    /\ list = [w \in Windows |-> [surface |-> NoSurface, visible |-> TRUE]]
    /\ moves = 0
    /\ screen = None
    /\ flip = None
    /\ cache = [s \in Surfaces |-> Invalid]
    /\ windows = list
    /\ pc = "wait"          \* renderInitialScene
    /\ front = None
    /\ textures = [i \in Slots |-> Free]
    /\ todo = {}
    /\ drawing = Blank
    /\ frame = [b \in Buffers |-> Blank]
    /\ timedOut = FALSE
    /\ refused = FALSE
    /\ restarted = {}

-----------------------------------------------------------------------------
(* The programs and the display (external).                                *)

Move ==
    /\ moves < MaxMoves
    /\ moves' = moves + 1
    /\ UNCHANGED <<displayVars, loopVars, pc, front, textures,
                   frameVars, timedOut, refused, restarted>>

\* A program draws into its surface and commits it.
CommitSurface(s) ==
    /\ Move
    /\ memory' = [memory EXCEPT ![s] = @ + 1]
    /\ committed' = committed \cup {s}
    /\ UNCHANGED list

\* It shows another surface it drew, or none, or its window is minimized or
\* restored.
ChangeWindow(w) ==
    /\ Move
    /\ \/ \E s \in Surfaces : /\ memory[s] # 0
                              /\ \A v \in Windows : list[v].surface # s
                              /\ list' = [list EXCEPT ![w].surface = s]
       \/ list' = [list EXCEPT ![w].surface = NoSurface]
       \/ list' = [list EXCEPT ![w].visible = ~@]
    /\ UNCHANGED <<memory, committed>>

\* The display takes the flip it was given.
VerticalBlank ==
    /\ flip # None
    /\ screen' = flip
    /\ flip' = None
    /\ UNCHANGED <<programVars, loopVars, pc, front, textures,
                   frameVars, timedOut, refused, restarted>>

-----------------------------------------------------------------------------
(* The loop: runOnce(), then commit() as far as its early return.          *)

\* remember_surface(): a new entry counts from the start.
Remembered(s) ==
    IF s \in committed
    THEN [generation |-> cache[s].generation + 1, unshownLists |-> 0, commit |-> memory[s]]
    ELSE cache[s]

ForgetAfter(s, changed, limit) ==
    LET e == Remembered(s)
        shown == \E w \in Windows : list[w].surface = s
    IN  IF ~changed \/ e.generation = 0 THEN e
        ELSE IF shown THEN [e EXCEPT !.unshownLists = 0]
        ELSE IF e.unshownLists + 1 > limit THEN Invalid
        ELSE [e EXCEPT !.unshownLists = @ + 1]

\* forget_unshown_surfaces(), on a list that changed.
Forgotten(s, changed) == ForgetAfter(s, changed, ForgetLists)

\* A commit to a window that shows: consume_surface_dirty_rect() is not empty.
ShownCommit == \E w \in Windows : list[w].visible /\ list[w].surface \in committed

\* A pass that found the list changed (in what windows show, or in places and
\* titles: moved), and presents something or not.
PassWith(changed, presents) ==
    /\ pc = "pass"
    /\ cache' = [s \in Surfaces |-> Forgotten(s, changed)]
    /\ windows' = list
    /\ committed' = {}
    /\ restarted' = restarted \cup {s \in committed : cache[s].generation = 0 /\ Holds(s) # {}}
    /\ pc' = IF presents THEN "wait" ELSE "pass"
    /\ UNCHANGED <<memory, list, moves, displayVars, front, textures, frameVars, timedOut, refused>>

\* Mutant: a commit alone is not presented.
PassMissesCommits ==
    \E moved, other \in BOOLEAN :
        LET changed == moved \/ list # windows
        IN  PassWith(changed, changed \/ other)

\* redrawFullScene() on a changed list, redrawDirtyRect() on a commit or for
\* another reason (the pointer, a tooltip); note() makes the frame pending.
Pass ==
    \E moved, other \in BOOLEAN :
        LET changed == moved \/ list # windows
        IN  PassWith(changed, changed \/ ShownCommit \/ other)

-----------------------------------------------------------------------------
(* commit().                                                               *)

Back == IF front = 0 THEN 1 ELSE 0

\* Display Wait returned: the flip landed, or kWaitMs are over. Its result is
\* not looked at.
Waited ==
    /\ pc = "wait"
    /\ timedOut' = (flip # None)
    /\ todo' = {w \in Windows : Visible(w)}
    /\ drawing' = Blank
    /\ pc' = "draw"
    /\ UNCHANGED <<programVars, displayVars, loopVars, front, textures, frame,
                   refused, restarted>>

\* surfaceTexture(): its slot, or the first free one, or none.
SlotFor(s) ==
    LET slots == IF Holds(s) # {} THEN Holds(s) ELSE Holds(NoSurface)
    IN  {i \in slots : \A j \in slots : i <= j}

\* A new texture: imported, unless EGL cannot (dmaBufImport_), that fails, or
\* there is no buffer to import.
NewTextures(s) ==
    {[Free EXCEPT !.id = s, !.shared = TRUE]} \cup
    (IF s \notin Shared THEN {[Free EXCEPT !.id = s]} ELSE {})

\* Mutant: shared memory is uploaded once.
UploadedOnce(t) ==
    IF t.shared /\ t.uploaded = 0
    THEN [t EXCEPT !.uploaded = cache[t.id].generation, !.picture = memory[t.id]]
    ELSE t

\* The texture as it is drawn, shared memory uploaded when it was committed.
Uploaded(t) ==
    IF t.shared /\ t.uploaded # cache[t.id].generation
    THEN [t EXCEPT !.uploaded = cache[t.id].generation, !.picture = memory[t.id]]
    ELSE t

\* drawWindow(): in any order, as the windows may be stacked in any.
DrawWindow(w, i) ==
    LET s == windows[w].surface
    IN  /\ pc = "draw"
        /\ w \in todo
        /\ Valid(s)
        /\ i \in SlotFor(s)
        /\ \E t \in IF textures[i].id = s THEN {textures[i]} ELSE NewTextures(s) :
              LET drawn == [Uploaded(t) EXCEPT !.seen = TRUE]
              IN  /\ textures' = [textures EXCEPT ![i] = drawn]
                  /\ drawing' = [drawing EXCEPT ![w] = IF drawn.shared THEN drawn.picture ELSE memory[s]]
        /\ todo' = todo \ {w}
        /\ UNCHANGED <<programVars, displayVars, loopVars, pc, front, frame,
                       timedOut, refused, restarted>>

\* Without an entry, or without a slot, it stays empty.
DrawEmpty(w) ==
    /\ pc = "draw"
    /\ w \in todo
    /\ ~Valid(windows[w].surface) \/ SlotFor(windows[w].surface) = {}
    /\ todo' = todo \ {w}
    /\ UNCHANGED <<programVars, displayVars, loopVars, pc, front, textures,
                   drawing, frame, timedOut, refused, restarted>>

\* forgetUnseen(), for one texture.
Aged(t) ==
    IF t.id = NoSurface THEN t
    ELSE IF t.seen THEN [t EXCEPT !.seen = FALSE, !.age = 0]
    ELSE IF ~Valid(t.id) /\ t.age + 1 > KeepFrames THEN Free
    ELSE [t EXCEPT !.age = IF t.age > KeepFrames THEN @ ELSE @ + 1]

\* forgetUnseen(), glFinish(), and the frame is in the back buffer (read back
\* into it where the GPU did not draw there).
FinishFrame ==
    /\ pc = "draw"
    /\ todo = {}
    /\ textures' = [i \in Slots |-> Aged(textures[i])]
    /\ frame' = [frame EXCEPT ![Back] = drawing]
    /\ drawing' = Blank
    /\ pc' = "flip"
    /\ UNCHANGED <<programVars, displayVars, loopVars, front, todo, timedOut,
                   refused, restarted>>

\* Mutant: the front buffer is taken for flipped when it was refused.
FlipUnchecked ==
    /\ pc = "flip"
    /\ \E taken \in BOOLEAN : /\ flip' = IF taken THEN Back ELSE flip
                              /\ refused' = ~taken
    /\ front' = Back
    /\ timedOut' = FALSE
    /\ pc' = "pass"
    /\ UNCHANGED <<programVars, screen, loopVars, textures, frameVars, restarted>>

\* Display Flip, taken or refused.
Flip ==
    /\ pc = "flip"
    /\ \E taken \in BOOLEAN : /\ flip' = IF taken THEN Back ELSE flip
                              /\ front' = IF taken THEN Back ELSE front
                              /\ refused' = ~taken
    /\ timedOut' = FALSE
    /\ pc' = "pass"
    /\ UNCHANGED <<programVars, screen, loopVars, textures, frameVars, restarted>>

-----------------------------------------------------------------------------
Next ==
    \/ \E s \in Surfaces : CommitSurface(s)
    \/ \E w \in Windows : ChangeWindow(w) \/ DrawEmpty(w)
    \/ \E w \in Windows, i \in Slots : DrawWindow(w, i)
    \/ VerticalBlank
    \/ Pass
    \/ Waited
    \/ FinishFrame
    \/ Flip

Spec == Init /\ [][Next]_vars

-----------------------------------------------------------------------------
\* Every variable has the values the code's declarations allow; a texture's
\* slot is empty exactly when it has no surface.
TypeOK ==
    /\ memory \in [Surfaces -> Pictures]
    /\ committed \in SUBSET Surfaces
    /\ list \in [Windows -> [surface : Surfaces \cup {NoSurface}, visible : BOOLEAN]]
    /\ windows \in [Windows -> [surface : Surfaces \cup {NoSurface}, visible : BOOLEAN]]
    /\ moves \in 0 .. MaxMoves
    /\ screen \in Buffers \cup {None}
    /\ flip \in Buffers \cup {None}
    /\ cache \in [Surfaces -> Entries]
    /\ pc \in {"pass", "wait", "draw", "flip"}
    /\ front \in Buffers \cup {None}
    /\ textures \in [Slots -> Texture]
    /\ todo \in SUBSET Windows
    /\ drawing \in [Windows -> Pictures \cup {Nothing}]
    /\ frame \in [Buffers -> [Windows -> Pictures \cup {Nothing}]]
    /\ timedOut \in BOOLEAN
    /\ refused \in BOOLEAN
    /\ restarted \in SUBSET Surfaces

\* Window w of a frame shows its surface as it was when its last commit was
\* taken from the queue, or newer.
Fresh(f, w) ==
    windows[w].visible /\ f[w] # Nothing => f[w] >= cache[windows[w].surface].commit

\* surface.cpp:75: "the GL renderer uploads a shared-memory surface again": each
\* finished frame has every commit the loop knew of, whenever the surface left
\* and came back, except where its generations began anew (restarted); and each
\* surface has one texture, though textures are found by a search that also looks
\* for a free slot.
FramesAreFresh ==
    /\ TypeOK
    /\ pc = "flip" => \A w \in Windows : windows[w].surface \notin restarted => Fresh(frame[Back], w)
    /\ \A i, j \in Slots : textures[i].id = textures[j].id => i = j \/ textures[i] = Free

\* The same without the exception.
CommitsAreUploaded == pc = "flip" => \A w \in Windows : Fresh(frame[Back], w)

\* The GPU draws into a buffer that is on screen only after a wait that timed
\* out, also when flips were refused.
TearsOnlyAfterTimeout == pc = "draw" /\ ~timedOut => Back # screen /\ flip = None

\* Once a pass is committed and its flip has landed, the screen has every commit
\* the loop knows of; only a refused flip leaves an old frame there.
SettledScreenIsFresh ==
    pc = "pass" /\ flip = None /\ ~refused
        => \A w \in Windows : windows[w].surface \notin restarted => Fresh(frame[screen], w)
=============================================================================
