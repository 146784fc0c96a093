--------------------------- MODULE GlBackendProofs ---------------------------
(* The GL backend draws every commit the loop knew of and tears only when   *)
(* it was told to go on, for any windows, surfaces, textures and bounds.    *)
EXTENDS GlBackend, TLAPS

-----------------------------------------------------------------------------
(* The invariant.                                                           *)

WindowInfo == [surface : Surfaces \cup {NoSurface}, visible : BOOLEAN]

\* Every generation is of a commit of its own, and there were no more of them
\* than steps of the programs; a commit not polled yet is one to come.
CommitsCounted ==
    \A s \in Surfaces : /\ memory[s] <= moves
                        /\ cache[s].generation <= memory[s]
                        /\ cache[s].commit <= memory[s]
                        /\ s \in committed => cache[s].generation < memory[s]

\* A free slot is empty, and a surface has one slot at most.
SlotsApart ==
    /\ \A i \in Slots : textures[i].id = NoSurface => textures[i] = Free
    /\ \A i, j \in Slots : textures[i].id = textures[j].id => i = j \/ textures[i].id = NoSurface

\* A texture never has a generation from the future, and one that has the
\* present generation has pixels no older than that: equal numbers mean equal
\* pictures, unless the surface's generations began anew.
TexturesTell ==
    \A i \in Slots : LET t == textures[i] IN
        t.id \in Surfaces \ restarted /\ cache[t.id].generation # 0 =>
            /\ t.uploaded <= cache[t.id].generation
            /\ t.shared /\ t.uploaded = cache[t.id].generation => t.picture >= cache[t.id].commit

\* A frame has no contents older than the loop's commits.
UpToDate(f) ==
    \A w \in Windows : windows[w].visible /\ f[w] # Nothing =>
        /\ windows[w].surface \in Surfaces
        /\ windows[w].surface \notin restarted => f[w] >= cache[windows[w].surface].commit

\* What is drawn, what waits for its flip, and what was flipped last.
FramesUpToDate ==
    /\ pc = "draw" => UpToDate(drawing)
    /\ pc = "flip" => UpToDate(frame[Back])
    /\ pc = "pass" /\ ~refused => UpToDate(frame[front])

\* The buffer the backend takes for the front one is on screen or about to be.
FrontIsShown ==
    /\ flip = None => screen = front
    /\ flip # None => flip = front
    /\ pc = "draw" /\ ~timedOut => flip = None

GlInv ==
    /\ TypeOK
    /\ CommitsCounted
    /\ SlotsApart
    /\ TexturesTell
    /\ FramesUpToDate
    /\ FrontIsShown

-----------------------------------------------------------------------------
LEMMA BackIsNotFront ==
    ASSUME TypeOK
    PROVE  Back \in Buffers /\ Back # front /\ Back # None
BY DEF TypeOK, Back, Buffers, None

LEMMA FreeIsTexture ==
    ASSUME GlAssumption
    PROVE  Free \in Texture /\ Free.id = NoSurface
BY DEF GlAssumption, Free, Texture, Pictures

LEMMA GlStarts ==
    ASSUME GlAssumption, Init
    PROVE  GlInv
<1>1. TypeOK
  <2>1. Invalid \in Entries /\ 0 \in Pictures /\ moves \in 0 .. MaxMoves
    BY DEF GlAssumption, Invalid, Entries, Pictures, Init
  <2>2. [surface |-> NoSurface, visible |-> TRUE] \in [surface : Surfaces \cup {NoSurface}, visible : BOOLEAN]
    OBVIOUS
  <2>3. Blank \in [Windows -> Pictures \cup {Nothing}]
    BY DEF Blank
  <2>4. /\ list \in [Windows -> [surface : Surfaces \cup {NoSurface}, visible : BOOLEAN]]
        /\ windows \in [Windows -> [surface : Surfaces \cup {NoSurface}, visible : BOOLEAN]]
    BY <2>2 DEF Init
  <2>5. /\ cache \in [Surfaces -> Entries] /\ textures \in [Slots -> Texture]
        /\ memory \in [Surfaces -> Pictures]
        /\ drawing \in [Windows -> Pictures \cup {Nothing}]
        /\ frame \in [Buffers -> [Windows -> Pictures \cup {Nothing}]]
    BY <2>1, <2>3, FreeIsTexture DEF Init
  <2> QED BY <2>1, <2>4, <2>5 DEF Init, TypeOK
<1>2. CommitsCounted
  BY DEF Init, CommitsCounted, Invalid
<1>3. SlotsApart
  BY FreeIsTexture DEF Init, SlotsApart
<1>4. TexturesTell
  BY FreeIsTexture DEF Init, TexturesTell, GlAssumption
<1>5. FramesUpToDate /\ FrontIsShown
  BY DEF Init, FramesUpToDate, FrontIsShown
<1> QED BY <1>1, <1>2, <1>3, <1>4, <1>5 DEF GlInv

-----------------------------------------------------------------------------
(* The programs and the display.                                            *)

\* A commit makes the pixels newer and nothing that was drawn older.
LEMMA CommitStep ==
    ASSUME GlAssumption, GlInv, NEW s \in Surfaces, CommitSurface(s)
    PROVE  GlInv'
<1>0. TypeOK /\ CommitsCounted
  BY DEF GlInv
<1>1. /\ moves < MaxMoves /\ moves' = moves + 1
      /\ memory' = [memory EXCEPT ![s] = memory[s] + 1]
      /\ committed' = committed \cup {s}
      /\ UNCHANGED <<list, screen, flip, cache, windows, pc, front, textures, todo, drawing, frame,
                     timedOut, refused, restarted>>
  BY DEF CommitSurface, Move, displayVars, loopVars, frameVars
<1>2. /\ moves \in Nat /\ MaxMoves \in Nat
      /\ \A r \in Surfaces : memory[r] \in Nat /\ cache[r].generation \in Nat /\ cache[r].commit \in Nat
  BY <1>0 DEF TypeOK, Pictures, Entries, GlAssumption
<1>3. PICK n \in Pictures : n = memory[s] + 1
  BY <1>0, <1>1, <1>2 DEF CommitsCounted, Pictures
<1>4. memory' = [memory EXCEPT ![s] = n] /\ memory' \in [Surfaces -> Pictures]
  BY <1>0, <1>1, <1>3 DEF TypeOK
<1>5. TypeOK'
  BY <1>0, <1>1, <1>2, <1>4 DEF TypeOK
<1>6. CommitsCounted'
  <2> SUFFICES ASSUME NEW r \in Surfaces
               PROVE  /\ memory'[r] <= moves'
                      /\ cache[r].generation <= memory'[r]
                      /\ cache[r].commit <= memory'[r]
                      /\ r \in committed' => cache[r].generation < memory'[r]
    BY <1>1 DEF CommitsCounted
  <2>1. CASE r = s
    <3>1. memory'[r] = memory[r] + 1
      BY <1>0, <1>1, <2>1 DEF TypeOK
    <3> QED BY <1>0, <1>1, <1>2, <3>1 DEF CommitsCounted
  <2>2. CASE r # s
    <3>1. memory'[r] = memory[r] /\ (r \in committed' => r \in committed)
      BY <1>0, <1>1, <2>2 DEF TypeOK
    <3> QED BY <1>0, <1>1, <1>2, <3>1 DEF CommitsCounted
  <2> QED BY <2>1, <2>2
<1>7. SlotsApart' /\ TexturesTell'
  BY <1>1 DEF GlInv, SlotsApart, TexturesTell
<1>8. FramesUpToDate' /\ FrontIsShown'
  BY <1>1 DEF GlInv, FramesUpToDate, UpToDate, FrontIsShown, Back
<1> QED BY <1>5, <1>6, <1>7, <1>8 DEF GlInv

LEMMA WindowStep ==
    ASSUME GlAssumption, GlInv, NEW w \in Windows, ChangeWindow(w)
    PROVE  GlInv'
<1>0. TypeOK /\ CommitsCounted
  BY DEF GlInv
<1>1. /\ moves < MaxMoves /\ moves' = moves + 1
      /\ UNCHANGED <<memory, committed, screen, flip, cache, windows, pc, front, textures, todo, drawing, frame,
                     timedOut, refused, restarted>>
  BY DEF ChangeWindow, Move, displayVars, loopVars, frameVars
<1>2. list' \in [Windows -> WindowInfo]
  <2>0. list \in [Windows -> WindowInfo]
    BY <1>0 DEF TypeOK, WindowInfo
  <2>1. PICK b \in BOOLEAN : b = ~list[w].visible
    OBVIOUS
  <2>2. \/ \E s \in Surfaces \cup {NoSurface} : list' = [list EXCEPT ![w].surface = s]
        \/ list' = [list EXCEPT ![w].visible = b]
    BY <2>1 DEF ChangeWindow
  <2> QED BY <2>0, <2>2 DEF WindowInfo
<1>3. moves' \in 0 .. MaxMoves
  BY <1>0, <1>1 DEF TypeOK, GlAssumption
<1>4. TypeOK'
  BY <1>0, <1>1, <1>2, <1>3 DEF TypeOK, WindowInfo
<1>5. CommitsCounted'
  <2>1. moves \in Nat /\ \A r \in Surfaces : memory[r] \in Nat
    BY <1>0 DEF TypeOK, Pictures
  <2> QED BY <1>0, <1>1, <2>1 DEF CommitsCounted
<1>6. SlotsApart' /\ TexturesTell' /\ FramesUpToDate' /\ FrontIsShown'
  BY <1>1 DEF GlInv, SlotsApart, TexturesTell, FramesUpToDate, UpToDate, FrontIsShown, Back
<1> QED BY <1>4, <1>5, <1>6 DEF GlInv

LEMMA BlankStep ==
    ASSUME GlInv, VerticalBlank
    PROVE  GlInv'
<1>1. /\ flip # None /\ screen' = flip /\ flip' = None
      /\ UNCHANGED <<memory, committed, list, moves, cache, windows, pc, front, textures, todo, drawing, frame,
                     timedOut, refused, restarted>>
  BY DEF VerticalBlank, programVars, loopVars, frameVars
<1>2. TypeOK'
  BY <1>1 DEF GlInv, TypeOK
<1>3. CommitsCounted' /\ SlotsApart' /\ TexturesTell'
  BY <1>1 DEF GlInv, CommitsCounted, SlotsApart, TexturesTell
<1>4. FramesUpToDate' /\ FrontIsShown'
  BY <1>1 DEF GlInv, FramesUpToDate, UpToDate, FrontIsShown, Back
<1> QED BY <1>2, <1>3, <1>4 DEF GlInv

-----------------------------------------------------------------------------
(* The loop's pass.                                                         *)

\* remember_surface() and forget_unshown_surfaces(), of one surface: forgotten,
\* counted on with its last commit, or left.
LEMMA PassEntry ==
    ASSUME GlAssumption, TypeOK, CommitsCounted, NEW s \in Surfaces, NEW changed \in BOOLEAN
    PROVE  /\ Forgotten(s, changed) \in Entries
           /\ \/ Forgotten(s, changed) = Invalid
              \/ /\ s \in committed
                 /\ Forgotten(s, changed).generation = cache[s].generation + 1
                 /\ Forgotten(s, changed).commit = memory[s]
              \/ /\ s \notin committed
                 /\ Forgotten(s, changed).generation = cache[s].generation
                 /\ Forgotten(s, changed).commit = cache[s].commit
           /\ s \notin committed /\ ~changed => Forgotten(s, changed) = cache[s]
<1> DEFINE e == Remembered(s)
           shown == \E w \in Windows : list[w].surface = s
           f == Forgotten(s, changed)
<1>1. cache[s] \in Entries /\ memory[s] \in Pictures /\ moves \in 0 .. MaxMoves
  BY DEF TypeOK
<1>2. /\ e \in Entries
      /\ s \in committed => e.generation = cache[s].generation + 1 /\ e.commit = memory[s]
      /\ s \notin committed => e = cache[s]
  <2>1. CASE s \in committed
    <3>1. PICK g \in Pictures : g = cache[s].generation + 1
      BY <1>1, <2>1 DEF CommitsCounted, Entries, Pictures
    <3>2. e = [generation |-> g, unshownLists |-> 0, commit |-> memory[s]]
      BY <2>1, <3>1 DEF Remembered
    <3>3. 0 \in 0 .. ForgetLists
      BY DEF GlAssumption
    <3> HIDE DEF e
    <3>4. e \in Entries /\ e.generation = g /\ e.commit = memory[s]
      BY <1>1, <3>2, <3>3 DEF Entries
    <3> QED BY <2>1, <3>1, <3>4
  <2>2. CASE s \notin committed
    BY <1>1, <2>2 DEF Remembered
  <2> QED BY <2>1, <2>2
<1>3. f = IF ~changed \/ e.generation = 0 THEN e
          ELSE IF shown THEN [e EXCEPT !.unshownLists = 0]
          ELSE IF e.unshownLists + 1 > ForgetLists THEN Invalid
          ELSE [e EXCEPT !.unshownLists = e.unshownLists + 1]
  BY DEF Forgotten, ForgetAfter
<1>4. ForgetLists \in Nat /\ Invalid \in Entries
  BY DEF GlAssumption, Invalid, Entries, Pictures
<1> HIDE DEF e, f, shown
<1>5. /\ f \in Entries
      /\ f = Invalid \/ (f.generation = e.generation /\ f.commit = e.commit)
      /\ ~changed => f = e
  <2>1. CASE ~changed \/ e.generation = 0
    BY <1>2, <1>3, <2>1
  <2>2. CASE changed /\ e.generation # 0 /\ shown
    <3>1. f = [e EXCEPT !.unshownLists = 0]
      BY <1>3, <2>2
    <3> QED BY <1>2, <1>4, <2>2, <3>1 DEF Entries
  <2>3. CASE changed /\ e.generation # 0 /\ ~shown /\ e.unshownLists + 1 > ForgetLists
    BY <1>3, <1>4, <2>3
  <2>4. CASE changed /\ e.generation # 0 /\ ~shown /\ ~(e.unshownLists + 1 > ForgetLists)
    <3>1. PICK n \in 0 .. ForgetLists : n = e.unshownLists + 1
      BY <1>2, <1>4, <2>4 DEF Entries
    <3>2. f = [e EXCEPT !.unshownLists = n]
      BY <1>3, <2>4, <3>1
    <3> QED BY <1>2, <2>4, <3>2 DEF Entries
  <2> QED BY <2>1, <2>2, <2>3, <2>4
<1>6. CASE s \in committed
  BY <1>2, <1>5, <1>6 DEF f
<1>7. CASE s \notin committed
  BY <1>2, <1>5, <1>7 DEF f
<1> QED BY <1>6, <1>7

\* A pass that finds no commit to a visible window and an unchanged list leaves
\* the entries of what is on screen; another one draws.
LEMMA PassStep ==
    ASSUME GlAssumption, GlInv, Pass
    PROVE  GlInv'
<1>0. TypeOK /\ CommitsCounted
  BY DEF GlInv
<1>1. PICK changed \in BOOLEAN, other \in BOOLEAN :
         /\ list # windows => changed
         /\ PassWith(changed, changed \/ ShownCommit \/ other)
  BY DEF Pass
<1>2. /\ pc = "pass"
      /\ cache' = [s \in Surfaces |-> Forgotten(s, changed)]
      /\ windows' = list /\ committed' = {}
      /\ restarted' = restarted \cup {s \in committed : cache[s].generation = 0 /\ Holds(s) # {}}
      /\ pc' = IF changed \/ ShownCommit \/ other THEN "wait" ELSE "pass"
      /\ UNCHANGED <<memory, list, moves, screen, flip, front, textures, todo, drawing, frame, timedOut, refused>>
  BY <1>1 DEF PassWith, displayVars, frameVars
<1>3. ASSUME NEW s \in Surfaces
      PROVE  /\ cache'[s] \in Entries
             /\ \/ cache'[s].generation = 0 /\ cache'[s].commit = 0
                \/ s \in committed /\ cache'[s].generation = cache[s].generation + 1 /\ cache'[s].commit = memory[s]
                \/ s \notin committed /\ cache'[s].generation = cache[s].generation /\ cache'[s].commit = cache[s].commit
             /\ s \notin committed /\ ~changed => cache'[s] = cache[s]
  <2>1. cache'[s] = Forgotten(s, changed)
    BY <1>2
  <2>2. Invalid.generation = 0 /\ Invalid.commit = 0
    BY DEF Invalid
  <2> QED BY <1>0, <2>1, <2>2, PassEntry
<1>4. \A s \in Surfaces : /\ cache[s].generation \in Nat /\ cache[s].commit \in Nat
                          /\ memory[s] \in Nat
  BY <1>0 DEF TypeOK, Entries, Pictures
<1>5. TypeOK'
  <2>1. cache' \in [Surfaces -> Entries]
    BY <1>2, <1>3
  <2>2. restarted' \in SUBSET Surfaces /\ pc' \in {"pass", "wait"}
    BY <1>0, <1>2 DEF TypeOK
  <2> QED BY <1>0, <1>2, <2>1, <2>2 DEF TypeOK
<1>6. CommitsCounted'
  BY <1>0, <1>2, <1>3, <1>4 DEF CommitsCounted
<1>7. SlotsApart'
  BY <1>2 DEF GlInv, SlotsApart
<1>8. TexturesTell'
  <2> SUFFICES ASSUME NEW i \in Slots, textures[i].id \in Surfaces \ restarted',
                      cache'[textures[i].id].generation # 0
               PROVE  /\ textures[i].uploaded <= cache'[textures[i].id].generation
                      /\ textures[i].shared /\ textures[i].uploaded = cache'[textures[i].id].generation
                            => textures[i].picture >= cache'[textures[i].id].commit
    BY <1>2 DEF TexturesTell
  <2> DEFINE s == textures[i].id
  <2>1. s \in Surfaces /\ s \notin restarted /\ i \in Holds(s)
    BY <1>2 DEF Holds
  <2>2. textures[i].uploaded \in Nat
    BY <1>0 DEF TypeOK, Texture, Pictures
  <2>3. CASE s \in committed
    <3>1. cache[s].generation # 0
      BY <1>2, <2>1, <2>3
    <3>2. textures[i].uploaded <= cache[s].generation
      BY <2>1, <3>1 DEF GlInv, TexturesTell
    <3>3. cache'[s].generation = cache[s].generation + 1
      BY <1>3, <2>1, <2>3
    <3> QED BY <1>4, <2>1, <2>2, <3>2, <3>3
  <2>4. CASE s \notin committed
    <3>1. cache'[s].generation = cache[s].generation /\ cache'[s].commit = cache[s].commit
      BY <1>3, <2>1, <2>4
    <3> QED BY <2>1, <3>1 DEF GlInv, TexturesTell
  <2> QED BY <2>3, <2>4
<1>9. FramesUpToDate'
  <2>1. CASE changed \/ ShownCommit \/ other
    BY <1>2, <2>1 DEF FramesUpToDate
  <2>2. CASE ~changed /\ ~ShownCommit /\ ~refused
    <3>1. windows' = windows /\ list = windows
      BY <1>1, <1>2, <2>2
    <3>2. UpToDate(frame[front])
      BY <1>2, <2>2 DEF GlInv, FramesUpToDate
    <3>3. ASSUME NEW w \in Windows, windows[w].visible, frame[front][w] # Nothing
          PROVE  /\ windows[w].surface \in Surfaces
                 /\ windows[w].surface \notin restarted' =>
                       frame[front][w] >= cache'[windows[w].surface].commit
      <4>1. windows[w].surface \notin committed
        BY <2>2, <3>1, <3>3 DEF ShownCommit
      <4>2. windows[w].surface \in Surfaces
        BY <3>2, <3>3 DEF UpToDate
      <4>3. cache'[windows[w].surface] = cache[windows[w].surface]
        BY <1>3, <2>2, <4>1, <4>2
      <4> QED BY <1>2, <3>2, <3>3, <4>2, <4>3 DEF UpToDate
    <3>4. UpToDate(frame[front])'
      BY <1>2, <3>1, <3>3 DEF UpToDate
    <3>5. pc' \in {"pass", "wait"}
      BY <1>2
    <3> QED BY <3>4, <3>5 DEF FramesUpToDate
  <2>3. CASE refused
    BY <1>2, <2>3 DEF FramesUpToDate
  <2> QED BY <2>1, <2>2, <2>3
<1>10. FrontIsShown'
  BY <1>2 DEF GlInv, FrontIsShown
<1> QED BY <1>5, <1>6, <1>7, <1>8, <1>9, <1>10 DEF GlInv

-----------------------------------------------------------------------------
(* commit().                                                                *)

LEMMA WaitedStep ==
    ASSUME GlInv, Waited
    PROVE  GlInv'
<1>1. /\ pc' = "draw" /\ timedOut' = (flip # None) /\ drawing' = Blank
      /\ todo' = {w \in Windows : Visible(w)}
      /\ UNCHANGED <<memory, committed, list, moves, screen, flip, cache, windows, front, textures, frame, refused,
                     restarted>>
  BY DEF Waited, programVars, displayVars, loopVars
<1>2. TypeOK'
  <2>1. Blank \in [Windows -> Pictures \cup {Nothing}] /\ todo' \in SUBSET Windows /\ timedOut' \in BOOLEAN
    BY <1>1 DEF Blank
  <2> QED BY <1>1, <2>1 DEF GlInv, TypeOK
<1>3. CommitsCounted' /\ SlotsApart' /\ TexturesTell'
  BY <1>1 DEF GlInv, CommitsCounted, SlotsApart, TexturesTell
<1>4. FramesUpToDate'
  BY <1>1 DEF FramesUpToDate, UpToDate, Blank
<1>5. FrontIsShown'
  BY <1>1 DEF GlInv, FrontIsShown
<1> QED BY <1>2, <1>3, <1>4, <1>5 DEF GlInv

LEMMA EmptyStep ==
    ASSUME GlInv, NEW w \in Windows, DrawEmpty(w)
    PROVE  GlInv'
<1>1. /\ todo' = todo \ {w}
      /\ UNCHANGED <<memory, committed, list, moves, screen, flip, cache, windows, pc, front, textures, drawing,
                     frame, timedOut, refused, restarted>>
  BY DEF DrawEmpty, programVars, displayVars, loopVars
<1>2. TypeOK'
  BY <1>1 DEF GlInv, TypeOK
<1>3. CommitsCounted' /\ SlotsApart' /\ TexturesTell'
  BY <1>1 DEF GlInv, CommitsCounted, SlotsApart, TexturesTell
<1>4. FramesUpToDate' /\ FrontIsShown'
  BY <1>1 DEF GlInv, FramesUpToDate, UpToDate, FrontIsShown, Back
<1> QED BY <1>2, <1>3, <1>4 DEF GlInv

\* A texture that is drawn has the entry's generation and pixels at least as
\* new; an imported one shows the surface itself.
LEMMA DrawnTexture ==
    ASSUME GlAssumption, TypeOK, CommitsCounted, TexturesTell, NEW s \in Surfaces, cache[s].generation # 0,
           NEW i \in Slots, NEW t, t \in (IF textures[i].id = s THEN {textures[i]} ELSE NewTextures(s)),
           NEW d, d = [Uploaded(t) EXCEPT !.seen = TRUE]
    PROVE  /\ d \in Texture /\ d.id = s
           /\ s \notin restarted =>
                 /\ d.uploaded <= cache[s].generation
                 /\ d.shared => d.picture >= cache[s].commit
<1>1. t \in Texture /\ t.id = s /\ (textures[i].id = s => t = textures[i])
                    /\ (textures[i].id # s => t.uploaded = 0)
  <2>1. CASE textures[i].id = s
    BY <2>1 DEF TypeOK
  <2>2. CASE textures[i].id # s
    <3>1. t = [Free EXCEPT !.id = s, !.shared = TRUE] \/ t = [Free EXCEPT !.id = s]
      BY <2>2 DEF NewTextures
    <3> QED BY <2>2, <3>1, FreeIsTexture DEF Texture, Free
  <2> QED BY <2>1, <2>2
<1>2. /\ cache[s].generation \in Pictures /\ cache[s].commit \in Pictures /\ memory[s] \in Pictures
      /\ t.uploaded \in Pictures /\ t.picture \in Pictures /\ MaxMoves \in Nat
  BY <1>1 DEF TypeOK, Entries, Texture, GlAssumption
<1>3. CASE t.shared /\ t.uploaded # cache[s].generation
  <2>1. d = [t EXCEPT !.uploaded = cache[s].generation, !.picture = memory[s], !.seen = TRUE]
    BY <1>1, <1>3 DEF Uploaded, Texture
  <2>2. d \in Texture /\ d.id = s /\ d.uploaded = cache[s].generation /\ d.picture = memory[s]
    BY <1>1, <1>2, <2>1 DEF Texture
  <2>3. memory[s] >= cache[s].commit /\ cache[s].generation <= cache[s].generation
    BY <1>2 DEF CommitsCounted, Pictures
  <2> QED BY <2>2, <2>3
<1>4. CASE ~(t.shared /\ t.uploaded # cache[s].generation)
  <2>1. d = [t EXCEPT !.seen = TRUE]
    BY <1>1, <1>4 DEF Uploaded
  <2>2. /\ d \in Texture /\ d.id = s /\ d.uploaded = t.uploaded /\ d.picture = t.picture /\ d.shared = t.shared
    BY <1>1, <2>1 DEF Texture
  <2>3. CASE textures[i].id = s
    BY <1>1, <1>4, <2>2, <2>3 DEF TexturesTell
  <2>4. CASE textures[i].id # s
    <3>1. t.uploaded = 0 /\ 0 <= cache[s].generation
      BY <1>1, <1>2, <2>4 DEF Pictures
    <3>2. ~t.shared
      BY <1>4, <3>1
    <3> QED BY <2>2, <3>1, <3>2
  <2> QED BY <2>3, <2>4
<1> QED BY <1>3, <1>4

LEMMA DrawStep ==
    ASSUME GlAssumption, GlInv, NEW w \in Windows, NEW i \in Slots, DrawWindow(w, i)
    PROVE  GlInv'
<1> DEFINE s == windows[w].surface
<1>0. TypeOK /\ CommitsCounted /\ TexturesTell /\ SlotsApart
  BY DEF GlInv
<1>1. /\ pc = "draw" /\ Valid(s) /\ i \in SlotFor(s) /\ todo' = todo \ {w}
      /\ UNCHANGED <<memory, committed, list, moves, screen, flip, cache, windows, pc, front, frame, timedOut,
                     refused, restarted>>
  BY DEF DrawWindow, programVars, displayVars, loopVars
<1>2. PICK t \in IF textures[i].id = s THEN {textures[i]} ELSE NewTextures(s) :
         LET drawn == [Uploaded(t) EXCEPT !.seen = TRUE]
         IN  /\ textures' = [textures EXCEPT ![i] = drawn]
             /\ drawing' = [drawing EXCEPT ![w] = IF drawn.shared THEN drawn.picture ELSE memory[s]]
  BY DEF DrawWindow
<1>3. PICK d : d = [Uploaded(t) EXCEPT !.seen = TRUE]
  OBVIOUS
<1>4. /\ textures' = [textures EXCEPT ![i] = d]
      /\ drawing' = [drawing EXCEPT ![w] = IF d.shared THEN d.picture ELSE memory[s]]
  BY <1>2, <1>3
<1>5. s \in Surfaces /\ cache[s].generation # 0
  BY <1>0, <1>1 DEF Valid, TypeOK
<1> HIDE DEF s
<1>6. /\ d \in Texture /\ d.id = s
      /\ s \notin restarted =>
            /\ d.uploaded <= cache[s].generation
            /\ d.shared => d.picture >= cache[s].commit
  BY <1>0, <1>2, <1>3, <1>5, DrawnTexture
<1>7. PICK p \in Pictures : /\ p = IF d.shared THEN d.picture ELSE memory[s]
                            /\ s \notin restarted => p >= cache[s].commit
  <2>1. d.picture \in Pictures /\ memory[s] \in Pictures
    BY <1>0, <1>5, <1>6 DEF Texture, TypeOK
  <2>2. memory[s] >= cache[s].commit
    BY <1>0, <1>5 DEF CommitsCounted, TypeOK, Entries, Pictures
  <2> QED BY <1>6, <2>1, <2>2
<1>8. drawing' = [drawing EXCEPT ![w] = p]
  BY <1>4, <1>7
<1>9. TypeOK'
  BY <1>0, <1>1, <1>4, <1>6, <1>8 DEF TypeOK
<1>10. CommitsCounted'
  BY <1>0, <1>1 DEF CommitsCounted
<1>11. textures'[i] = d /\ \A j \in Slots : j # i => textures'[j] = textures[j]
  BY <1>0, <1>4 DEF TypeOK
<1>12. SlotsApart'
  <2>1. \A j \in Slots : textures[j].id = s => j = i
    BY <1>0, <1>1 DEF SlotFor, Holds, SlotsApart, GlAssumption, Valid
  <2>2. s # NoSurface
    BY <1>5 DEF GlAssumption
  <2> QED BY <1>0, <1>6, <1>11, <2>1, <2>2 DEF SlotsApart
<1>13. TexturesTell'
  <2>1. cache' = cache /\ restarted' = restarted
    BY <1>1
  <2> QED BY <1>0, <1>6, <1>11, <2>1 DEF TexturesTell
<1>14. UpToDate(drawing)'
  <2>1. UpToDate(drawing)
    BY <1>1 DEF GlInv, FramesUpToDate
  <2>2. drawing'[w] = p /\ \A v \in Windows : v # w => drawing'[v] = drawing[v]
    BY <1>0, <1>8 DEF TypeOK
  <2> QED BY <1>1, <1>5, <1>7, <2>1, <2>2 DEF UpToDate, s
<1>15. FramesUpToDate' /\ FrontIsShown'
  BY <1>1, <1>14 DEF GlInv, FramesUpToDate, UpToDate, FrontIsShown
<1> QED BY <1>9, <1>10, <1>12, <1>13, <1>15 DEF GlInv

\* forgetUnseen(): a texture is kept with its picture, or its slot is free.
LEMMA AgedTexture ==
    ASSUME GlAssumption, NEW t \in Texture
    PROVE  /\ Aged(t) \in Texture
           /\ \/ Aged(t) = Free
              \/ /\ Aged(t).id = t.id /\ Aged(t).shared = t.shared
                 /\ Aged(t).uploaded = t.uploaded /\ Aged(t).picture = t.picture
           /\ t.id = NoSurface => Aged(t) = t
<1>1. CASE t.id = NoSurface
  BY <1>1 DEF Aged
<1>2. CASE t.id # NoSurface /\ t.seen
  <2>1. Aged(t) = [t EXCEPT !.seen = FALSE, !.age = 0] /\ 0 \in 0 .. KeepFrames + 1
    BY <1>2 DEF Aged, GlAssumption
  <2> QED BY <1>2, <2>1 DEF Texture
<1>3. CASE t.id # NoSurface /\ ~t.seen /\ ~Valid(t.id) /\ t.age + 1 > KeepFrames
  BY <1>3, FreeIsTexture DEF Aged
<1>4. CASE t.id # NoSurface /\ ~t.seen /\ ~(~Valid(t.id) /\ t.age + 1 > KeepFrames)
  <2>1. PICK n \in 0 .. KeepFrames + 1 : n = IF t.age > KeepFrames THEN t.age ELSE t.age + 1
    BY DEF Texture, GlAssumption
  <2>2. Aged(t) = [t EXCEPT !.age = n]
    BY <1>4, <2>1 DEF Aged
  <2> QED BY <1>4, <2>2 DEF Texture
<1> QED BY <1>1, <1>2, <1>3, <1>4

LEMMA FinishStep ==
    ASSUME GlAssumption, GlInv, FinishFrame
    PROVE  GlInv'
<1>0. TypeOK
  BY DEF GlInv
<1>1. /\ pc = "draw" /\ pc' = "flip" /\ drawing' = Blank
      /\ textures' = [i \in Slots |-> Aged(textures[i])]
      /\ frame' = [frame EXCEPT ![Back] = drawing]
      /\ UNCHANGED <<memory, committed, list, moves, screen, flip, cache, windows, front, todo, timedOut, refused,
                     restarted>>
  BY DEF FinishFrame, programVars, displayVars, loopVars
<1>2. ASSUME NEW i \in Slots
      PROVE  /\ textures'[i] \in Texture
             /\ \/ textures'[i] = Free
                \/ /\ textures'[i].id = textures[i].id /\ textures'[i].shared = textures[i].shared
                   /\ textures'[i].uploaded = textures[i].uploaded /\ textures'[i].picture = textures[i].picture
             /\ textures[i].id = NoSurface => textures'[i] = textures[i]
  <2>1. textures'[i] = Aged(textures[i]) /\ textures[i] \in Texture
    BY <1>0, <1>1 DEF TypeOK
  <2> QED BY <2>1, AgedTexture
<1>3. TypeOK'
  <2>1. textures' \in [Slots -> Texture]
    BY <1>1, <1>2
  <2>2. Blank \in [Windows -> Pictures \cup {Nothing}]
    BY DEF Blank
  <2>3. frame' \in [Buffers -> [Windows -> Pictures \cup {Nothing}]]
    BY <1>0, <1>1, BackIsNotFront DEF TypeOK
  <2> QED BY <1>0, <1>1, <2>1, <2>2, <2>3 DEF TypeOK
<1>4. CommitsCounted'
  BY <1>1 DEF GlInv, CommitsCounted
<1>5. SlotsApart'
  BY <1>2, FreeIsTexture DEF GlInv, SlotsApart
<1>6. TexturesTell'
  <2> SUFFICES ASSUME NEW i \in Slots, textures'[i].id \in Surfaces \ restarted,
                      cache[textures'[i].id].generation # 0
               PROVE  /\ textures'[i].uploaded <= cache[textures'[i].id].generation
                      /\ textures'[i].shared /\ textures'[i].uploaded = cache[textures'[i].id].generation
                            => textures'[i].picture >= cache[textures'[i].id].commit
    BY <1>1 DEF TexturesTell
  <2>1. textures'[i] # Free
    BY FreeIsTexture DEF GlAssumption
  <2> QED BY <1>2, <2>1 DEF GlInv, TexturesTell
<1>7. frame'[Back] = drawing /\ Back' = Back
  BY <1>0, <1>1, BackIsNotFront DEF TypeOK, Back
<1>8. UpToDate(frame[Back])'
  BY <1>1, <1>7 DEF GlInv, FramesUpToDate, UpToDate
<1>9. FramesUpToDate' /\ FrontIsShown'
  BY <1>1, <1>8 DEF GlInv, FramesUpToDate, FrontIsShown
<1> QED BY <1>3, <1>4, <1>5, <1>6, <1>9 DEF GlInv

LEMMA FlipStep ==
    ASSUME GlInv, Flip
    PROVE  GlInv'
<1>0. TypeOK
  BY DEF GlInv
<1>1. /\ pc = "flip" /\ pc' = "pass" /\ timedOut' = FALSE
      /\ UNCHANGED <<memory, committed, list, moves, screen, cache, windows, textures, todo, drawing, frame,
                     restarted>>
  BY DEF Flip, programVars, loopVars, frameVars
<1>2. \/ flip' = Back /\ front' = Back /\ refused' = FALSE
      \/ flip' = flip /\ front' = front /\ refused' = TRUE
  BY DEF Flip
<1>3. TypeOK'
  BY <1>0, <1>1, <1>2, BackIsNotFront DEF TypeOK
<1>4. CommitsCounted' /\ SlotsApart' /\ TexturesTell'
  BY <1>1 DEF GlInv, CommitsCounted, SlotsApart, TexturesTell
<1>5. FramesUpToDate'
  BY <1>1, <1>2 DEF GlInv, FramesUpToDate, UpToDate
<1>6. FrontIsShown'
  BY <1>0, <1>1, <1>2, BackIsNotFront DEF GlInv, FrontIsShown
<1> QED BY <1>3, <1>4, <1>5, <1>6 DEF GlInv

LEMMA GlStepSafe ==
    ASSUME GlAssumption, GlInv, [Next]_vars
    PROVE  GlInv'
<1>1. ASSUME NEW s \in Surfaces, CommitSurface(s) PROVE GlInv'
  BY <1>1, CommitStep
<1>2. ASSUME NEW w \in Windows, ChangeWindow(w) \/ DrawEmpty(w) PROVE GlInv'
  BY <1>2, WindowStep, EmptyStep
<1>3. ASSUME NEW w \in Windows, NEW i \in Slots, DrawWindow(w, i) PROVE GlInv'
  BY <1>3, DrawStep
<1>4. CASE VerticalBlank \/ Pass \/ Waited \/ FinishFrame \/ Flip
  BY <1>4, BlankStep, PassStep, WaitedStep, FinishStep, FlipStep
<1>5. CASE UNCHANGED vars
  <2> USE <1>5 DEF vars, programVars, displayVars, loopVars, frameVars
  <2>1. TypeOK'
    BY DEF GlInv, TypeOK
  <2>2. CommitsCounted' /\ SlotsApart' /\ TexturesTell'
    BY DEF GlInv, CommitsCounted, SlotsApart, TexturesTell
  <2>3. FramesUpToDate' /\ FrontIsShown'
    BY DEF GlInv, FramesUpToDate, UpToDate, FrontIsShown, Back
  <2> QED BY <2>1, <2>2, <2>3 DEF GlInv
<1> QED BY <1>1, <1>2, <1>3, <1>4, <1>5 DEF Next

LEMMA GlAlways == Spec => []GlInv
<1>1. Init => GlInv
  BY GlAssumption, GlStarts
<1>2. GlInv /\ [Next]_vars => GlInv'
  BY GlAssumption, GlStepSafe
<1> QED BY <1>1, <1>2, PTL DEF Spec

-----------------------------------------------------------------------------
\* surface.cpp:75: each finished frame has every commit the loop knew of, except
\* where a surface's generations began anew, and a surface has one texture.
THEOREM FramesStayFresh == Spec => []FramesAreFresh
<1>1. GlInv => FramesAreFresh
  BY DEF GlInv, FramesAreFresh, FramesUpToDate, UpToDate, Fresh, SlotsApart
<1> QED BY <1>1, GlAlways, PTL

\* gl_backend.cpp, commit(): the GPU draws into a buffer that is on screen only
\* after a wait that timed out, also when flips were refused.
THEOREM TearsNeedTimeout == Spec => []TearsOnlyAfterTimeout
<1>1. GlInv => TearsOnlyAfterTimeout
  BY BackIsNotFront DEF GlInv, TearsOnlyAfterTimeout, FrontIsShown
<1> QED BY <1>1, GlAlways, PTL

\* Once a pass is committed and its flip has landed, the screen has every commit
\* the loop knows of, or the flip was refused.
THEOREM ScreensSettleFresh == Spec => []SettledScreenIsFresh
<1>1. GlInv => SettledScreenIsFresh
  BY DEF GlInv, SettledScreenIsFresh, FramesUpToDate, FrontIsShown, UpToDate, Fresh
<1> QED BY <1>1, GlAlways, PTL
=============================================================================
