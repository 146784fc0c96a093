--------------------------- MODULE CompositorProofs ---------------------------
(* The compositor's loop finds the pixels of every surface it is about to   *)
(* draw, a drag ends with the left button, and the screen shows the picture *)
(* that was accepted last: for any windows, surfaces, queue and pictures.   *)
EXTENDS Compositor, FiniteSetTheorems, NaturalsInduction, WellFoundedInduction, TLAPS

-----------------------------------------------------------------------------
(* The pointer                                                              *)

\* A press of the left button leaves windows and focus, and starts a drag of
\* the window it is on or none.
LEMMA PressKeepsTypes ==
    ASSUME PointerTypeOK, NEW at \in Places, LeftPress(at)
    PROVE  /\ state' \in [Panes -> {"open", "minimized", "closed"}]
           /\ focused' \in Panes \cup {NoWindow}
           /\ drag' \in {NoDrag, drag} \cup [window : Panes, how : {"move", "resize"}]
<1> USE DEF PointerTypeOK, Focus, FocusAndControl
<1>0. /\ at.part \in {"tile"} \cup Parts => at.window \in Panes
      /\ at.part \notin Parts => at.part \in {"tile", "bar", "desktop"}
  BY DEF Places, Parts, Controls
<1>1. CASE at.part = "tile" /\ taskbar_click(at.window) /\ drag' = NoDrag
  BY <1>0, <1>1 DEF taskbar_click, Control
<1>2. CASE at.part = "bar" /\ drag' = NoDrag /\ UNCHANGED <<state, focused>>
  BY <1>2
<1>3. CASE at.part = "close" /\ (FocusAndControl(at.window, "closed") \/ Focus(at.window)) /\ drag' = NoDrag
  BY <1>0, <1>3 DEF Parts, Controls
<1>4. CASE at.part = "minimize" /\ FocusAndControl(at.window, "minimized") /\ drag' = NoDrag
  BY <1>0, <1>4 DEF Parts, Controls
<1>5. CASE at.part = "maximize" /\ Focus(at.window) /\ drag' = NoDrag
  BY <1>0, <1>5 DEF Parts, Controls
<1>6. CASE /\ at.part \in {"grip", "title"}
           /\ Focus(at.window)
           /\ drag' = [window |-> at.window, how |-> IF at.part = "grip" THEN "resize" ELSE "move"]
  BY <1>0, <1>6 DEF Parts
<1>7. CASE at.part \in {"content", "frame"} /\ Focus(at.window) /\ UNCHANGED drag
  BY <1>0, <1>7 DEF Parts
<1>8. CASE at.part = "desktop" /\ UNCHANGED <<state, focused, drag>>
  BY <1>8
<1> QED BY <1>1, <1>2, <1>3, <1>4, <1>5, <1>6, <1>7, <1>8 DEF LeftPress

\* Where the pointer is and which program holds it stay well typed.
LEMMA RouteKeepsTypes ==
    ASSUME PointerTypeOK, NEW at \in Places, NEW now,
           route_pointer_to_window(at, now), update_control_hover(at)
    PROVE  /\ grabWindowId' \in Panes \cup {NoWindow}
           /\ gTaskbarHover' \in Panes \cup {NoWindow}
           /\ \/ gWindowHover' = NoHover
              \/ gWindowHover' \in [window : Panes, part : Controls]
<1>0. at.part \in {"tile"} \cup Parts => at.window \in Panes
  BY DEF Places, Parts, Controls
<1>1. Target(at) \in Panes \cup {NoWindow}
  BY <1>0 DEF Target, Listed, InContent, Parts
<1>2. grabWindowId' \in Panes \cup {NoWindow}
  BY <1>1 DEF route_pointer_to_window, PointerTypeOK
<1>3. gTaskbarHover' \in Panes \cup {NoWindow}
  BY <1>0 DEF update_control_hover
<1>4. \/ gWindowHover' = NoHover
      \/ gWindowHover' \in [window : Panes, part : Controls]
  BY <1>0 DEF update_control_hover, Parts
<1> QED BY <1>2, <1>3, <1>4

\* A drag needs the left button down, so no press happens during one: the
\* invariant is inductive, and a drag ends before another begins.
LEMMA PointerStepSafe ==
    ASSUME PointerInputAssumption, DragWhileLeftDown, [PointerNext]_pointerVars
    PROVE  DragWhileLeftDown' /\ (drag # NoDrag /\ drag' # NoDrag => drag' = drag)
<1>1. ASSUME NEW at \in Places, NEW now \in SUBSET Buttons, PointerEvent(at, now)
      PROVE  DragWhileLeftDown' /\ (drag # NoDrag /\ drag' # NoDrag => drag' = drag)
  <2>1. /\ update_control_hover(at) /\ route_pointer_to_window(at, now)
        /\ UNCHANGED <<windows, active, changes>> /\ buttons' = now
    BY <1>1 DEF PointerEvent, handle_pointer_event
  <2>2. /\ grabWindowId' \in Panes \cup {NoWindow}
        /\ gTaskbarHover' \in Panes \cup {NoWindow}
        /\ \/ gWindowHover' = NoHover
           \/ gWindowHover' \in [window : Panes, part : Controls]
    BY <2>1, RouteKeepsTypes DEF DragWhileLeftDown
  <2>3. CASE Left \in now \ buttons
    <3>1. LeftPress(at)
      BY <1>1, <2>3 DEF PointerEvent, handle_pointer_event
    <3>2. drag = NoDrag
      BY <2>3 DEF DragWhileLeftDown
    <3>3. /\ state' \in [Panes -> {"open", "minimized", "closed"}]
          /\ focused' \in Panes \cup {NoWindow}
          /\ drag' \in {NoDrag, drag} \cup [window : Panes, how : {"move", "resize"}]
      BY <3>1, PressKeepsTypes DEF DragWhileLeftDown
    <3> QED BY <2>1, <2>2, <2>3, <3>2, <3>3 DEF DragWhileLeftDown, PointerTypeOK
  <2>4. CASE Left \notin now \ buttons
    <3>1. drag' = (IF Left \in buttons \ now THEN NoDrag ELSE drag) /\ UNCHANGED <<state, focused>>
      BY <1>1, <2>4 DEF PointerEvent, handle_pointer_event
    <3> QED BY <2>1, <2>2, <2>4, <3>1 DEF DragWhileLeftDown, PointerTypeOK
  <2> QED BY <2>3, <2>4
<1>2. CASE SnapshotWindows
  BY <1>2 DEF SnapshotWindows, DragWhileLeftDown, PointerTypeOK
<1>3. ASSUME NEW w \in Panes, ProgramChanges(w)
      PROVE  DragWhileLeftDown' /\ (drag # NoDrag /\ drag' # NoDrag => drag' = drag)
  <2>1. UNCHANGED <<windows, active, buttons, grabWindowId, drag, gWindowHover, gTaskbarHover>>
    BY <1>3 DEF ProgramChanges
  <2>2. changes' \in 0 .. MaxChanges
    BY <1>3 DEF ProgramChanges, DragWhileLeftDown, PointerTypeOK, PointerInputAssumption
  <2>3. state' \in [Panes -> {"open", "minimized", "closed"}] /\ focused' \in Panes \cup {NoWindow}
    BY <1>3 DEF ProgramChanges, DragWhileLeftDown, PointerTypeOK
  <2> QED BY <2>1, <2>2, <2>3 DEF DragWhileLeftDown, PointerTypeOK
<1>4. CASE UNCHANGED pointerVars
  BY <1>4 DEF pointerVars, DragWhileLeftDown, PointerTypeOK
<1> QED BY <1>1, <1>2, <1>3, <1>4 DEF PointerNext

LEMMA PointerStarts ==
    ASSUME PointerInputAssumption, PointerInit
    PROVE  DragWhileLeftDown
BY DEF PointerInputAssumption, PointerInit, DragWhileLeftDown, PointerTypeOK

\* input.cpp: whatever is pressed, closed or lost on the way, a drag lasts only
\* while the left button is down.
THEOREM DragsEndWithLeft == PointerSpec => []DragWhileLeftDown
<1>1. PointerInit => DragWhileLeftDown
  BY PointerInputAssumption, PointerStarts
<1>2. DragWhileLeftDown /\ [PointerNext]_pointerVars => DragWhileLeftDown'
  BY PointerInputAssumption, PointerStepSafe
<1> QED BY <1>1, <1>2, PTL DEF PointerSpec

\* input.cpp: a drag stays with the window it began on until it ends; no press,
\* close or stale snapshot hands it to another.
THEOREM DragsStay == PointerSpec => DragKeepsWindow
<1>1. DragWhileLeftDown /\ [PointerNext]_pointerVars
         => [drag # NoDrag /\ drag' # NoDrag => drag' = drag]_pointerVars
  BY PointerInputAssumption, PointerStepSafe
<1> QED BY <1>1, DragsEndWithLeft, PTL DEF PointerSpec, DragKeepsWindow

-----------------------------------------------------------------------------
(* The surface cache                                                        *)

\* A set of numbers that is not empty has a least one.
LEMMA LeastExists ==
    ASSUME NEW S, S \subseteq Nat, S # {}
    PROVE  \E i \in S : \A j \in S : i <= j
<1> DEFINE R == {ss \in Nat \X Nat : ss[1] < ss[2]}
<1>1. IsWellFoundedOn(R, Nat)
  BY NatLessThanWellFounded DEF OpToRel
<1> HIDE DEF R
<1>2. \E i \in S : \A j \in S : ~ (<<j, i>> \in R)
  BY <1>1, WFMin, Zenon
<1>3. PICK i \in S : \A j \in S : ~ (<<j, i>> \in R)
  BY <1>2
<1>4. ASSUME NEW j \in S PROVE i <= j
  <2>1. i \in Nat /\ j \in Nat
    OBVIOUS
  <2>2. j < i => <<j, i>> \in R
    BY <2>1 DEF R
  <2> QED BY <1>3, <2>1, <2>2
<1> QED BY <1>4

\* The slot a surface gets is its own, a free one, or the first of a full cache.
LEMMA SlotIsOwnFreeOrFirst ==
    ASSUME LoopAssumption, NEW s \in Surfaces
    PROVE  /\ SlotFor(s) \in 1 .. Slots
           /\ \/ cache[SlotFor(s)].id \in {s, NoSurface}
              \/ /\ SlotFor(s) = 1 /\ ~Cached(s)
                 /\ \A i \in 1 .. Slots : cache[i].id # NoSurface
<1> DEFINE own  == {i \in 1 .. Slots : cache[i].id = s}
           free == {i \in 1 .. Slots : cache[i].id = NoSurface}
           first(S) == CHOOSE i \in S : \A j \in S : i <= j
<1>0. SlotFor(s) = IF own # {} THEN first(own) ELSE IF free # {} THEN first(free) ELSE 1
  BY DEF SlotFor
<1>1. ASSUME NEW S, S \subseteq 1 .. Slots, S # {}
      PROVE  first(S) \in S
  <2>1. S \subseteq Nat
    BY <1>1
  <2>2. \E i \in S : \A j \in S : i <= j
    BY <1>1, <2>1, LeastExists
  <2> QED BY <2>2
<1>2. CASE own # {}
  <2>1. own \subseteq 1 .. Slots /\ SlotFor(s) = first(own)
    BY <1>0, <1>2
  <2> HIDE DEF first
  <2>2. SlotFor(s) \in own
    BY <1>1, <1>2, <2>1
  <2> QED BY <2>2
<1>3. CASE own = {} /\ free # {}
  <2>1. free \subseteq 1 .. Slots /\ SlotFor(s) = first(free)
    BY <1>0, <1>3
  <2> HIDE DEF first
  <2>2. SlotFor(s) \in free
    BY <1>1, <1>3, <2>1
  <2> QED BY <2>2
<1>4. CASE own = {} /\ free = {}
  <2>1. SlotFor(s) = 1 /\ 1 \in 1 .. Slots
    BY <1>0, <1>4 DEF LoopAssumption
  <2> QED BY <1>4, <2>1 DEF Cached
<1> QED BY <1>2, <1>3, <1>4

\* remember_surface(): the surface is cached, freshly, and nothing is dropped
\* that is not given away.
LEMMA RememberKeepsCache ==
    ASSUME LoopAssumption, cache \in [1 .. Slots -> Entries], NEW s \in Surfaces,
           remember_surface(s)
    PROVE  /\ cache' \in [1 .. Slots -> Entries]
           /\ \E i \in 1 .. Slots : cache'[i].id = s /\ cache'[i].unshownLists = 0
           /\ \A i \in 1 .. Slots :
                 cache[i].id \notin {s, NoSurface} \cup committed \cup GivenAway(s) => cache'[i] = cache[i]
<1> DEFINE k == SlotFor(s)
           new == [id |-> s, dirty |-> TRUE, unshownLists |-> 0]
<1>1. /\ k \in 1 .. Slots
      /\ \/ cache[k].id \in {s, NoSurface}
         \/ /\ k = 1 /\ ~Cached(s)
            /\ \A i \in 1 .. Slots : cache[i].id # NoSurface
  BY SlotIsOwnFreeOrFirst
<1>2. cache' = [cache EXCEPT ![k] = new]
  BY DEF remember_surface
<1>3. new \in Entries
  BY DEF Entries, LoopAssumption
<1>4. new.id = s /\ new.unshownLists = 0
  OBVIOUS
<1> HIDE DEF k, new
<1>5. cache' \in [1 .. Slots -> Entries]
  BY <1>2, <1>3
<1>6. cache'[k] = new /\ \A i \in 1 .. Slots : i # k => cache'[i] = cache[i]
  BY <1>1, <1>2
<1>7. cache[k].id \in {s, NoSurface} \cup committed \cup GivenAway(s)
  BY <1>1 DEF GivenAway
<1> QED BY <1>1, <1>4, <1>5, <1>6, <1>7

\* forget_unshown_surfaces(): what a window shows stays, and starts to age
\* anew; what none shows stays until it was left out of too many lists.
LEMMA ForgetKeepsCache ==
    ASSUME LoopAssumption, cache \in [1 .. Slots -> Entries], NEW windowsNow,
           forget_unshown_surfaces(windowsNow)
    PROVE  /\ cache' \in [1 .. Slots -> Entries]
           /\ \A i \in 1 .. Slots : cache[i].id # NoSurface =>
                 \/ /\ Shows(windowsNow, cache[i].id)
                    /\ cache'[i].id = cache[i].id /\ cache'[i].unshownLists = 0
                 \/ /\ ~Shows(windowsNow, cache[i].id)
                    /\ \/ cache[i].unshownLists = ForgetLists
                       \/ cache'[i].id = cache[i].id /\ cache'[i].unshownLists = cache[i].unshownLists + 1
<1>1. ASSUME NEW i \in 1 .. Slots
      PROVE  /\ cache'[i] \in Entries
             /\ cache'[i].id \in {cache[i].id, NoSurface}
             /\ cache[i].id # NoSurface =>
                 \/ /\ Shows(windowsNow, cache[i].id)
                    /\ cache'[i].id = cache[i].id /\ cache'[i].unshownLists = 0
                 \/ /\ ~Shows(windowsNow, cache[i].id)
                    /\ \/ cache[i].unshownLists = ForgetLists
                       \/ cache'[i].id = cache[i].id /\ cache'[i].unshownLists = cache[i].unshownLists + 1
  <2>0. cache[i] \in Entries /\ cache[i].unshownLists \in 0 .. ForgetLists /\ ForgetLists \in Nat
    BY DEF Entries, LoopAssumption
  <2>1. CASE cache[i].id = NoSurface
    <3>1. cache'[i] = cache[i]
      BY <2>1 DEF forget_unshown_surfaces, ForgetAfter
    <3> QED BY <2>0, <2>1, <3>1
  <2>2. CASE cache[i].id # NoSurface /\ Shows(windowsNow, cache[i].id)
    <3>1. cache'[i] = [cache[i] EXCEPT !.unshownLists = 0]
      BY <2>2 DEF forget_unshown_surfaces, ForgetAfter
    <3>2. cache'[i] \in Entries /\ cache'[i].id = cache[i].id /\ cache'[i].unshownLists = 0
      BY <2>0, <3>1 DEF Entries
    <3> QED BY <2>2, <3>2
  <2>3. CASE /\ cache[i].id # NoSurface /\ ~Shows(windowsNow, cache[i].id)
             /\ cache[i].unshownLists + 1 > ForgetLists
    <3>1. cache'[i] = Free
      BY <2>3 DEF forget_unshown_surfaces, ForgetAfter
    <3>2. cache'[i] \in Entries /\ cache'[i].id = NoSurface
      BY <2>0, <3>1 DEF Entries, Free
    <3> QED BY <2>0, <2>3, <3>2
  <2>4. CASE /\ cache[i].id # NoSurface /\ ~Shows(windowsNow, cache[i].id)
             /\ ~(cache[i].unshownLists + 1 > ForgetLists)
    <3>1. PICK n \in 0 .. ForgetLists : n = cache[i].unshownLists + 1
      BY <2>0, <2>4
    <3>2. cache'[i] = [cache[i] EXCEPT !.unshownLists = n]
      BY <2>4, <3>1 DEF forget_unshown_surfaces, ForgetAfter
    <3>3. cache'[i] \in Entries /\ cache'[i].id = cache[i].id /\ cache'[i].unshownLists = n
      BY <2>0, <3>2 DEF Entries
    <3> QED BY <2>4, <3>1, <3>3
  <2> QED BY <2>1, <2>2, <2>3, <2>4
<1>2. cache' = [i \in 1 .. Slots |-> cache'[i]]
  BY DEF forget_unshown_surfaces, ForgetAfter
<1>3. cache' \in [1 .. Slots -> Entries]
  BY <1>1, <1>2
<1> QED BY <1>1, <1>3

-----------------------------------------------------------------------------
(* The loop                                                                 *)

\* A surface that was committed and may still be attached is on its way to the
\* cache or there, and no older there than the lists it waited through.
Remembered ==
    \A s \in Surfaces : waited[s] # Expired =>
        \/ s \in committed
        \/ \E i \in 1 .. Slots : cache[i].id = s /\ cache[i].unshownLists <= waited[s]

\* After either list, what is owed pixels is cached or will be polled.
ListedIsKnown ==
    pc \in {"pump3", "redraw"} => \A s \in owed : s \in committed \/ Cached(s)

LoopInv ==
    /\ Remembered
    /\ ListedIsKnown
    /\ TypeOK
    /\ pc \in {"rect", "relist"} => HasPixels

LEMMA LoopStarts ==
    ASSUME LoopAssumption, Init
    PROVE  LoopInv
<1>1. TypeOK
  <2>1. [surface |-> NoSurface, visible |-> TRUE] \in WindowInfo /\ Free \in Entries
    BY DEF LoopAssumption, WindowInfo, Entries, Free
  <2>2. /\ list \in [Windows -> WindowInfo]
        /\ windowSnapshot \in [Windows -> WindowInfo]
        /\ cache \in [1 .. Slots -> Entries]
    BY <2>1 DEF Init
  <2>3. waited \in [Surfaces -> 0 .. Expired] /\ drawn \in [Windows -> Surfaces \cup {NoSurface}]
    BY DEF LoopAssumption, Init, Expired
  <2>4. queue \in 0 .. QueueLength /\ moves \in 0 .. MaxMoves
    BY DEF LoopAssumption, Init
  <2> QED BY <2>2, <2>3, <2>4 DEF Init, TypeOK
<1>2. Remembered
  BY DEF Init, Remembered
<1>3. pc = "pump1"
  BY DEF Init
<1> QED BY <1>1, <1>2, <1>3 DEF LoopInv, ListedIsKnown, PolledAfterList

\* What a program sends or the network does leaves the counters in range.
LEMMA SendKeepsQueue ==
    ASSUME LoopAssumption, NEW q \in 0 .. QueueLength
    PROVE  Send(q) \in 0 .. QueueLength
BY DEF LoopAssumption, Send

LEMMA MoveKeepsBound ==
    ASSUME LoopAssumption, moves \in 0 .. MaxMoves, Move
    PROVE  moves' \in 0 .. MaxMoves
BY DEF LoopAssumption, Move

\* A commit makes its surface young, and the poll will find it.
LEMMA CommitStep ==
    ASSUME LoopAssumption, LoopInv, NEW s \in Surfaces, CommitSurface(s)
    PROVE  LoopInv'
<1> USE DEF CommitSurface, netVars, passVars
<1>1. TypeOK
  BY DEF LoopInv, PolledAfterList
<1>2. TypeOK'
  <2>1. queue' \in 0 .. QueueLength /\ moves' \in 0 .. MaxMoves
    BY <1>1, SendKeepsQueue, MoveKeepsBound DEF TypeOK
  <2>2. waited' \in [Surfaces -> 0 .. Expired]
    BY <1>1 DEF TypeOK, Expired, LoopAssumption
  <2>3. committed' \in SUBSET Surfaces /\ outdated' \in SUBSET Windows
    BY <1>1 DEF TypeOK
  <2> QED BY <1>1, <2>1, <2>2, <2>3 DEF TypeOK
<1>3. waited' = [waited EXCEPT ![s] = 0] /\ waited \in [Surfaces -> 0 .. Expired]
  BY <1>1 DEF TypeOK
<1>4. Remembered'
  BY <1>3 DEF LoopInv, Remembered, Expired
<1>5. ListedIsKnown' /\ (pc' \in {"rect", "relist"} => HasPixels')
  BY DEF LoopInv, ListedIsKnown, PolledAfterList, HasPixels, Cached
<1> QED BY <1>2, <1>4, <1>5 DEF LoopInv, PolledAfterList

\* What a window shows changes nothing until the loop lists the windows.
LEMMA AttachStep ==
    ASSUME LoopAssumption, LoopInv, NEW w \in Windows, NEW s \in Surfaces, AttachSurface(w, s)
    PROVE  LoopInv'
<1> USE DEF AttachSurface, netVars, passVars, drawnVars, owedVars
<1>1. TypeOK
  BY DEF LoopInv, PolledAfterList
<1>2. list' \in [Windows -> WindowInfo]
  <2>1. list \in [Windows -> WindowInfo] /\ list' = [list EXCEPT ![w].surface = s]
    BY <1>1 DEF TypeOK
  <2> QED BY <2>1 DEF WindowInfo
<1>3. TypeOK'
  <2>1. queue' \in 0 .. QueueLength /\ moves' \in 0 .. MaxMoves
    BY <1>1, SendKeepsQueue, MoveKeepsBound DEF TypeOK
  <2> QED BY <1>1, <1>2, <2>1 DEF TypeOK
<1>4. Remembered' /\ ListedIsKnown' /\ (pc' \in {"rect", "relist"} => HasPixels')
  BY DEF LoopInv, Remembered, Expired, ListedIsKnown, PolledAfterList, HasPixels, Cached
<1> QED BY <1>3, <1>4 DEF LoopInv, PolledAfterList

LEMMA ToggleStep ==
    ASSUME LoopAssumption, LoopInv, NEW w \in Windows, ToggleVisible(w)
    PROVE  LoopInv'
<1> USE DEF ToggleVisible, netVars, passVars, drawnVars, owedVars
<1>1. TypeOK
  BY DEF LoopInv, PolledAfterList
<1>2. list' \in [Windows -> WindowInfo]
  <2>0. list \in [Windows -> WindowInfo]
    BY <1>1 DEF TypeOK
  <2>1. PICK b \in BOOLEAN : b = ~list[w].visible
    OBVIOUS
  <2>2. list' = [list EXCEPT ![w].visible = b]
    BY <2>1
  <2> QED BY <2>0, <2>2 DEF WindowInfo
<1>3. TypeOK'
  <2>1. queue' \in 0 .. QueueLength /\ moves' \in 0 .. MaxMoves
    BY <1>1, SendKeepsQueue, MoveKeepsBound DEF TypeOK
  <2> QED BY <1>1, <1>2, <2>1 DEF TypeOK
<1>4. Remembered' /\ ListedIsKnown' /\ (pc' \in {"rect", "relist"} => HasPixels')
  BY DEF LoopInv, Remembered, Expired, ListedIsKnown, PolledAfterList, HasPixels, Cached
<1> QED BY <1>3, <1>4 DEF LoopInv, PolledAfterList

\* The network's thread touches nothing the loop reads but its flag.
LEMMA WatchStep ==
    ASSUME LoopAssumption, LoopInv, watch_network
    PROVE  LoopInv'
<1>1. TypeOK
  BY DEF LoopInv, PolledAfterList
<1>2. UNCHANGED <<list, committed, pc, cache, windowSnapshot, passVars, shownNetworkOnline, drawnVars, owedVars>>
  BY DEF watch_network, Watch
<1>3. TypeOK'
  <2>1. queue' \in 0 .. QueueLength /\ gNetworkOnline' \in BOOLEAN
    BY <1>1, SendKeepsQueue DEF watch_network, Watch, FlagChanges, Pokes, TypeOK
  <2>2. moves' \in 0 .. MaxMoves /\ poke' \in BOOLEAN
    BY <1>1, MoveKeepsBound DEF watch_network, Watch, TypeOK
  <2> QED BY <1>1, <1>2, <2>1, <2>2 DEF TypeOK, passVars, drawnVars, owedVars
<1>4. Remembered' /\ ListedIsKnown' /\ (pc' \in {"rect", "relist"} => HasPixels')
  BY <1>2 DEF LoopInv, Remembered, Expired, ListedIsKnown, PolledAfterList, HasPixels, Cached, owedVars
<1> QED BY <1>3, <1>4 DEF LoopInv, PolledAfterList

\* A poll moves one commit into the cache; what it drops is owed no pixels.
LEMMA PumpStep ==
    ASSUME LoopAssumption, LoopInv, PumpOne
    PROVE  LoopInv'
<1>1. TypeOK
  BY DEF LoopInv, PolledAfterList
<1>2. /\ pc \in {"pump1", "pump2", "pump3"}
      /\ surfaceDirty' = TRUE
      /\ UNCHANGED <<list, queue, moves, netVars, pc, windowSnapshot, fullSceneDirty,
                     shownNetworkOnline, drawnVars>>
  BY DEF PumpOne
<1>3. PICK s \in committed :
         /\ committed' = committed \ {s}
         /\ remember_surface(s)
         /\ waited' = [r \in Surfaces |-> IF r \in GivenAway(s) THEN Expired ELSE waited[r]]
         /\ owed' = owed \ GivenAway(s)
  BY DEF PumpOne
<1>4. s \in Surfaces
  BY <1>1, <1>3 DEF TypeOK
<1>5. /\ cache' \in [1 .. Slots -> Entries]
      /\ \E i \in 1 .. Slots : cache'[i].id = s /\ cache'[i].unshownLists = 0
      /\ \A i \in 1 .. Slots :
            cache[i].id \notin {s, NoSurface} \cup committed \cup GivenAway(s) => cache'[i] = cache[i]
  BY <1>1, <1>3, <1>4, RememberKeepsCache DEF TypeOK
<1>6. TypeOK'
  <2>1. waited' \in [Surfaces -> 0 .. Expired]
    BY <1>1, <1>3 DEF TypeOK, Expired, LoopAssumption
  <2> QED BY <1>1, <1>2, <1>3, <1>5, <2>1 DEF TypeOK, netVars, drawnVars
<1>7. Remembered'
  <2> SUFFICES ASSUME NEW r \in Surfaces, waited'[r] # Expired
               PROVE  \/ r \in committed'
                      \/ \E i \in 1 .. Slots : cache'[i].id = r /\ cache'[i].unshownLists <= waited'[r]
    BY DEF Remembered, Expired
  <2>1. r \notin GivenAway(s) /\ waited'[r] = waited[r]
    BY <1>3
  <2>2. CASE r = s
    <3>1. 0 <= waited'[r]
      BY <1>6 DEF TypeOK
    <3> QED BY <1>5, <2>2, <3>1
  <2>3. CASE r # s
    <3>1. r # NoSurface
      BY DEF LoopAssumption
    <3>2. \/ r \in committed
          \/ \E i \in 1 .. Slots : cache[i].id = r /\ cache[i].unshownLists <= waited[r]
      BY <2>1 DEF LoopInv, Remembered
    <3> QED BY <1>3, <1>5, <2>1, <2>3, <3>1, <3>2
  <2> QED BY <2>2, <2>3
<1>8. ListedIsKnown'
  <2> SUFFICES ASSUME pc \in {"pump3", "redraw"}, NEW r \in owed'
               PROVE  r \in committed' \/ Cached(r)'
    BY <1>2 DEF ListedIsKnown
  <2>1. r \in owed /\ r \notin GivenAway(s) /\ r # NoSurface
    BY <1>1, <1>3 DEF TypeOK, LoopAssumption
  <2>2. r \in committed \/ Cached(r)
    BY <2>1 DEF LoopInv, ListedIsKnown
  <2> QED BY <1>3, <1>5, <2>1, <2>2 DEF Cached
<1> QED BY <1>2, <1>6, <1>7, <1>8 DEF LoopInv, PolledAfterList

\* A finished poll, the messages and the network's flag change nothing but
\* where the loop is; a poll that ends after the list has cached what is owed.
LEMMA QuietStep ==
    ASSUME LoopAssumption, LoopInv, PumpDone \/ Receive \/ CheckNetwork \/ NoteNetwork
    PROVE  LoopInv'
<1>1. TypeOK
  BY DEF LoopInv, PolledAfterList
<1>2. UNCHANGED <<list, committed, cache, windowSnapshot, moves, netVars, surfaceDirty, drawnVars, owedVars>>
  BY DEF PumpDone, PumpEnds, Receive, CheckNetwork, NoteNetwork, kernelVars, passVars
<1>3. Remembered'
  BY <1>2 DEF LoopInv, Remembered, Expired, owedVars
<1>4. /\ pc' \in {"wait", "drain", "online", "pump2", "list", "relist", "rect"}
      /\ pc' \in {"relist", "rect"} => pc = "pump3" /\ committed = {}
      /\ queue' \in 0 .. QueueLength
      /\ fullSceneDirty' \in BOOLEAN /\ shownNetworkOnline' \in BOOLEAN
  <2>1. CASE PumpDone
    BY <1>1, <2>1 DEF PumpDone, PumpEnds, TypeOK, kernelVars, passVars
  <2>2. CASE Receive
    BY <1>1, <2>2 DEF Receive, TypeOK, LoopAssumption
  <2>3. CASE CheckNetwork
    BY <1>1, <2>3 DEF CheckNetwork, TypeOK, kernelVars, passVars
  <2>4. CASE NoteNetwork
    BY <1>1, <2>4 DEF NoteNetwork, TypeOK, kernelVars
  <2> QED BY <2>1, <2>2, <2>3, <2>4
<1>5. TypeOK'
  BY <1>1, <1>2, <1>4 DEF TypeOK, netVars, drawnVars, owedVars
<1>6. ListedIsKnown'
  BY <1>4 DEF ListedIsKnown
<1>7. pc' \in {"rect", "relist"} => HasPixels'
  BY <1>2, <1>4 DEF LoopInv, ListedIsKnown, HasPixels, Cached, owedVars
<1> QED BY <1>3, <1>5, <1>6, <1>7 DEF LoopInv, PolledAfterList

\* A changed list: what is shown stays cached, what waits grows older there no
\* faster than it waits.
LEMMA SnapshotKeepsCache ==
    ASSUME LoopAssumption, LoopInv, NEW seen \in {list, NoWindows}, updateWindowSnapshot(seen),
           UNCHANGED committed
    PROVE  /\ cache' \in [1 .. Slots -> Entries]
           /\ waited' \in [Surfaces -> 0 .. Expired]
           /\ windowSnapshot' \in [Windows -> WindowInfo]
           /\ owed' \in SUBSET Surfaces
           /\ Remembered'
           /\ \A s \in owed' : s \in committed' \/ Cached(s)'
<1>1. TypeOK
  BY DEF LoopInv, PolledAfterList
<1>2. /\ windowSnapshot' = seen /\ committed' = committed
      /\ owed' = {s \in Surfaces : Shows(seen, s) /\ waited[s] # Expired}
  BY DEF updateWindowSnapshot
<1>3. windowSnapshot' \in [Windows -> WindowInfo]
  <2>1. [surface |-> NoSurface, visible |-> FALSE] \in WindowInfo
    BY DEF WindowInfo
  <2>2. NoWindows \in [Windows -> WindowInfo]
    BY <2>1 DEF NoWindows
  <2> QED BY <1>1, <1>2, <2>2 DEF TypeOK
<1>4. \A s \in owed' : /\ s \in Surfaces /\ s # NoSurface /\ Shows(seen, s)
                       /\ s \in committed \/ Cached(s)
  BY <1>2 DEF LoopInv, Remembered, Cached, LoopAssumption
<1>5. CASE seen = windowSnapshot
  <2>1. UNCHANGED <<cache, waited>>
    BY <1>5 DEF updateWindowSnapshot
  <2>2. Remembered'
    BY <1>2, <2>1 DEF LoopInv, Remembered, Expired
  <2> QED BY <1>1, <1>2, <1>3, <1>4, <2>1, <2>2 DEF TypeOK, Cached
<1>6. CASE seen # windowSnapshot
  <2>1. /\ forget_unshown_surfaces(seen)
        /\ waited' = [s \in Surfaces |-> IF waited[s] = Expired THEN Expired
                                         ELSE IF Shows(seen, s) THEN 0 ELSE waited[s] + 1]
    BY <1>6 DEF updateWindowSnapshot
  <2>2. /\ cache' \in [1 .. Slots -> Entries]
        /\ \A i \in 1 .. Slots : cache[i].id # NoSurface =>
               \/ /\ Shows(seen, cache[i].id)
                  /\ cache'[i].id = cache[i].id /\ cache'[i].unshownLists = 0
               \/ /\ ~Shows(seen, cache[i].id)
                  /\ \/ cache[i].unshownLists = ForgetLists
                     \/ cache'[i].id = cache[i].id /\ cache'[i].unshownLists = cache[i].unshownLists + 1
    BY <1>1, <2>1, ForgetKeepsCache DEF TypeOK
  <2>3. \A s \in Surfaces : waited[s] \in 0 .. Expired /\ ForgetLists \in Nat
    BY <1>1 DEF TypeOK, LoopAssumption
  <2>4. waited' \in [Surfaces -> 0 .. Expired]
    BY <2>1, <2>3 DEF Expired
  <2>5. Remembered'
    <3> SUFFICES ASSUME NEW s \in Surfaces, waited'[s] # Expired, s \notin committed
                 PROVE  \E i \in 1 .. Slots : cache'[i].id = s /\ cache'[i].unshownLists <= waited'[s]
      BY <1>2 DEF Remembered, Expired
    <3>1. waited[s] # Expired /\ s # NoSurface
      BY <2>1 DEF LoopAssumption
    <3>2. PICK i \in 1 .. Slots : cache[i].id = s /\ cache[i].unshownLists <= waited[s]
      BY <3>1 DEF LoopInv, Remembered
    <3>3. cache[i].unshownLists \in Nat
      BY <1>1 DEF TypeOK, Entries
    <3>4. CASE Shows(seen, s)
      <4>1. waited'[s] = 0
        BY <2>1, <3>1, <3>4
      <4> QED BY <2>2, <3>1, <3>2, <3>4, <4>1
    <3>5. CASE ~Shows(seen, s)
      <4>1. waited'[s] = waited[s] + 1
        BY <2>1, <3>1, <3>5
      <4>2. cache[i].unshownLists # ForgetLists
        BY <2>3, <3>1, <3>2, <3>3, <4>1 DEF Expired
      <4>3. cache'[i].id = s /\ cache'[i].unshownLists = cache[i].unshownLists + 1
        BY <2>2, <3>1, <3>2, <3>5, <4>2
      <4>4. cache[i].unshownLists + 1 <= waited[s] + 1
        BY <2>3, <3>2, <3>3
      <4> QED BY <4>1, <4>3, <4>4
    <3> QED BY <3>4, <3>5
  <2>6. \A s \in owed' : s \in committed' \/ Cached(s)'
    BY <1>2, <1>4, <2>2 DEF Cached
  <2> QED BY <1>2, <1>3, <2>2, <2>4, <2>5, <2>6
<1> QED BY <1>5, <1>6

LEMMA ListStep ==
    ASSUME LoopAssumption, LoopInv, UpdateSnapshot \/ RelistWindows
    PROVE  LoopInv'
<1>1. TypeOK
  BY DEF LoopInv, PolledAfterList
<1>2. PICK seen \in {list, NoWindows} : Fetched(seen) /\ updateWindowSnapshot(seen)
  BY DEF UpdateSnapshot, RelistWindows
<1>3. /\ UNCHANGED <<list, committed, queue, netVars, surfaceDirty, shownNetworkOnline, drawnVars>>
      /\ pc' \in {"pump3", "redraw"}
      /\ fullSceneDirty' \in BOOLEAN
  BY <1>1 DEF UpdateSnapshot, RelistWindows, passVars, TypeOK
<1>4. /\ cache' \in [1 .. Slots -> Entries]
      /\ waited' \in [Surfaces -> 0 .. Expired]
      /\ windowSnapshot' \in [Windows -> WindowInfo]
      /\ owed' \in SUBSET Surfaces
      /\ Remembered'
      /\ \A s \in owed' : s \in committed' \/ Cached(s)'
  BY <1>2, <1>3, SnapshotKeepsCache
<1>5. moves' \in 0 .. MaxMoves
  BY <1>1, <1>2, MoveKeepsBound DEF Fetched, TypeOK
<1>6. TypeOK'
  BY <1>1, <1>3, <1>4, <1>5 DEF TypeOK, netVars, drawnVars
<1>7. ListedIsKnown'
  BY <1>4 DEF ListedIsKnown
<1> QED BY <1>3, <1>4, <1>6, <1>7 DEF LoopInv, PolledAfterList

\* Drawing clears marks at most, and starts the next pass.
LEMMA DrawStep ==
    ASSUME LoopAssumption, LoopInv, RedrawFullScene \/ RedrawDirtyRect
    PROVE  LoopInv'
<1>1. TypeOK
  BY DEF LoopInv, PolledAfterList
<1>2. /\ UNCHANGED <<kernelVars, netVars, windowSnapshot, shownNetworkOnline, owedVars>>
      /\ pc' = "pump1" /\ surfaceDirty' = FALSE /\ fullSceneDirty' = FALSE
      /\ clear_surface_dirty_flags \/ UNCHANGED cache
      /\ \E reached : Draw(reached)
  BY DEF RedrawFullScene, RedrawDirtyRect, EndPass
<1>3. /\ cache' \in [1 .. Slots -> Entries]
      /\ \A i \in 1 .. Slots : cache'[i].id = cache[i].id /\ cache'[i].unshownLists = cache[i].unshownLists
  <2>1. CASE UNCHANGED cache
    BY <1>1, <2>1 DEF TypeOK
  <2>2. CASE clear_surface_dirty_flags
    <3>1. ASSUME NEW i \in 1 .. Slots
          PROVE  /\ [cache[i] EXCEPT !.dirty = FALSE] \in Entries
                 /\ [cache[i] EXCEPT !.dirty = FALSE].id = cache[i].id
                 /\ [cache[i] EXCEPT !.dirty = FALSE].unshownLists = cache[i].unshownLists
      <4>1. cache[i] \in Entries
        BY <1>1 DEF TypeOK
      <4> QED BY <4>1 DEF Entries
    <3> QED BY <2>2, <3>1 DEF clear_surface_dirty_flags
  <2> QED BY <1>2, <2>1, <2>2
<1>4. drawn' \in [Windows -> Surfaces \cup {NoSurface}] /\ outdated' \in SUBSET Windows
  BY <1>1, <1>2 DEF Draw, TypeOK, WindowInfo
<1>5. TypeOK'
  BY <1>1, <1>2, <1>3, <1>4 DEF TypeOK, kernelVars, netVars, owedVars
<1>6. Remembered'
  BY <1>2, <1>3 DEF LoopInv, Remembered, Expired, kernelVars, owedVars
<1> QED BY <1>2, <1>5, <1>6 DEF LoopInv, ListedIsKnown, PolledAfterList

LEMMA LoopStepSafe ==
    ASSUME LoopAssumption, LoopInv, [Next]_vars
    PROVE  LoopInv'
<1>1. CASE Programs
  BY <1>1, CommitStep, AttachStep, ToggleStep DEF Programs
<1>2. CASE watch_network
  BY <1>2, WatchStep
<1>3. CASE Loop
  BY <1>3, PumpStep, QuietStep, ListStep, DrawStep DEF Loop
<1>4. CASE UNCHANGED vars
  <2> USE <1>4 DEF vars, kernelVars, netVars, passVars, drawnVars, owedVars
  <2>1. TypeOK'
    BY DEF LoopInv, PolledAfterList, TypeOK
  <2>2. Remembered' /\ ListedIsKnown' /\ (pc' \in {"rect", "relist"} => HasPixels')
    BY DEF LoopInv, Remembered, ListedIsKnown, PolledAfterList, HasPixels, Cached, Expired
  <2> QED BY <2>1, <2>2 DEF LoopInv, PolledAfterList
<1> QED BY <1>1, <1>2, <1>3, <1>4 DEF Next

\* main.cpp:178: when the poll after the list ends, every surface the list names
\* has pixels, however the programs' commits and attachments fall between the
\* steps of the loop; except one never committed, left out of more than
\* kSurfaceForgetLists changed lists, or given away by a full cache. What the
\* second list of a full redraw names without pixels the next pass will poll.
THEOREM PollFindsWhatIsListed == Spec => []PolledAfterList
<1>1. Init => LoopInv
  BY LoopAssumption, LoopStarts
<1>2. LoopInv /\ [Next]_vars => LoopInv'
  BY LoopAssumption, LoopStepSafe
<1>3. LoopInv => PolledAfterList
  BY DEF LoopInv, PolledAfterList, ListedIsKnown
<1> QED BY <1>1, <1>2, <1>3, PTL DEF Spec

-----------------------------------------------------------------------------
(* The wallpaper                                                            *)

Paths     == Pictures \cup {""}
Seen      == (Pictures \X Int) \cup {NoPicture}
Bars      == (Addresses \cup {0, -1}) \X Seen
Requests  == [from : Switchers, path : Pictures]
Buffers   == [storage : BOOLEAN, ready : BOOLEAN, path : Paths, picture : Seen, bar : Bars]
Textures  == [path : Paths, picture : Seen, bar : Bars]

\* What the wallpaper's variables hold.
WallpaperTypeOK ==
    /\ disk \in [Pictures -> Int]
    /\ background \in Buffers
    /\ textures \in Textures
    /\ desktop \in [pc : {"start", "loop"}, dirty : BOOLEAN]
    /\ wanted \in Seq(Requests)
    /\ switcher \in [Switchers -> [pc : {"none", "list", "asking"}, entries : SUBSET Pictures]]

\* The buffer and its path are of one picture, or of none.
BufferMatchesPath ==
    IF background.ready THEN background.path \in Pictures /\ background.picture[1] = background.path
    ELSE background.picture = NoPicture

\* The blurred bar is of the picture in the buffer, or of none.
BarMatchesBuffer == background.bar[2] \in {background.picture, NoPicture}

\* The GPU's copy is of the file it is remembered for.
TextureMatchesPath == textures.path # "" => textures.picture[1] = textures.path

\* An equal address means an equal bar, unless the address was used again.
AddressTellsBar ==
    ~reused => (background.bar[1] = textures.bar[1] => background.bar[2] = textures.bar[2])

WallpaperInv ==
    /\ WallpaperTypeOK
    /\ BufferMatchesPath
    /\ BarMatchesBuffer
    /\ TextureMatchesPath
    /\ AddressTellsBar
    /\ WallpaperShown

\* A queue of requests, and the versions a file may have.
LEMMA RequestsQueue ==
    /\ <<>> \in Seq(Requests)
    /\ \A w \in Seq(Requests) : w # <<>> => Head(w) \in Requests /\ Tail(w) \in Seq(Requests)
OBVIOUS

LEMMA VersionsAreNumbers ==
    ASSUME MaxVersions \in Nat
    PROVE  -1 .. MaxVersions \subseteq Int /\ {-1, 0, 1} \subseteq Int
OBVIOUS

LEMMA WallpaperStarts ==
    ASSUME WallpaperAssumption, WallpaperInit
    PROVE  WallpaperInv
<1> USE DEF WallpaperInit
<1>1. NoPicture \in Seen /\ "" \in Paths
  BY DEF Seen, Paths
<1>2. <<0, NoPicture>> \in Bars /\ <<-1, NoPicture>> \in Bars
  BY <1>1 DEF Bars
<1>3. background \in Buffers /\ textures \in Textures
  BY <1>1, <1>2 DEF Buffers, Textures
<1>4. disk \in [Pictures -> Int] /\ wanted \in Seq(Requests)
  BY RequestsQueue, VersionsAreNumbers, Zenon DEF WallpaperAssumption
<1>5. /\ desktop \in [pc : {"start", "loop"}, dirty : BOOLEAN]
      /\ switcher \in [Switchers -> [pc : {"none", "list", "asking"}, entries : SUBSET Pictures]]
  OBVIOUS
<1>6. BufferMatchesPath /\ BarMatchesBuffer /\ TextureMatchesPath /\ AddressTellsBar
  BY DEF BufferMatchesPath, BarMatchesBuffer, TextureMatchesPath, AddressTellsBar
<1>7. WallpaperShown
  BY DEF WallpaperShown
<1> QED BY <1>3, <1>4, <1>5, <1>6, <1>7 DEF WallpaperInv, WallpaperTypeOK

\* A picture that was loaded replaces the buffer, its path and its bar.
LEMMA LoadKeepsBuffers ==
    ASSUME WallpaperAssumption, WallpaperInv, NEW path \in Pictures, NEW room \in BOOLEAN, load_background(path, room),
           UNCHANGED textures
    PROVE  /\ background' \in Buffers
           /\ background'.picture = scale_background_image(path)
           /\ BufferMatchesPath' /\ BarMatchesBuffer' /\ AddressTellsBar'
<1> DEFINE picture == <<path, disk[path]>>
<1>1. PICK bar \in {<<0, NoPicture>>} \cup (Addresses \X {picture}) :
         /\ background' = [storage |-> TRUE, ready |-> TRUE, path |-> path, picture |-> picture, bar |-> bar]
         /\ reused' = Reused(bar)
  BY DEF load_background, scale_background_image, blur_bar_backdrop
<1>2. picture \in Seen /\ picture[1] = path /\ path \in Paths
  BY DEF WallpaperInv, WallpaperTypeOK, Seen, Paths
<1>3. picture = scale_background_image(path)
  BY DEF scale_background_image
<1> HIDE DEF picture
<1>4. bar \in Bars /\ bar[2] \in {picture, NoPicture}
  <2>1. NoPicture \in Seen
    BY DEF Seen
  <2>2. CASE bar = <<0, NoPicture>>
    BY <2>1, <2>2 DEF Bars
  <2>3. CASE bar \in Addresses \X {picture}
    BY <1>2, <2>3 DEF Bars
  <2> QED BY <2>2, <2>3
<1>5. background' \in Buffers
  BY <1>1, <1>2, <1>4 DEF Buffers
<1>6. /\ background'.ready = TRUE /\ background'.path = path
      /\ background'.picture = picture /\ background'.bar = bar
  BY <1>1
<1>7. BufferMatchesPath' /\ BarMatchesBuffer'
  BY <1>2, <1>4, <1>6 DEF BufferMatchesPath, BarMatchesBuffer
<1>8. AddressTellsBar'
  BY <1>1, <1>6 DEF AddressTellsBar, Reused
<1> QED BY <1>3, <1>5, <1>6, <1>7, <1>8

\* One that was not leaves everything but the buffer's memory.
LEMMA FailKeepsBuffers ==
    ASSUME WallpaperInv, NEW room \in BOOLEAN, LoadFails(room), UNCHANGED textures
    PROVE  /\ background' \in Buffers /\ reused' = reused
           /\ background'.picture = background.picture
           /\ BufferMatchesPath' /\ BarMatchesBuffer' /\ AddressTellsBar'
<1>0. background \in Buffers
  BY DEF WallpaperInv, WallpaperTypeOK
<1>1. PICK b \in BOOLEAN : b = ensure_background_storage(room)
  BY <1>0 DEF ensure_background_storage, Buffers
<1>2. background' = [background EXCEPT !.storage = b] /\ reused' = reused
  BY <1>1 DEF LoadFails
<1>3. /\ background' \in Buffers
      /\ background'.ready = background.ready /\ background'.path = background.path
      /\ background'.picture = background.picture /\ background'.bar = background.bar
  BY <1>0, <1>2 DEF Buffers
<1>4. BufferMatchesPath' /\ BarMatchesBuffer' /\ AddressTellsBar'
  BY <1>2, <1>3 DEF WallpaperInv, BufferMatchesPath, BarMatchesBuffer, AddressTellsBar
<1> QED BY <1>2, <1>3, <1>4

LEMMA FirstLoadStep ==
    ASSUME WallpaperAssumption, WallpaperInv, load_first_available_background
    PROVE  WallpaperInv'
<1>1. /\ desktop' = [pc |-> "loop", dirty |-> TRUE]
      /\ UNCHANGED <<disk, backend, textures, shown, wanted, switcher>>
  BY DEF load_first_available_background, drawVars, switcherVars
<1>2. PICK room \in BOOLEAN :
         \/ \E path \in Pictures : load_background(path, room) /\ accepted' = scale_background_image(path)
         \/ LoadFails(room) /\ UNCHANGED accepted
  BY DEF load_first_available_background
<1>3. /\ background' \in Buffers
      /\ background'.picture = accepted'
      /\ BufferMatchesPath' /\ BarMatchesBuffer' /\ AddressTellsBar'
  BY <1>1, <1>2, LoadKeepsBuffers, FailKeepsBuffers DEF WallpaperInv, WallpaperShown
<1>4. WallpaperTypeOK'
  BY <1>1, <1>3 DEF WallpaperInv, WallpaperTypeOK
<1>5. TextureMatchesPath'
  BY <1>1 DEF WallpaperInv, TextureMatchesPath
<1>6. WallpaperShown'
  BY <1>1, <1>3 DEF WallpaperShown
<1> QED BY <1>3, <1>4, <1>5, <1>6 DEF WallpaperInv

\* A request that loads leaves the scene to draw; one that fails changes
\* nothing that is shown.
LEMMA RequestStep ==
    ASSUME WallpaperAssumption, WallpaperInv, handleSetBackgroundRequest
    PROVE  WallpaperInv'
<1> DEFINE req == Head(wanted)
<1>0. WallpaperTypeOK
  BY DEF WallpaperInv
<1>1. /\ wanted # <<>> /\ wanted' = Tail(wanted)
      /\ switcher' = [switcher EXCEPT ![req.from].pc = "list"]
      /\ build_background_reply(req.path)
      /\ UNCHANGED <<disk, backend, textures, shown>>
  BY DEF handleSetBackgroundRequest, drawVars
<1>2. req \in Requests /\ wanted' \in Seq(Requests)
  <2>1. wanted \in Seq(Requests) /\ wanted # <<>> /\ wanted' = Tail(wanted)
    BY <1>0, <1>1 DEF WallpaperTypeOK
  <2> QED BY <2>1, RequestsQueue, Zenon
<1> HIDE DEF req
<1>3. req.path \in Pictures /\ req.from \in Switchers
  BY <1>2 DEF Requests
<1>4. switcher' \in [Switchers -> [pc : {"none", "list", "asking"}, entries : SUBSET Pictures]]
  BY <1>0, <1>1, <1>3 DEF WallpaperTypeOK
<1>5. TextureMatchesPath'
  BY <1>1 DEF WallpaperInv, TextureMatchesPath
<1>6. PICK room \in BOOLEAN :
         \/ /\ load_background(req.path, room)
            /\ desktop' = [desktop EXCEPT !.dirty = TRUE]
            /\ accepted' = scale_background_image(req.path)
         \/ /\ LoadFails(room)
            /\ UNCHANGED <<desktop, accepted>>
  BY <1>1 DEF build_background_reply
<1>7. CASE /\ load_background(req.path, room)
           /\ desktop' = [desktop EXCEPT !.dirty = TRUE]
           /\ accepted' = scale_background_image(req.path)
  <2>1. /\ background' \in Buffers
        /\ background'.picture = accepted'
        /\ BufferMatchesPath' /\ BarMatchesBuffer' /\ AddressTellsBar'
    BY <1>1, <1>3, <1>7, LoadKeepsBuffers
  <2>2. desktop' \in [pc : {"start", "loop"}, dirty : BOOLEAN] /\ desktop'.dirty = TRUE
    BY <1>0, <1>7 DEF WallpaperTypeOK
  <2>3. WallpaperTypeOK'
    BY <1>0, <1>1, <1>2, <1>4, <2>1, <2>2 DEF WallpaperTypeOK
  <2>4. WallpaperShown'
    BY <2>1, <2>2 DEF WallpaperShown
  <2> QED BY <1>5, <2>1, <2>3, <2>4 DEF WallpaperInv
<1>8. CASE LoadFails(room) /\ UNCHANGED <<desktop, accepted>>
  <2>1. /\ background' \in Buffers /\ reused' = reused
        /\ background'.picture = background.picture
        /\ BufferMatchesPath' /\ BarMatchesBuffer' /\ AddressTellsBar'
    BY <1>1, <1>8, FailKeepsBuffers
  <2>2. WallpaperTypeOK'
    BY <1>0, <1>1, <1>2, <1>4, <1>8, <2>1 DEF WallpaperTypeOK
  <2>3. WallpaperShown'
    BY <1>1, <1>8, <2>1 DEF WallpaperInv, WallpaperShown
  <2> QED BY <1>5, <2>1, <2>2, <2>3 DEF WallpaperInv
<1> QED BY <1>6, <1>7, <1>8

LEMMA SceneStep ==
    ASSUME WallpaperInv, DrawScene
    PROVE  WallpaperInv'
<1>0. WallpaperTypeOK
  BY DEF WallpaperInv
<1>1. /\ shown' = [wall |-> draw_background, bar |-> draw_bar_backdrop]
      /\ desktop' = [desktop EXCEPT !.dirty = FALSE]
      /\ UNCHANGED <<disk, backend, background, textures, wanted, switcher, accepted, reused>>
  BY DEF DrawScene, switcherVars
<1>2. desktop' \in [pc : {"start", "loop"}, dirty : BOOLEAN]
  BY <1>0, <1>1 DEF WallpaperTypeOK
<1>3. shown'.wall = draw_background /\ shown'.bar = draw_bar_backdrop
  BY <1>1
<1>4. draw_background = background.picture /\ draw_bar_backdrop \in {background.picture, NoPicture}
  BY DEF draw_background, draw_bar_backdrop, WallpaperInv, BufferMatchesPath, BarMatchesBuffer
<1>5. WallpaperShown'
  BY <1>1, <1>3, <1>4 DEF WallpaperInv, WallpaperShown
<1>6. WallpaperTypeOK'
  BY <1>0, <1>1, <1>2 DEF WallpaperTypeOK
<1> QED BY <1>1, <1>5, <1>6 DEF WallpaperInv, BufferMatchesPath, BarMatchesBuffer, TextureMatchesPath, AddressTellsBar

\* The GPU's copies: equal paths and addresses stand for what they are of.
LEMMA FrameStep ==
    ASSUME WallpaperAssumption, WallpaperInv, NEW other \in BOOLEAN, drawFrame(other)
    PROVE  WallpaperInv'
<1> DEFINE wall == IF background.path # textures.path THEN background.picture ELSE textures.picture
           bar == drawTaskbar(other)
<1>0. WallpaperTypeOK /\ background \in Buffers /\ textures \in Textures
  BY DEF WallpaperInv, WallpaperTypeOK
<1>1. /\ backend = "gl"
      /\ textures' = IF background.ready THEN [path |-> background.path, picture |-> wall, bar |-> bar]
                     ELSE [textures EXCEPT !.bar = bar]
      /\ shown' = [wall |-> IF background.ready THEN wall ELSE NoPicture, bar |-> bar[2]]
      /\ desktop' = [desktop EXCEPT !.dirty = FALSE]
      /\ UNCHANGED <<disk, backend, background, wanted, switcher, accepted, reused>>
  BY DEF drawFrame, switcherVars
<1>2. desktop' \in [pc : {"start", "loop"}, dirty : BOOLEAN]
  BY <1>0, <1>1 DEF WallpaperTypeOK
<1>3. bar \in {background.bar, textures.bar} /\ (bar = background.bar \/ background.bar[1] = textures.bar[1])
  BY DEF drawTaskbar
<1>4. wall \in Seen /\ bar \in Bars
  BY <1>0, <1>3 DEF Buffers, Textures
<1>5. background.ready => wall[1] = background.path /\ background.path # ""
  BY DEF WallpaperInv, BufferMatchesPath, TextureMatchesPath, WallpaperAssumption
<1>6. bar[2] \in {accepted, NoPicture} \/ reused
  BY <1>3 DEF WallpaperInv, WallpaperShown, BarMatchesBuffer, AddressTellsBar
<1> HIDE DEF wall, bar
<1>7. /\ textures' \in Textures /\ textures'.bar = bar
      /\ background.ready => textures'.path = background.path /\ textures'.picture = wall
      /\ ~background.ready => textures'.path = textures.path /\ textures'.picture = textures.picture
  <2>1. CASE background.ready
    <3>1. textures' = [path |-> background.path, picture |-> wall, bar |-> bar] /\ background.path \in Paths
      BY <1>0, <1>1, <2>1 DEF Buffers
    <3> QED BY <1>4, <2>1, <3>1 DEF Textures
  <2>2. CASE ~background.ready
    <3>1. textures' = [textures EXCEPT !.bar = bar]
      BY <1>1, <2>2
    <3> QED BY <1>0, <1>4, <2>2, <3>1 DEF Textures
  <2> QED BY <2>1, <2>2
<1>8. WallpaperTypeOK'
  BY <1>0, <1>1, <1>2, <1>7 DEF WallpaperTypeOK
<1>9. TextureMatchesPath'
  BY <1>5, <1>7 DEF WallpaperInv, TextureMatchesPath
<1>10. AddressTellsBar'
  BY <1>1, <1>3, <1>7 DEF WallpaperInv, AddressTellsBar
<1>11. BufferMatchesPath' /\ BarMatchesBuffer'
  BY <1>1 DEF WallpaperInv, BufferMatchesPath, BarMatchesBuffer
<1>12. shown'.wall = (IF background.ready THEN wall ELSE NoPicture) /\ shown'.bar = bar[2]
  BY <1>1
<1>13. WallpaperShown'
  <2>1. background'.picture = accepted'
    BY <1>1 DEF WallpaperInv, WallpaperShown
  <2>2. CASE background.ready
    BY <1>1, <1>5, <1>6, <1>12, <2>1, <2>2 DEF WallpaperShown, WallpaperInv, BufferMatchesPath
  <2>3. CASE ~background.ready
    BY <1>1, <1>6, <1>12, <2>1, <2>3 DEF WallpaperShown, WallpaperInv, BufferMatchesPath
  <2> QED BY <2>2, <2>3
<1> QED BY <1>8, <1>9, <1>10, <1>11, <1>13 DEF WallpaperInv

\* The switchers and the files touch nothing that is drawn.
LEMMA SwitcherStepSafe ==
    ASSUME WallpaperInv, NEW s \in Switchers, load_backgrounds(s) \/ apply(s) \/ on_key_down(s)
    PROVE  WallpaperInv'
<1>0. WallpaperTypeOK
  BY DEF WallpaperInv
<1>1. UNCHANGED <<disk, backend, background, textures, shown, desktop, accepted, reused>>
  BY DEF load_backgrounds, apply, apply_background, on_key_down, SwitcherStep, drawVars
<1>2. /\ switcher' \in [Switchers -> [pc : {"none", "list", "asking"}, entries : SUBSET Pictures]]
      /\ wanted' \in Seq(Requests)
  <2>1. CASE load_backgrounds(s) \/ on_key_down(s)
    BY <1>0, <2>1, SMTT(20) DEF load_backgrounds, on_key_down, SwitcherStep, PngFiles, WallpaperTypeOK
  <2>2. CASE apply(s)
    <3>1. PICK path \in switcher[s].entries : apply_background(s, path)
      BY <2>2 DEF apply
    <3>2. path \in Pictures
      BY <1>0, <3>1 DEF WallpaperTypeOK
    <3>3. switcher' = [switcher EXCEPT ![s] = [switcher[s] EXCEPT !.pc = "asking"]]
      BY <3>1 DEF apply_background, SwitcherStep
    <3>4. [from |-> s, path |-> path] \in Requests
      BY <3>2 DEF Requests
    <3>5. wanted' \in Seq(Requests)
      BY <1>0, <3>1, <3>4 DEF apply_background, WallpaperTypeOK
    <3> QED BY <1>0, <3>3, <3>5 DEF WallpaperTypeOK
  <2> QED BY <2>1, <2>2
<1>3. WallpaperTypeOK'
  BY <1>0, <1>1, <1>2 DEF WallpaperTypeOK
<1> QED BY <1>1, <1>3 DEF WallpaperInv, BufferMatchesPath, BarMatchesBuffer, TextureMatchesPath, AddressTellsBar,
                          WallpaperShown

LEMMA WallpaperStepSafe ==
    ASSUME WallpaperAssumption, WallpaperInv, [WallpaperNext]_wallpaperVars
    PROVE  WallpaperInv'
<1>1. CASE load_first_available_background \/ handleSetBackgroundRequest \/ DrawScene
  BY <1>1, FirstLoadStep, RequestStep, SceneStep
<1>2. ASSUME NEW other \in BOOLEAN, drawFrame(other) PROVE WallpaperInv'
  BY <1>2, FrameStep
<1>3. ASSUME NEW s \in Switchers, load_backgrounds(s) \/ apply(s) \/ on_key_down(s) PROVE WallpaperInv'
  BY <1>3, SwitcherStepSafe
<1>4. CASE DiskChanges
  <2>1. disk' \in [Pictures -> Int]
    <3>1. PICK path \in Pictures, v \in -1 .. MaxVersions : disk' = [disk EXCEPT ![path] = v]
      BY <1>4 DEF DiskChanges
    <3>2. v \in Int
      BY <3>1, VersionsAreNumbers, Zenon DEF WallpaperAssumption
    <3>3. disk \in [Pictures -> Int]
      BY DEF WallpaperInv, WallpaperTypeOK
    <3> QED BY <3>1, <3>2, <3>3
  <2>2. UNCHANGED <<backend, background, textures, shown, desktop, wanted, switcher, accepted, reused>>
    BY <1>4 DEF DiskChanges, drawVars, switcherVars
  <2> QED BY <2>1, <2>2 DEF WallpaperInv, WallpaperTypeOK, BufferMatchesPath, BarMatchesBuffer, TextureMatchesPath,
                            AddressTellsBar, WallpaperShown
<1>5. CASE UNCHANGED wallpaperVars
  BY <1>5 DEF wallpaperVars, drawVars, switcherVars, WallpaperInv, WallpaperTypeOK, BufferMatchesPath,
              BarMatchesBuffer, TextureMatchesPath, AddressTellsBar, WallpaperShown
<1> QED BY <1>1, <1>2, <1>3, <1>4, <1>5 DEF WallpaperNext

\* protocol.cpp:35, gl_backend.cpp:686: with nothing left to draw, the screen
\* shows the picture the last STATUS_OK was sent for, or on the GPU an earlier
\* one of the same file or a bar of a reused address, and nothing else.
THEOREM AcceptedIsShown == WallpaperSpec => []WallpaperShown
<1>1. WallpaperInit => WallpaperInv
  BY WallpaperAssumption, WallpaperStarts
<1>2. WallpaperInv /\ [WallpaperNext]_wallpaperVars => WallpaperInv'
  BY WallpaperAssumption, WallpaperStepSafe
<1>3. WallpaperInv => WallpaperShown
  BY DEF WallpaperInv
<1> QED BY <1>1, <1>2, <1>3, PTL DEF WallpaperSpec

-----------------------------------------------------------------------------
(* The composition                                                          *)

CompositorInv == LoopInv /\ DragWhileLeftDown /\ WallpaperInv

\* What a behaviour of the whole compositor keeps, whichever part it is about.
THEOREM CompositorPromises ==
    CompositorSpec => [](PolledAfterList /\ DragWhileLeftDown /\ WallpaperShown) /\ DragKeepsWindow
<1>1. CompositorInit => CompositorInv
  BY LoopAssumption, PointerInputAssumption, WallpaperAssumption, LoopStarts, PointerStarts, WallpaperStarts
  DEF CompositorInit, CompositorInv
<1>2. ASSUME CompositorInv, [CompositorNext]_compositorVars
      PROVE  CompositorInv' /\ [drag # NoDrag /\ drag' # NoDrag => drag' = drag]_pointerVars
  <2>1. [Next]_vars /\ [PointerNext]_pointerVars /\ [WallpaperNext]_wallpaperVars
    BY <1>2 DEF CompositorNext, compositorVars
  <2>2. LoopInv'
    BY <1>2, <2>1, LoopAssumption, LoopStepSafe DEF CompositorInv
  <2>3. DragWhileLeftDown' /\ (drag # NoDrag /\ drag' # NoDrag => drag' = drag)
    BY <1>2, <2>1, PointerInputAssumption, PointerStepSafe DEF CompositorInv
  <2>4. WallpaperInv'
    BY <1>2, <2>1, WallpaperAssumption, WallpaperStepSafe DEF CompositorInv
  <2> QED BY <2>2, <2>3, <2>4 DEF CompositorInv
<1>3. CompositorInv => PolledAfterList /\ DragWhileLeftDown /\ WallpaperShown
  BY DEF CompositorInv, LoopInv, PolledAfterList, ListedIsKnown, WallpaperInv
<1> QED BY <1>1, <1>2, <1>3, PTL DEF CompositorSpec, DragKeepsWindow
=============================================================================
