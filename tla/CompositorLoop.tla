---------------------------- MODULE CompositorLoop ----------------------------
(***************************************************************************)
(* The compositor's event loop (graphics-compositor/src/main.cpp,          *)
(* GraphicsCompositor::runOnce), its surface cache (surface.cpp) and the   *)
(* thread that watches the network (platform.cpp).                         *)
(*                                                                         *)
(* A program commits a surface and attaches it to its window, in this      *)
(* order or not, sooner or later. The loop learns of the two along         *)
(* different paths: commits through surface_poll, attachments through the  *)
(* window list. Programs, the network thread and the loop take turns       *)
(* between any two system calls.                                           *)
(*                                                                         *)
(* Geometry is left out: a rectangle to repaint is the set of windows it   *)
(* reaches, a window is the surface it shows and whether it is visible.    *)
(***************************************************************************)
EXTENDS Integers, FiniteSets

CONSTANTS
    Windows,
    Surfaces,
    NoSurface,
    Slots,          \* kMaxSurfaceCache
    ForgetLists,    \* kSurfaceForgetLists
    QueueLength,    \* messages the kernel keeps for the compositor
    MaxMoves        \* bound: steps of the programs and the network, failing lists

ASSUME LoopAssumption ==
    /\ Slots \in Nat \ {0}
    /\ ForgetLists \in Nat
    /\ QueueLength \in Nat \ {0}
    /\ MaxMoves \in Nat
    /\ NoSurface \notin Surfaces

VARIABLES
    \* the kernel and the programs
    list,           \* compositor_list_windows(): what each window shows
    committed,      \* commits surface_poll() has not handed out yet
    queue,          \* messages in the compositor's queue
    moves,
    \* the network thread
    gNetworkOnline,
    poke,           \* it is about to send the wake message
    \* the loop
    pc,
    cache,          \* gSurfaceCache
    windowSnapshot,
    surfaceDirty,
    fullSceneDirty,
    shownNetworkOnline,
    \* the scene it drew last
    drawn,          \* the surface whose pixels each window shows, if any
    outdated,       \* windows whose surface was committed since
    \* what the cache owes the programs
    waited,         \* changed lists without a surface since it was committed or shown
    owed            \* listed surfaces that must have pixels

kernelVars == <<list, committed, queue, moves>>
netVars    == <<gNetworkOnline, poke>>
passVars   == <<surfaceDirty, fullSceneDirty>>
drawnVars  == <<drawn, outdated>>
owedVars   == <<waited, owed>>
vars == <<kernelVars, netVars, pc, cache, windowSnapshot, passVars, shownNetworkOnline, drawnVars, owedVars>>

WindowInfo == [surface : Surfaces \cup {NoSurface}, visible : BOOLEAN]
Free       == [id |-> NoSurface, dirty |-> FALSE, unshownLists |-> 0]
Entries    == [id : Surfaces \cup {NoSurface}, dirty : BOOLEAN, unshownLists : 0 .. ForgetLists]
Expired    == ForgetLists + 1
NoWindows  == [w \in Windows |-> [surface |-> NoSurface, visible |-> FALSE]]

Shows(windows, s) == \E w \in Windows : windows[w].surface = s
Cached(s)         == \E i \in 1 .. Slots : cache[i].id = s

\* A message for the compositor; one that does not fit is dropped.
Send(q) == IF q < QueueLength THEN q + 1 ELSE q

-----------------------------------------------------------------------------
Init ==
    /\ list = [w \in Windows |-> [surface |-> NoSurface, visible |-> TRUE]]
    /\ committed = {}
    /\ queue = 0
    /\ moves = 0
    /\ gNetworkOnline = FALSE
    /\ poke = FALSE
    /\ pc = "pump1"
    /\ cache = [i \in 1 .. Slots |-> Free]
    /\ windowSnapshot = list
    /\ surfaceDirty = FALSE
    /\ fullSceneDirty = FALSE
    /\ shownNetworkOnline = FALSE
    /\ drawn = [w \in Windows |-> NoSurface]
    /\ outdated = {}
    /\ waited = [s \in Surfaces |-> Expired]
    /\ owed = {}

-----------------------------------------------------------------------------
(* The programs, through the kernel (external).                            *)

Move ==
    /\ moves < MaxMoves
    /\ moves' = moves + 1

\* A program commits a surface it drew.
CommitSurface(s) ==
    /\ Move
    /\ committed' = committed \cup {s}
    /\ waited' = [waited EXCEPT ![s] = 0]
    /\ outdated' = outdated \cup {w \in Windows : drawn[w] = s}
    /\ queue' = Send(queue)
    /\ UNCHANGED <<list, netVars, pc, cache, windowSnapshot, passVars,
                   shownNetworkOnline, drawn, owed>>

\* It attaches a surface no window shows, committed or not.
AttachSurface(w, s) ==
    /\ Move
    /\ ~Shows(list, s)
    /\ list' = [list EXCEPT ![w].surface = s]
    /\ queue' = Send(queue)
    /\ UNCHANGED <<committed, netVars, pc, cache, windowSnapshot, passVars,
                   shownNetworkOnline, drawnVars, owedVars>>

\* A window is minimized or restored.
ToggleVisible(w) ==
    /\ Move
    /\ list' = [list EXCEPT ![w].visible = ~@]
    /\ queue' = Send(queue)
    /\ UNCHANGED <<committed, netVars, pc, cache, windowSnapshot, passVars,
                   shownNetworkOnline, drawnVars, owedVars>>

-----------------------------------------------------------------------------
(* watch_network(): NetGetConfig returned with the link changed.           *)

FlagChanges == gNetworkOnline' = ~gNetworkOnline /\ UNCHANGED queue
Pokes       == queue' = Send(queue) /\ UNCHANGED gNetworkOnline

\* One thing, then the other; the loop may run in between.
Watch(first, second) ==
    /\ \/ ~poke /\ Move /\ first
       \/ poke /\ second /\ UNCHANGED moves
    /\ poke' = ~poke
    /\ UNCHANGED <<list, committed, pc, cache, windowSnapshot, passVars,
                   shownNetworkOnline, drawnVars, owedVars>>

\* Mutant: the loop is woken before the flag is set.
WatchPokesFirst == Watch(Pokes, FlagChanges)

watch_network == Watch(FlagChanges, Pokes)

-----------------------------------------------------------------------------
(* The surface cache.                                                      *)

\* Its entry, the first free one, or the first.
SlotFor(s) ==
    LET first(S) == CHOOSE i \in S : \A j \in S : i <= j
        own  == {i \in 1 .. Slots : cache[i].id = s}
        free == {i \in 1 .. Slots : cache[i].id = NoSurface}
    IN  IF own # {} THEN first(own) ELSE IF free # {} THEN first(free) ELSE 1

remember_surface(s) ==
    cache' = [cache EXCEPT ![SlotFor(s)] = [id |-> s, dirty |-> TRUE, unshownLists |-> 0]]

ForgetAfter(windows, limit) ==
    cache' = [i \in 1 .. Slots |->
        IF cache[i].id = NoSurface THEN cache[i]
        ELSE IF Shows(windows, cache[i].id) THEN [cache[i] EXCEPT !.unshownLists = 0]
        ELSE IF cache[i].unshownLists + 1 > limit THEN Free
        ELSE [cache[i] EXCEPT !.unshownLists = @ + 1]]

forget_unshown_surfaces(windows) == ForgetAfter(windows, ForgetLists)

clear_surface_dirty_flags == cache' = [i \in 1 .. Slots |-> [cache[i] EXCEPT !.dirty = FALSE]]

-----------------------------------------------------------------------------
(* One pass of runOnce().                                                  *)

\* A full cache gives its first entry to s. What was in it is owed no pixels,
\* unless it was committed again.
GivenAway(s) ==
    IF ~Cached(s) /\ \A i \in 1 .. Slots : cache[i].id # NoSurface
    THEN {cache[1].id} \ committed ELSE {}

\* pump_surface_updates() takes one commit ...
PumpOne ==
    /\ pc \in {"pump1", "pump2", "pump3"}
    /\ \E s \in committed :
          /\ committed' = committed \ {s}
          /\ remember_surface(s)
          /\ waited' = [r \in Surfaces |-> IF r \in GivenAway(s) THEN Expired ELSE waited[r]]
          /\ owed' = owed \ GivenAway(s)
    /\ surfaceDirty' = TRUE
    /\ UNCHANGED <<list, queue, moves, netVars, pc, windowSnapshot,
                   fullSceneDirty, shownNetworkOnline, drawnVars>>

PumpEnds ==
    /\ pc' = CASE pc = "pump1" -> IF surfaceDirty THEN "drain" ELSE "wait"
               [] pc = "pump2" -> "list"
               [] pc = "pump3" -> IF fullSceneDirty THEN "relist" ELSE "rect"
    /\ UNCHANGED <<kernelVars, netVars, cache, windowSnapshot, passVars,
                   shownNetworkOnline, drawnVars, owedVars>>

\* Mutant: the poll after the list is left out.
PumpTwice ==
    /\ pc = "pump3" \/ (pc \in {"pump1", "pump2"} /\ committed = {})
    /\ PumpEnds

\* ... until there is none; a pass that found nothing waits for a message.
PumpDone ==
    /\ pc \in {"pump1", "pump2", "pump3"}
    /\ committed = {}
    /\ PumpEnds

\* queue_receive(), waiting in the first case: handleMessage() may find that
\* the whole scene has to be drawn again.
Receive ==
    /\ pc \in {"wait", "drain"}
    /\ queue > 0
    /\ queue' = queue - 1
    /\ \E full \in BOOLEAN : fullSceneDirty' = (fullSceneDirty \/ full)
    /\ pc' = "drain"
    /\ UNCHANGED <<list, committed, moves, netVars, cache, windowSnapshot,
                   surfaceDirty, shownNetworkOnline, drawnVars, owedVars>>

\* drainMessages() found the queue empty; the flag is read once ...
CheckNetwork ==
    /\ pc = "drain"
    /\ queue = 0
    /\ pc' = IF gNetworkOnline # shownNetworkOnline THEN "online" ELSE "pump2"
    /\ UNCHANGED <<kernelVars, netVars, cache, windowSnapshot, passVars,
                   shownNetworkOnline, drawnVars, owedVars>>

\* ... and once more.
NoteNetwork ==
    /\ pc = "online"
    /\ shownNetworkOnline' = gNetworkOnline
    /\ fullSceneDirty' = TRUE
    /\ pc' = "pump2"
    /\ UNCHANGED <<kernelVars, netVars, cache, windowSnapshot, surfaceDirty, drawnVars, owedVars>>

\* What fetch_windows() gives: the list, or no windows when the call fails.
Fetched(seen) ==
    \/ seen = list /\ UNCHANGED moves
    \/ seen = NoWindows /\ Move

\* updateWindowSnapshot(): a changed list ages what no window shows, and
\* whatever it left out too often is owed no pixels any more.
updateWindowSnapshot(seen) ==
    /\ windowSnapshot' = seen
    /\ IF seen = windowSnapshot
       THEN UNCHANGED <<cache, waited>>
       ELSE /\ forget_unshown_surfaces(seen)
            /\ waited' = [s \in Surfaces |-> IF waited[s] = Expired THEN Expired
                                             ELSE IF Shows(seen, s) THEN 0 ELSE waited[s] + 1]
    /\ owed' = {s \in Surfaces : Shows(seen, s) /\ waited[s] # Expired}

UpdateSnapshot ==
    /\ pc = "list"
    /\ \E seen \in {list, NoWindows} :
          /\ Fetched(seen)
          /\ updateWindowSnapshot(seen)
          /\ fullSceneDirty' = (fullSceneDirty \/ seen # windowSnapshot)
    /\ pc' = "pump3"
    /\ UNCHANGED <<list, committed, queue, netVars, surfaceDirty,
                   shownNetworkOnline, drawnVars>>

\* redrawFullScene() lists the windows again ...
RelistWindows ==
    /\ pc = "relist"
    /\ \E seen \in {list, NoWindows} : Fetched(seen) /\ updateWindowSnapshot(seen)
    /\ pc' = "redraw"
    /\ UNCHANGED <<list, committed, queue, netVars, passVars,
                   shownNetworkOnline, drawnVars>>

\* Drawing these windows: the surface's pixels where the cache has it.
Draw(windows) ==
    LET visible == {w \in windows : windowSnapshot[w].visible}
        pixels(s) == IF Cached(s) THEN s ELSE NoSurface
    IN  /\ drawn' = [w \in Windows |-> IF w \in visible THEN pixels(windowSnapshot[w].surface)
                                                       ELSE drawn[w]]
        /\ outdated' = outdated \ visible

\* Back to eventLoop(), which commits and starts the next pass.
EndPass ==
    /\ pc' = "pump1"
    /\ surfaceDirty' = FALSE
    /\ fullSceneDirty' = FALSE
    /\ UNCHANGED <<kernelVars, netVars, windowSnapshot, shownNetworkOnline, owedVars>>

\* ... and draws them all.
RedrawFullScene ==
    /\ pc = "redraw"
    /\ Draw(Windows)
    /\ clear_surface_dirty_flags
    /\ EndPass

\* consume_surface_dirty_rect(): the visible windows whose surface changed.
DirtyWindows ==
    {w \in Windows : /\ windowSnapshot[w].visible
                     /\ \E i \in 1 .. Slots : /\ cache[i].id # NoSurface
                                              /\ cache[i].id = windowSnapshot[w].surface
                                              /\ cache[i].dirty}

\* Mutant: what the last poll found is not drawn.
RedrawOnlyMarked ==
    /\ pc = "rect"
    /\ IF surfaceDirty THEN clear_surface_dirty_flags ELSE UNCHANGED cache
    /\ \E reached \in SUBSET Windows : Draw(reached)
    /\ EndPass

\* redrawDirtyRect(): those, and whatever else the united rectangle reaches.
RedrawDirtyRect ==
    /\ pc = "rect"
    /\ IF surfaceDirty THEN clear_surface_dirty_flags ELSE UNCHANGED cache
    /\ \E reached \in SUBSET Windows :
          Draw(reached \cup (IF surfaceDirty THEN DirtyWindows ELSE {}))
    /\ EndPass

-----------------------------------------------------------------------------
Programs ==
    \/ \E s \in Surfaces : CommitSurface(s)
    \/ \E w \in Windows, s \in Surfaces : AttachSurface(w, s)
    \/ \E w \in Windows : ToggleVisible(w)

Loop ==
    \/ PumpOne
    \/ PumpDone
    \/ Receive
    \/ CheckNetwork
    \/ NoteNetwork
    \/ UpdateSnapshot
    \/ RelistWindows
    \/ RedrawFullScene
    \/ RedrawDirtyRect

Next == Programs \/ watch_network \/ Loop

Spec == Init /\ [][Next]_vars

\* Both threads keep running; nothing makes a program or the network move.
LoopFairness == WF_vars(Loop) /\ WF_vars(poke /\ watch_network)

FairSpec == Spec /\ LoopFairness

-----------------------------------------------------------------------------
\* Every variable has the values the code's declarations allow.
TypeOK ==
    /\ list \in [Windows -> WindowInfo]
    /\ committed \in SUBSET Surfaces
    /\ queue \in 0 .. QueueLength
    /\ moves \in 0 .. MaxMoves
    /\ gNetworkOnline \in BOOLEAN
    /\ poke \in BOOLEAN
    /\ pc \in {"pump1", "wait", "drain", "online", "pump2", "list", "pump3",
               "relist", "redraw", "rect"}
    /\ cache \in [1 .. Slots -> Entries]
    /\ windowSnapshot \in [Windows -> WindowInfo]
    /\ surfaceDirty \in BOOLEAN
    /\ fullSceneDirty \in BOOLEAN
    /\ shownNetworkOnline \in BOOLEAN
    /\ drawn \in [Windows -> Surfaces \cup {NoSurface}]
    /\ outdated \in SUBSET Windows
    /\ waited \in [Surfaces -> 0 .. Expired]
    /\ owed \in SUBSET Surfaces

HasPixels == \A s \in owed : Cached(s)

\* main.cpp:178: polling again after the list finds every surface the list names,
\* whenever it was committed; surface.cpp:107: it may have been left out of
\* kSurfaceForgetLists changed lists before it is attached. It is owed no pixels
\* when it was never committed, attached later than that, or given away by a
\* full cache. A full redraw lists the windows again with no poll after it
\* (main.cpp:419): what it draws without pixels has its commit waiting for the
\* next pass.
PolledAfterList ==
    /\ TypeOK
    /\ pc \in {"rect", "relist"} => HasPixels
    /\ pc = "redraw" => \A s \in owed : s \in committed \/ Cached(s)

\* When the programs stop, every visible window ends up showing what its
\* program committed last, though the loop sleeps without a timeout and
\* messages to a full queue are dropped. It may show nothing if its surface is
\* owed no pixels, or when the last list could not be had.
EventuallyDrawn ==
    <>[](\/ windowSnapshot = NoWindows
         \/ \A w \in Windows :
               LET s == list[w].surface
               IN  list[w].visible /\ (s # NoSurface => waited[s] # Expired)
                   => drawn[w] = s /\ w \notin outdated)

\* The loop notices the last change of the network, though the wake message is
\* lost when the queue is full.
EventuallyNoticed == <>[](shownNetworkOnline = gNetworkOnline)
=============================================================================
