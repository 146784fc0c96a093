----------------------------- MODULE DynamicLinker -----------------------------
(***************************************************************************)
(* ld-instantos (ld-instantos/src/main.cpp): loads the libraries a program *)
(* needs, breadth first, relocates every object, protects the libraries'   *)
(* segments, runs the initialisers and enters the program.                 *)
(*                                                                         *)
(* A program is any dependency graph, with cycles and glibc's names for    *)
(* libinstant.so in it, and any choice of which objects define a symbol;   *)
(* every object refers to every symbol. Loading is one step for each       *)
(* DT_NEEDED entry, the later phases one for each object.                  *)
(***************************************************************************)
EXTENDS Integers, Sequences

CONSTANTS
    Main,
    Names,          \* what a DT_NEEDED entry may say
    Files,          \* the libraries under /lib
    Broken,         \* those that are no usable ELF objects
    Long,           \* those whose names do not fit Object::name
    Fixed,          \* those linked for fixed addresses (ET_EXEC)
    Resolve(_),     \* resolveSoname(), a name to the name of its runtime
    Size(_),        \* bytes of a library's segments
    Stride,         \* LIBRARY_STRIDE
    MaxObjects,     \* MAX_OBJECTS
    MaxNeeded,      \* MAX_NEEDED (a library with more is broken)
    Needs(_),       \* the DT_NEEDED lists an object may have
    Symbols

ASSUME LinkerAssumption ==
    /\ Main \notin Names
    /\ Files \subseteq Names
    /\ Broken \subseteq Files
    /\ Long \subseteq Files
    /\ Fixed \subseteq Files
    /\ \A n \in Names : Resolve(n) \in Names /\ Resolve(Resolve(n)) = Resolve(n)
    /\ \A f \in Files : Size(f) \in Nat
    /\ Stride \in Nat \ {0}
    /\ MaxObjects \in Nat \ {0}
    /\ MaxNeeded \in Nat \ {0}
    /\ \A o \in Files \cup {Main} : \A list \in Needs(o) :
          list \in Seq(Names) /\ Len(list) <= MaxNeeded

VARIABLES
    needed,             \* Object::needed of the program and of each library
    definers,           \* which objects define each symbol
    weak,               \* symbols that are referred to weakly
    copied,             \* symbols the program has a copy relocation for
    objects,            \* objects[0 .. objectCount): [file, base]
    nextLibraryBase,
    pc,                 \* the loop of ld_main() it is in
    at,                 \* that loop's index
    dep,                \* and the inner one's
    bound,              \* relocated objects: the definition each symbol got
    source,             \* the object whose bytes each copy relocation copied
    protected,
    initialised         \* the objects whose initialisers ran, in that order

program == <<needed, definers, weak, copied>>
vars == <<program, objects, nextLibraryBase, pc, at, dep, bound, source, protected, initialised>>

Objects      == Files \cup {Main}
AlignUp(v)   == ((v + Stride - 1) \div Stride) * Stride

\* The program that is being started (its symbols come first in objects[0],
\* where a copy relocation's slot counts as a definition).
Init ==
    /\ needed \in {lists \in [Objects -> UNION {Needs(o) : o \in Objects}] :
                      \A o \in Objects : lists[o] \in Needs(o)}
    /\ definers \in [Symbols -> SUBSET Objects]
    /\ weak \in SUBSET Symbols
    /\ copied \in SUBSET {s \in Symbols : Main \in definers[s]}
    /\ objects = <<[file |-> Main, base |-> 0]>>
    /\ nextLibraryBase = Stride
    /\ pc = "load"
    /\ at = 1
    /\ dep = 1
    /\ bound = <<>>
    /\ source = [s \in Symbols |-> 0]
    /\ protected = {}
    /\ initialised = <<>>

Fatal ==
    /\ pc' = "fatal"
    /\ UNCHANGED <<program, objects, nextLibraryBase, at, dep, bound, source, protected, initialised>>

-----------------------------------------------------------------------------
(* Loading.                                                                *)

Needed(i) == needed[objects[i].file]

\* Mutant: only the program's own entries are compared.
LoadedByMain(name) == at = 1 /\ name \notin Long /\ \E j \in 1 .. Len(objects) : objects[j].file = name

\* findObject(): a name that was cut off when it was stored never matches.
Loaded(name) == name \notin Long /\ \E j \in 1 .. Len(objects) : objects[j].file = name

\* Where a library goes: a fixed one where it was linked for.
BaseOf(name) == IF name \in Fixed THEN 0 ELSE nextLibraryBase

\* Mutant: the next library starts where the last one's stride began.
BaseIgnoresSize(name) == IF name \in Fixed THEN nextLibraryBase ELSE nextLibraryBase + Stride

\* Where the next one goes; behind a fixed one nothing moves up.
BaseAfter(name) ==
    IF name \in Fixed THEN nextLibraryBase
    ELSE AlignUp(AlignUp(nextLibraryBase + Size(name)) + Stride)

\* Mutant: an entry whose library is loaded is not passed over.
LoadStays ==
    /\ pc = "load"
    /\ at <= Len(objects)
    /\ dep <= Len(Needed(at))
    /\ LET name == Resolve(Needed(at)[dep])
       IN  IF Loaded(name) THEN UNCHANGED vars
           ELSE IF name \notin Files \ Broken \/ Len(objects) >= MaxObjects THEN Fatal
           ELSE /\ objects' = objects \o <<[file |-> name, base |-> BaseOf(name)]>>
                /\ nextLibraryBase' = BaseAfter(name)
                /\ UNCHANGED <<program, pc, at, dep, bound, source, protected, initialised>>

\* loadDependency(), loadObjectFromMemory(): a library not loaded yet is read,
\* mapped and registered.
LoadDependency ==
    /\ pc = "load"
    /\ at <= Len(objects)
    /\ dep <= Len(Needed(at))
    /\ LET name == Resolve(Needed(at)[dep])
       IN  IF Loaded(name)
           THEN /\ dep' = dep + 1
                /\ UNCHANGED <<program, objects, nextLibraryBase, pc, at, bound, source,
                               protected, initialised>>
           ELSE IF name \notin Files \ Broken \/ Len(objects) >= MaxObjects
           THEN Fatal
           ELSE /\ objects' = objects \o <<[file |-> name, base |-> BaseOf(name)]>>
                /\ nextLibraryBase' = BaseAfter(name)
                /\ dep' = dep + 1
                /\ UNCHANGED <<program, pc, at, bound, source, protected, initialised>>

\* ld_main()'s outer loop runs over objects[] while it grows.
NextObject ==
    /\ pc = "load"
    /\ at <= Len(objects)
    /\ dep > Len(Needed(at))
    /\ at' = at + 1
    /\ dep' = 1
    /\ pc' = IF at = Len(objects) THEN "relocate" ELSE "load"
    /\ UNCHANGED <<program, objects, nextLibraryBase, bound, source, protected, initialised>>

-----------------------------------------------------------------------------
(* Relocating.                                                             *)

\* lookupSymbolExcluding(): the first object that defines the symbol.
Lookup(s, exclude) ==
    LET found == {j \in 1 .. Len(objects) : j # exclude /\ objects[j].file \in definers[s]}
    IN  IF found = {} THEN 0 ELSE CHOOSE j \in found : \A k \in found : j <= k

\* The object that is relocated next.
Current == Len(bound) + 1

\* Mutant: an object prefers its own definition.
BindOwn(i, s) == IF objects[i].file \in definers[s] THEN i ELSE Lookup(s, 0)

\* applyRelocation() of a reference.
Bind(i, s) == Lookup(s, 0)

\* relocateObject(): all of an object's references, and its copy relocations.
RelocateObject ==
    /\ pc = "relocate"
    /\ IF \/ \E s \in Symbols \ weak : Bind(Current, s) = 0
          \/ Current = 1 /\ \E s \in copied : Lookup(s, 1) = 0
       THEN Fatal
       ELSE /\ bound' = bound \o <<[s \in Symbols |-> Bind(Current, s)]>>
            /\ source' = IF Current = 1
                         THEN [s \in Symbols |-> IF s \in copied THEN Lookup(s, 1) ELSE 0]
                         ELSE source
            /\ pc' = IF Current = Len(objects) THEN "protect" ELSE "relocate"
            /\ at' = IF Current = Len(objects) THEN 2 ELSE at
            /\ UNCHANGED <<program, objects, nextLibraryBase, dep, protected, initialised>>

-----------------------------------------------------------------------------
(* Protecting, initialising, entering.                                     *)

\* protectObject(), of the libraries: the kernel protected the program.
ProtectObject ==
    /\ pc = "protect"
    /\ IF at <= Len(objects)
       THEN protected' = protected \cup {at} /\ at' = at + 1 /\ UNCHANGED pc
       ELSE at' = 2 /\ pc' = "init" /\ UNCHANGED protected
    /\ UNCHANGED <<program, objects, nextLibraryBase, dep, bound, source, initialised>>

\* runInit(): the libraries as they were loaded, then the program.
RunInit ==
    /\ pc = "init"
    /\ IF at <= Len(objects)
       THEN initialised' = initialised \o <<at>> /\ at' = at + 1 /\ UNCHANGED pc
       ELSE initialised' = initialised \o <<1>> /\ pc' = "entered" /\ UNCHANGED at
    /\ UNCHANGED <<program, objects, nextLibraryBase, dep, bound, source, protected>>

\* The linker's work is done: the program runs, or the process has exited.
Done ==
    /\ pc \in {"entered", "fatal"}
    /\ UNCHANGED vars

Step == LoadDependency \/ NextObject \/ RelocateObject \/ ProtectObject \/ RunInit

Next == Step \/ Done

Spec == Init /\ [][Next]_vars

FairSpec == Spec /\ WF_vars(Step)

-----------------------------------------------------------------------------
\* Every variable has the values the code's declarations allow.
TypeOK ==
    /\ objects \in Seq([file : Objects, base : Nat])
    /\ Len(objects) \in 1 .. MaxObjects
    /\ nextLibraryBase \in Nat
    /\ pc \in {"load", "relocate", "protect", "init", "entered", "fatal"}
    /\ at \in 1 .. MaxObjects + 1
    /\ dep \in 1 .. MaxNeeded + 1
    /\ bound \in Seq([Symbols -> 0 .. Len(objects)])
    /\ source \in [Symbols -> 0 .. Len(objects)]
    /\ protected \in SUBSET (2 .. Len(objects))
    /\ initialised \in Seq(1 .. Len(objects))

\* The libraries the program needs, directly or not: the least set closed
\* under needing.
Reachable ==
    LET closed(S) == \A o \in S \cup {Main} : \A d \in 1 .. Len(needed[o]) :
                         Resolve(needed[o][d]) \in S
    IN  {f \in Files : \A S \in SUBSET Files : closed(S) => f \in S}

\* Initialisers run when every object is relocated and every library is
\* protected, each once, and the program's after all of them.
InitialisesLast ==
    /\ initialised # <<>> => /\ Len(bound) = Len(objects)
                             /\ protected = 2 .. Len(objects)
    /\ \A i, j \in 1 .. Len(initialised) : initialised[i] = initialised[j] => i = j
    /\ \A i \in 1 .. Len(initialised) : initialised[i] = 1 => i = Len(objects)
    /\ pc = "entered" => Len(initialised) = Len(objects)

\* main.cpp:460: names that mean the same runtime "collapse to a single loaded
\* object": when loading ends every library needed is loaded, and once unless its
\* name was too long to be kept, whatever the cycles and aliases of the graph;
\* and each is initialised once, after all are relocated and protected.
LoadsEachOnce ==
    /\ TypeOK
    /\ pc \in {"relocate", "protect", "init", "entered"} =>
          /\ {objects[i].file : i \in 2 .. Len(objects)} = Reachable
          /\ \A i, j \in 1 .. Len(objects) :
                objects[i].file = objects[j].file /\ objects[i].file \notin Long => i = j
    /\ InitialisesLast

\* No two position-independent libraries overlap in memory, however large they
\* are and whatever is loaded between them. One linked for fixed addresses
\* (main.cpp:371) lies where it was linked for, which nothing compares with the
\* others' places.
MapsApart ==
    \A i, j \in 2 .. Len(objects) :
        i < j /\ objects[i].file \notin Fixed /\ objects[j].file \notin Fixed =>
            objects[i].base + Size(objects[i].file) <= objects[j].base

\* All objects agree which definition a symbol stands for, and if the program
\* has a copy of it that is the one, filled from a library.
OneDefinition ==
    /\ \A i, j \in 1 .. Len(bound) : bound[i] = bound[j]
    /\ bound # <<>> => \A s \in copied : bound[1][s] = 1 /\ source[s] > 1

\* However the libraries need each other, the program is entered or refused.
Terminates == <>(pc \in {"entered", "fatal"})
=============================================================================
