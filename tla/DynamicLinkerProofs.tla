------------------------- MODULE DynamicLinkerProofs -------------------------
(* The dynamic linker loads what a program needs, and that alone, once (but *)
(* for names that were cut) and, unless they are linked for fixed addresses, *)
(* apart, and lets all objects agree on every symbol: for every graph of    *)
(* libraries, with cycles and aliases, of any sizes, every object with up   *)
(* to MAX_NEEDED entries.                                                   *)
EXTENDS DynamicLinker, NaturalsInduction, WellFoundedInduction, TLAPS

-----------------------------------------------------------------------------
(* Numbers and sequences.                                                   *)

\* A set of numbers that is not empty has a least one.
LEMMA LeastExists ==
    ASSUME NEW S, S \subseteq Nat, S # {}
    PROVE  \E i \in S : \A j \in S : i <= j
<1> DEFINE R == {ss \in Nat \X Nat : ss[1] < ss[2]}
<1>1. IsWellFoundedOn(R, Nat)
  BY NatLessThanWellFounded DEF OpToRel
<1> HIDE DEF R
<1>2. \E i \in S : \A j \in S : ~ (<<j, i>> \in R)
  BY <1>1, WFMin, Zenon
<1>3. PICK i \in S : \A j \in S : ~ (<<j, i>> \in R)
  BY <1>2
<1>4. ASSUME NEW j \in S PROVE i <= j
  <2>1. i \in Nat /\ j \in Nat
    OBVIOUS
  <2>2. j < i => <<j, i>> \in R
    BY <2>1 DEF R
  <2> QED BY <1>3, <2>1, <2>2
<1> QED BY <1>4

\* Aligning up never goes down.
LEMMA AlignsUp ==
    ASSUME Stride \in Nat \ {0}, NEW v \in Nat
    PROVE  AlignUp(v) \in Nat /\ AlignUp(v) >= v
BY DEF AlignUp

\* The next library's base never goes down, and goes behind a library that is
\* position independent.
LEMMA BaseMovesUp ==
    ASSUME Stride \in Nat \ {0}, nextLibraryBase \in Nat, NEW name, Size(name) \in Nat
    PROVE  /\ BaseAfter(name) \in Nat /\ BaseAfter(name) >= nextLibraryBase
           /\ name \notin Fixed => BaseAfter(name) >= nextLibraryBase + Size(name)
<1>1. CASE name \in Fixed
  BY <1>1 DEF BaseAfter
<1>2. CASE name \notin Fixed
  <2>1. PICK v \in Nat : v = nextLibraryBase + Size(name)
    OBVIOUS
  <2>2. AlignUp(v) \in Nat /\ AlignUp(v) >= v
    BY <2>1, AlignsUp
  <2>3. AlignUp(v) + Stride \in Nat
    BY <2>2
  <2>4. AlignUp(AlignUp(v) + Stride) \in Nat /\ AlignUp(AlignUp(v) + Stride) >= AlignUp(v) + Stride
    BY <2>3, AlignsUp
  <2>5. BaseAfter(name) = AlignUp(AlignUp(v) + Stride)
    BY <1>2, <2>1 DEF BaseAfter
  <2>6. BaseAfter(name) \in Nat /\ BaseAfter(name) >= v
    BY <2>2, <2>4, <2>5
  <2>7. v >= nextLibraryBase
    BY <2>1
  <2> QED BY <2>1, <2>6, <2>7
<1> QED BY <1>1, <1>2

\* A sequence with one element more.
LEMMA Grown ==
    ASSUME NEW S, NEW seq \in Seq(S), NEW e \in S, NEW new, new = seq \o <<e>>
    PROVE  /\ new \in Seq(S) /\ Len(new) = Len(seq) + 1 /\ new[Len(seq) + 1] = e
           /\ \A i \in 1 .. Len(seq) : new[i] = seq[i]
OBVIOUS

\* Two places in order, the later one not the last.
LEMMA NotLast ==
    ASSUME NEW m \in Nat, NEW i \in 2 .. m + 1, NEW j \in 2 .. m + 1, i < j, j # m + 1
    PROVE  i \in 2 .. m /\ j \in 2 .. m /\ i \in 1 .. m /\ j \in 1 .. m
OBVIOUS

\* lookupSymbolExcluding(): 0, or an object that was not excluded.
LEMMA LookupFinds ==
    ASSUME Len(objects) \in Nat, NEW s \in Symbols, NEW exclude \in {0, 1}
    PROVE  /\ Lookup(s, exclude) \in 0 .. Len(objects)
           /\ Lookup(s, exclude) # 0 => Lookup(s, exclude) # exclude
           /\ 1 \in 1 .. Len(objects) /\ objects[1].file \in definers[s] => Lookup(s, 0) = 1
<1> DEFINE found(e) == {j \in 1 .. Len(objects) : j # e /\ objects[j].file \in definers[s]}
           least(S) == CHOOSE j \in S : \A k \in S : j <= k
<1>1. ASSUME NEW e, found(e) # {}
      PROVE  least(found(e)) \in found(e) /\ \A k \in found(e) : least(found(e)) <= k
  <2>1. found(e) \subseteq Nat
    OBVIOUS
  <2>2. \E j \in found(e) : \A k \in found(e) : j <= k
    BY <1>1, <2>1, LeastExists
  <2> QED BY <2>2
<1>2. \A e : Lookup(s, e) = IF found(e) = {} THEN 0 ELSE least(found(e))
  BY DEF Lookup
<1>3. /\ Lookup(s, exclude) \in 0 .. Len(objects)
      /\ Lookup(s, exclude) # 0 => Lookup(s, exclude) # exclude
  <2>1. CASE found(exclude) = {}
    <3>1. Lookup(s, exclude) = 0
      BY <1>2, <2>1
    <3> QED BY <3>1
  <2>2. CASE found(exclude) # {}
    <3>1. Lookup(s, exclude) = least(found(exclude))
      BY <1>2, <2>2
    <3>2. Lookup(s, exclude) \in found(exclude)
      BY <1>1, <2>2, <3>1
    <3> QED BY <3>2
  <2> QED BY <2>1, <2>2
<1>4. ASSUME 1 \in 1 .. Len(objects), objects[1].file \in definers[s] PROVE Lookup(s, 0) = 1
  <2>1. 1 \in found(0)
    BY <1>4
  <2>2. least(found(0)) \in found(0) /\ least(found(0)) <= 1
    BY <1>1, <2>1
  <2> QED BY <1>2, <2>1, <2>2
<1> QED BY <1>3, <1>4

-----------------------------------------------------------------------------
(* The invariant.                                                           *)

Loads == [file : Objects, base : Nat]

\* A set of libraries that has what it and the program need.
Closed(S) ==
    \A o \in S \cup {Main} : \A d \in 1 .. Len(needed[o]) : Resolve(needed[o][d]) \in S

\* What is being started.
ProgramOK ==
    /\ needed \in [Objects -> Seq(Names)]
    /\ \A o \in Objects : Len(needed[o]) <= MaxNeeded
    /\ copied \subseteq Symbols
    /\ \A s \in copied : Main \in definers[s]

\* The program comes first, then libraries, in room of their own.
ObjectsOK ==
    /\ objects[1].file = Main
    /\ \A i \in 2 .. Len(objects) : objects[i].file \in Files
    /\ \A i \in 2 .. Len(objects) :
          objects[i].file \notin Fixed => objects[i].base + Size(objects[i].file) <= nextLibraryBase
    /\ \A i, j \in 1 .. Len(objects) :
          objects[i].file = objects[j].file /\ objects[i].file \notin Long => i = j

\* Only what is needed is loaded ...
NeededOnly ==
    \A S \in SUBSET Files : Closed(S) => \A i \in 2 .. Len(objects) : objects[i].file \in S

LoadedLibrary(f) == \E j \in 2 .. Len(objects) : objects[j].file = f

\* ... and everything the entries passed so far name.
EntriesLoaded ==
    pc = "load" =>
        /\ at <= Len(objects)
        /\ dep <= Len(Needed(at)) + 1
        /\ \A i \in 1 .. at - 1 : \A d \in 1 .. Len(Needed(i)) : LoadedLibrary(Resolve(Needed(i)[d]))
        /\ \A d \in 1 .. dep - 1 : LoadedLibrary(Resolve(Needed(at)[d]))

AllLoaded ==
    pc \in {"relocate", "protect", "init", "entered"} =>
        {objects[i].file : i \in 2 .. Len(objects)} = Reachable

\* Every object got the first definition there is; copies come from elsewhere.
BindsFirst ==
    /\ \A i \in 1 .. Len(bound) : bound[i] = [s \in Symbols |-> Lookup(s, 0)]
    /\ bound # <<>> => \A s \in copied : source[s] = Lookup(s, 1) /\ Lookup(s, 1) # 0

\* How far each phase is, and that it begins when the one before is done.
Phases ==
    /\ pc \in {"load", "relocate"} => protected = {}
    /\ pc = "load" => bound = <<>>
    /\ pc = "relocate" => Len(bound) < Len(objects)
    /\ pc \in {"load", "relocate", "protect", "fatal"} => initialised = <<>>
    /\ pc \in {"protect", "init", "entered"} => Len(bound) = Len(objects)
    /\ pc \in {"protect", "init"} => at \in 2 .. Len(objects) + 1
    /\ pc = "protect" => protected = 2 .. at - 1
    /\ pc \in {"init", "entered"} => protected = 2 .. Len(objects)
    /\ pc = "init" => /\ Len(initialised) = at - 2
                      /\ \A k \in 1 .. at - 2 : initialised[k] = k + 1
    /\ pc = "entered" => /\ Len(initialised) = Len(objects)
                         /\ \A k \in 1 .. Len(objects) - 1 : initialised[k] = k + 1
                         /\ initialised[Len(objects)] = 1

LinkerInv ==
    /\ TypeOK
    /\ ProgramOK
    /\ ObjectsOK
    /\ MapsApart
    /\ NeededOnly
    /\ EntriesLoaded
    /\ AllLoaded
    /\ BindsFirst
    /\ Phases

LEMMA LinkerStarts ==
    ASSUME LinkerAssumption, Init
    PROVE  LinkerInv
<1>0. /\ objects = <<[file |-> Main, base |-> 0]>> /\ nextLibraryBase = Stride
      /\ pc = "load" /\ at = 1 /\ dep = 1 /\ bound = <<>> /\ protected = {} /\ initialised = <<>>
      /\ source = [s \in Symbols |-> 0]
  BY DEF Init
<1>1. /\ Len(objects) = 1 /\ objects[1].file = Main
      /\ objects \in Seq(Loads)
  <2>1. [file |-> Main, base |-> 0] \in Loads
    BY DEF Loads, Objects
  <2> QED BY <1>0, <2>1
<1>2. TypeOK
  <2>1. <<>> \in Seq([Symbols -> 0 .. Len(objects)]) /\ <<>> \in Seq(1 .. Len(objects))
    OBVIOUS
  <2>2. /\ Len(objects) \in 1 .. MaxObjects /\ at \in 1 .. MaxObjects + 1 /\ dep \in 1 .. MaxNeeded + 1
        /\ nextLibraryBase \in Nat
    BY <1>0, <1>1 DEF LinkerAssumption
  <2>3. source \in [Symbols -> 0 .. Len(objects)]
    BY <1>0, <1>1
  <2> QED BY <1>0, <1>1, <2>1, <2>2, <2>3 DEF TypeOK, Loads
<1>3. ProgramOK
  <2>1. /\ needed \in [Objects -> UNION {Needs(o) : o \in Objects}]
        /\ \A o \in Objects : needed[o] \in Needs(o)
    BY DEF Init
  <2>2. \A o \in Objects : needed[o] \in Seq(Names) /\ Len(needed[o]) <= MaxNeeded
    BY <2>1 DEF LinkerAssumption, Objects
  <2>3. needed \in [Objects -> Seq(Names)]
    BY <2>1, <2>2
  <2> QED BY <2>2, <2>3 DEF ProgramOK, Init
<1>4. ObjectsOK /\ MapsApart /\ NeededOnly
  BY <1>1 DEF ObjectsOK, MapsApart, NeededOnly
<1>5. EntriesLoaded
  <2>1. Len(Needed(at)) \in Nat
    BY <1>0, <1>1, <1>3 DEF ProgramOK, Needed, Objects
  <2> QED BY <1>0, <1>1, <2>1 DEF EntriesLoaded
<1>6. AllLoaded /\ BindsFirst /\ Phases
  BY <1>0 DEF AllLoaded, BindsFirst, Phases
<1> QED BY <1>2, <1>3, <1>4, <1>5, <1>6 DEF LinkerInv

\* An entry of a loaded object, and where it leads.
LEMMA EntryNamesLibrary ==
    ASSUME LinkerAssumption, LinkerInv, NEW i \in 1 .. Len(objects), NEW d \in 1 .. Len(Needed(i))
    PROVE  /\ objects[i].file \in Objects
           /\ Needed(i) \in Seq(Names)
           /\ Resolve(Needed(i)[d]) \in Names \ {Main}
<1>1. objects[i].file \in Objects
  <2>1. objects \in Seq(Loads)
    BY DEF LinkerInv, TypeOK, Loads
  <2>2. objects[i] \in Loads
    BY <2>1
  <2> QED BY <2>2 DEF Loads
<1>2. Needed(i) \in Seq(Names)
  BY <1>1 DEF Needed, LinkerInv, ProgramOK
<1>3. Needed(i)[d] \in Names
  BY <1>2
<1> QED BY <1>1, <1>2, <1>3 DEF LinkerAssumption

\* What a symbol means depends on the objects and what they define alone.
LEMMA BindsStay ==
    ASSUME BindsFirst, UNCHANGED <<definers, copied, objects, bound, source>>
    PROVE  BindsFirst'
<1>1. \A s : Lookup(s, 0)' = Lookup(s, 0) /\ Lookup(s, 1)' = Lookup(s, 1)
  BY DEF Lookup
<1> QED BY <1>1 DEF BindsFirst

LEMMA FatalStep ==
    ASSUME LinkerInv, Fatal, pc \in {"load", "relocate"}
    PROVE  LinkerInv'
<1>1. pc' = "fatal" /\ UNCHANGED <<needed, definers, weak, copied, objects, nextLibraryBase, at, dep, bound, source,
                                   protected, initialised>>
  BY DEF Fatal, program
<1>2. TypeOK' /\ ProgramOK' /\ ObjectsOK' /\ MapsApart'
  BY <1>1 DEF LinkerInv, TypeOK, ProgramOK, ObjectsOK, MapsApart
<1>3. NeededOnly' /\ EntriesLoaded' /\ AllLoaded'
  BY <1>1 DEF LinkerInv, NeededOnly, Closed, EntriesLoaded, AllLoaded
<1>4. BindsFirst'
  BY <1>1, BindsStay DEF LinkerInv
<1>5. Phases'
  BY <1>1 DEF LinkerInv, Phases
<1> QED BY <1>2, <1>3, <1>4, <1>5 DEF LinkerInv

\* An entry whose library is there already is passed over.
LEMMA SkipStep ==
    ASSUME LinkerAssumption, LinkerInv, pc = "load", at <= Len(objects), dep <= Len(Needed(at)),
           Loaded(Resolve(Needed(at)[dep])), dep' = dep + 1,
           UNCHANGED <<program, objects, nextLibraryBase, pc, at, bound, source, protected, initialised>>
    PROVE  LinkerInv'
<1>0. UNCHANGED <<needed, definers, weak, copied>>
  BY DEF program
<1>1. at \in 1 .. Len(objects) /\ dep \in Nat \ {0} /\ Len(objects) \in Nat
  BY SMTT(20) DEF LinkerInv, TypeOK, LinkerAssumption
<1>2. objects[at].file \in Objects /\ Len(Needed(at)) \in Nat /\ dep \in 1 .. Len(Needed(at))
  <2>1. objects \in Seq(Loads)
    BY DEF LinkerInv, TypeOK, Loads
  <2>2. objects[at] \in Loads
    BY <1>1, <2>1
  <2>3. objects[at].file \in Objects
    BY <2>2 DEF Loads
  <2>4. Needed(at) \in Seq(Names)
    BY <2>3 DEF Needed, LinkerInv, ProgramOK
  <2>5. Len(Needed(at)) \in Nat
    BY <2>4
  <2> QED BY <1>1, <2>3, <2>5
<1>3. LoadedLibrary(Resolve(Needed(at)[dep]))
  <2>1. Resolve(Needed(at)[dep]) # Main
    BY <1>1, <1>2, EntryNamesLibrary
  <2>2. PICK j \in 1 .. Len(objects) : objects[j].file = Resolve(Needed(at)[dep])
    BY DEF Loaded
  <2>3. j # 1
    BY <2>1, <2>2 DEF LinkerInv, ObjectsOK
  <2> QED BY <1>1, <2>2, <2>3 DEF LoadedLibrary
<1>4. TypeOK'
  <2>1. Len(Needed(at)) <= MaxNeeded
    BY <1>2 DEF LinkerInv, ProgramOK, Needed
  <2>2. dep' \in 1 .. MaxNeeded + 1
    BY <1>1, <1>2, <2>1 DEF LinkerAssumption
  <2> QED BY <2>2 DEF LinkerInv, TypeOK
<1>5. EntriesLoaded'
  <2>1. \A d \in 1 .. dep' - 1 : LoadedLibrary(Resolve(Needed(at)[d]))
    BY <1>1, <1>3 DEF LinkerInv, EntriesLoaded
  <2>2. dep' <= Len(Needed(at)) + 1
    BY <1>1, <1>2
  <2>3. \A i : Needed(i)' = Needed(i)
    BY <1>0 DEF Needed
  <2>4. \A f : LoadedLibrary(f)' = LoadedLibrary(f)
    BY DEF LoadedLibrary
  <2> QED BY <2>1, <2>2, <2>3, <2>4 DEF LinkerInv, EntriesLoaded
<1>6. ProgramOK' /\ ObjectsOK' /\ MapsApart' /\ NeededOnly' /\ AllLoaded'
  BY <1>0 DEF LinkerInv, ProgramOK, ObjectsOK, MapsApart, NeededOnly, Closed, AllLoaded
<1>7. BindsFirst'
  BY <1>0, BindsStay DEF LinkerInv
<1>8. Phases'
  BY DEF LinkerInv, Phases
<1> QED BY <1>4, <1>5, <1>6, <1>7, <1>8 DEF LinkerInv

\* A library that is not there yet goes behind the last one, and is one that
\* every closed set has.
LEMMA MapStep ==
    ASSUME LinkerAssumption, LinkerInv, pc = "load", at <= Len(objects), dep <= Len(Needed(at)),
           NEW name, name = Resolve(Needed(at)[dep]), ~Loaded(name), name \in Files \ Broken,
           Len(objects) < MaxObjects,
           objects' = objects \o <<[file |-> name, base |-> BaseOf(name)]>>,
           nextLibraryBase' = BaseAfter(name), dep' = dep + 1,
           UNCHANGED <<program, pc, at, bound, source, protected, initialised>>
    PROVE  LinkerInv'
<1> DEFINE n == Len(objects)
<1>0. UNCHANGED <<needed, definers, weak, copied>>
  BY DEF program
<1>1. /\ at \in 1 .. n /\ dep \in Nat \ {0} /\ n \in Nat \ {0} /\ objects \in Seq(Loads)
      /\ nextLibraryBase \in Nat /\ Size(name) \in Nat /\ name \in Objects /\ name # Main
  BY DEF LinkerInv, TypeOK, Loads, LinkerAssumption, Objects
<1>2. \A i \in 1 .. n : objects[i] \in Loads /\ objects[i].file \in Objects /\ objects[i].base \in Nat
  <2>1. \A i \in 1 .. n : objects[i] \in Loads
    BY <1>1
  <2>2. \A x \in Loads : x.file \in Objects /\ x.base \in Nat
    BY DEF Loads
  <2> QED BY <2>1, <2>2
<1>3. \A i \in 1 .. n : Needed(i) \in Seq(Names) /\ Len(Needed(i)) \in Nat /\ Len(Needed(i)) <= MaxNeeded
  <2> SUFFICES ASSUME NEW i \in 1 .. n
               PROVE  Needed(i) \in Seq(Names) /\ Len(Needed(i)) \in Nat /\ Len(Needed(i)) <= MaxNeeded
    OBVIOUS
  <2>1. Needed(i) \in Seq(Names) /\ Len(Needed(i)) <= MaxNeeded
    BY <1>2 DEF Needed, LinkerInv, ProgramOK
  <2> QED BY <2>1
<1>3a. BaseOf(name) \in Nat /\ (name \notin Fixed => BaseOf(name) = nextLibraryBase)
  BY <1>1 DEF BaseOf
<1>4. PICK e \in Loads : e = [file |-> name, base |-> BaseOf(name)]
  BY <1>1, <1>3a DEF Loads
<1>5. /\ e.file = name /\ e.base = BaseOf(name) /\ e.base \in Nat
      /\ name \notin Fixed => e.base = nextLibraryBase
  BY <1>3a, <1>4
<1>6. /\ objects' \in Seq(Loads) /\ Len(objects') = n + 1 /\ objects'[n + 1] = e
      /\ \A i \in 1 .. n : objects'[i] = objects[i]
  BY <1>1, <1>4, Grown
<1>7. /\ nextLibraryBase' \in Nat /\ nextLibraryBase' >= nextLibraryBase
      /\ name \notin Fixed => nextLibraryBase' >= nextLibraryBase + Size(name)
  <2>1. Stride \in Nat \ {0}
    BY DEF LinkerAssumption
  <2> QED BY <1>1, <2>1, BaseMovesUp
<1>8. bound = <<>> /\ bound' = <<>> /\ initialised' = <<>> /\ protected' = {}
  BY DEF LinkerInv, Phases
<1> HIDE DEF n
<1>9. TypeOK'
  <2>1. <<>> \in Seq([Symbols -> 0 .. Len(objects')]) /\ <<>> \in Seq(1 .. Len(objects'))
    OBVIOUS
  <2>2. source' \in [Symbols -> 0 .. Len(objects')]
    <3>1. source \in [Symbols -> 0 .. n]
      BY DEF LinkerInv, TypeOK, n
    <3>2. 0 .. n \subseteq 0 .. n + 1
      BY <1>1
    <3> QED BY <1>6, <3>1, <3>2
  <2>3. dep' \in 1 .. MaxNeeded + 1 /\ Len(objects') \in 1 .. MaxObjects
    BY <1>1, <1>3, <1>6 DEF LinkerAssumption, n
  <2> QED BY <1>6, <1>7, <1>8, <2>1, <2>2, <2>3 DEF LinkerInv, TypeOK, Loads
<1>10. ObjectsOK'
  <2>1. \A i \in 1 .. n : objects[i].file = name => name \in Long
    BY DEF Loaded, n
  <2>2. objects'[1].file = Main
    BY <1>1, <1>6 DEF LinkerInv, ObjectsOK
  <2>3. ASSUME NEW i \in 2 .. n + 1
        PROVE  /\ objects'[i].file \in Files
               /\ objects'[i].file \notin Fixed =>
                     objects'[i].base + Size(objects'[i].file) <= nextLibraryBase'
    <3>1. CASE i = n + 1
      BY <1>5, <1>6, <1>7, <3>1
    <3>2. CASE i \in 2 .. n
      <4>1. /\ objects'[i] = objects[i] /\ objects[i].file \in Files
            /\ objects[i].file \notin Fixed => objects[i].base + Size(objects[i].file) <= nextLibraryBase
        BY <1>1, <1>6, <3>2 DEF LinkerInv, ObjectsOK, n
      <4>2. objects[i].base \in Nat /\ Size(objects[i].file) \in Nat
        BY <1>1, <1>2, <3>2, <4>1 DEF LinkerAssumption
      <4>3. nextLibraryBase <= nextLibraryBase'
        BY <1>1, <1>7
      <4>4. PICK x \in Nat : x = objects[i].base + Size(objects[i].file)
        BY ONLY <4>2
      <4>5. objects[i].file \notin Fixed => x <= nextLibraryBase'
        BY <1>1, <1>7, <4>1, <4>3, <4>4
      <4> QED BY <4>1, <4>4, <4>5
    <3>3. n \in Nat
      BY <1>1
    <3>4. i = n + 1 \/ i \in 2 .. n
      BY <3>3
    <3> QED BY <3>1, <3>2, <3>4
  <2>4. ASSUME NEW i \in 1 .. n + 1, NEW j \in 1 .. n + 1,
               objects'[i].file = objects'[j].file, objects'[i].file \notin Long
        PROVE  i = j
    <3>1. objects'[n + 1].file = name
      BY <1>5, <1>6
    <3>2. \A k \in 1 .. n : objects'[k].file # name \/ name \in Long
      BY <1>6, <2>1
    <3>3. CASE i = n + 1
      <4>1. j \notin 1 .. n
        BY <2>4, <3>1, <3>2, <3>3
      <4> QED BY <1>1, <3>3, <4>1
    <3>4. CASE j = n + 1
      <4>1. i \notin 1 .. n
        BY <2>4, <3>1, <3>2, <3>4
      <4> QED BY <1>1, <3>4, <4>1
    <3>5. CASE i \in 1 .. n /\ j \in 1 .. n
      BY <1>6, <2>4, <3>5 DEF LinkerInv, ObjectsOK, n
    <3>6. i \in 1 .. n \/ i = n + 1
      BY <1>1
    <3>7. j \in 1 .. n \/ j = n + 1
      BY <1>1
    <3> QED BY <3>3, <3>4, <3>5, <3>6, <3>7
  <2> QED BY <1>6, <2>2, <2>3, <2>4 DEF ObjectsOK
<1>11. MapsApart'
  <2> SUFFICES ASSUME NEW i \in 2 .. n + 1, NEW j \in 2 .. n + 1, i < j,
                      objects'[i].file \notin Fixed, objects'[j].file \notin Fixed
               PROVE  objects'[i].base + Size(objects'[i].file) <= objects'[j].base
    BY <1>6 DEF MapsApart
  <2>1. CASE j = n + 1
    <3>1. i \in 2 .. n /\ i \in 1 .. n
      BY <1>1, <2>1
    <3> QED BY <1>5, <1>6, <2>1, <3>1 DEF LinkerInv, ObjectsOK, n
  <2>2. CASE j # n + 1
    <3>1. i \in 2 .. n /\ j \in 2 .. n /\ i \in 1 .. n /\ j \in 1 .. n
      <4>1. n \in Nat
        BY <1>1
      <4> QED BY <2>2, <4>1, NotLast
    <3> QED BY <1>6, <3>1 DEF LinkerInv, MapsApart, n
  <2> QED BY <2>1, <2>2
<1>12. NeededOnly'
  <2> SUFFICES ASSUME NEW S \in SUBSET Files, Closed(S), NEW i \in 2 .. n + 1
               PROVE  objects'[i].file \in S
    BY <1>0, <1>6 DEF NeededOnly, Closed
  <2>0. \A j \in 2 .. n : objects[j].file \in S
    BY DEF LinkerInv, NeededOnly, n
  <2>1. objects[at].file \in S \cup {Main}
    BY <1>1, <2>0 DEF LinkerInv, ObjectsOK
  <2>2. dep \in 1 .. Len(needed[objects[at].file])
    BY <1>1, <1>3 DEF Needed
  <2>3. name \in S
    BY <2>1, <2>2 DEF Closed, Needed
  <2>4. CASE i = n + 1
    BY <1>5, <1>6, <2>3, <2>4
  <2>5. CASE i # n + 1
    <3>1. i \in 2 .. n /\ i \in 1 .. n
      BY <1>1, <2>5
    <3> QED BY <1>6, <2>0, <3>1
  <2> QED BY <2>4, <2>5
<1>13. EntriesLoaded'
  <2>1. ASSUME NEW f, LoadedLibrary(f) PROVE LoadedLibrary(f)'
    <3>1. PICK j \in 2 .. n : objects[j].file = f
      BY <2>1 DEF LoadedLibrary, n
    <3>2. j \in 1 .. n /\ j \in 2 .. n + 1
      BY <1>1, <3>1
    <3> QED BY <1>6, <3>1, <3>2 DEF LoadedLibrary
  <2>2. LoadedLibrary(name)'
    <3>1. n + 1 \in 2 .. Len(objects')
      BY <1>1, <1>6
    <3> QED BY <1>5, <1>6, <3>1 DEF LoadedLibrary
  <2>3. \A i \in 1 .. n : Needed(i)' = Needed(i)
    BY <1>0, <1>6 DEF Needed
  <2>4. ASSUME NEW d \in 1 .. dep' - 1 PROVE LoadedLibrary(Resolve(Needed(at)[d]))'
    <3>0. dep' - 1 = dep
      BY <1>1
    <3>1. CASE d = dep
      <4>1. Resolve(Needed(at)[d])' = name
        BY <1>1, <2>3, <3>1
      <4> QED BY <2>2, <4>1
    <3>2. CASE d \in 1 .. dep - 1
      <4>1. LoadedLibrary(Resolve(Needed(at)[d]))
        BY <3>2 DEF LinkerInv, EntriesLoaded
      <4>2. Resolve(Needed(at)[d])' = Resolve(Needed(at)[d])
        BY <1>1, <2>3
      <4> QED BY <2>1, <4>1, <4>2
    <3> QED BY <1>1, <3>0, <3>1, <3>2
  <2>5. ASSUME NEW i \in 1 .. at - 1, NEW d \in 1 .. Len(Needed(i)) PROVE LoadedLibrary(Resolve(Needed(i)[d]))'
    <3>1. LoadedLibrary(Resolve(Needed(i)[d]))
      BY <2>5 DEF LinkerInv, EntriesLoaded
    <3>2. i \in 1 .. n
      BY <1>1
    <3>3. Resolve(Needed(i)[d])' = Resolve(Needed(i)[d])
      BY <2>3, <3>2
    <3> QED BY <2>1, <3>1, <3>3
  <2>6. at <= Len(objects') /\ dep' <= Len(Needed(at)) + 1
    BY <1>1, <1>3, <1>6 DEF n
  <2> QED BY <1>1, <2>3, <2>4, <2>5, <2>6 DEF EntriesLoaded
<1>14. ProgramOK' /\ AllLoaded' /\ BindsFirst' /\ Phases'
  BY <1>0, <1>8 DEF LinkerInv, ProgramOK, AllLoaded, BindsFirst, Phases
<1> QED BY <1>9, <1>10, <1>11, <1>12, <1>13, <1>14 DEF LinkerInv

LEMMA DependencyStep ==
    ASSUME LinkerAssumption, LinkerInv, LoadDependency
    PROVE  LinkerInv'
<1>1. pc = "load" /\ at <= Len(objects) /\ dep <= Len(Needed(at))
  BY DEF LoadDependency
<1>2. PICK name : name = Resolve(Needed(at)[dep])
  OBVIOUS
<1>3. CASE Loaded(name)
  BY <1>1, <1>2, <1>3, SkipStep DEF LoadDependency
<1>4. CASE ~Loaded(name) /\ (name \notin Files \ Broken \/ Len(objects) >= MaxObjects)
  BY <1>1, <1>2, <1>4, FatalStep DEF LoadDependency
<1>5. CASE ~Loaded(name) /\ name \in Files \ Broken /\ ~(Len(objects) >= MaxObjects)
  <2>1. /\ objects' = objects \o <<[file |-> name, base |-> BaseOf(name)]>>
        /\ nextLibraryBase' = BaseAfter(name) /\ dep' = dep + 1
        /\ UNCHANGED <<program, pc, at, bound, source, protected, initialised>>
    BY <1>2, <1>5 DEF LoadDependency
  <2>2. Len(objects) < MaxObjects
    BY <1>5 DEF LinkerInv, TypeOK, LinkerAssumption
  <2> QED BY <1>1, <1>2, <1>5, <2>1, <2>2, MapStep
<1> QED BY <1>3, <1>4, <1>5

\* When the last object's entries are passed, what is loaded is closed under
\* needing, and no closed set lacks any of it.
LEMMA NextObjectStep ==
    ASSUME LinkerAssumption, LinkerInv, NextObject
    PROVE  LinkerInv'
<1>0. /\ pc = "load" /\ at <= Len(objects) /\ dep > Len(Needed(at))
      /\ at' = at + 1 /\ dep' = 1
      /\ pc' = IF at = Len(objects) THEN "relocate" ELSE "load"
      /\ UNCHANGED <<needed, definers, weak, copied, objects, nextLibraryBase, bound, source, protected, initialised>>
  BY DEF NextObject, program
<1>1. /\ at \in 1 .. Len(objects) /\ Len(objects) \in Nat \ {0} /\ objects \in Seq(Loads)
      /\ Len(objects) <= MaxObjects /\ MaxObjects \in Nat /\ MaxNeeded \in Nat /\ dep \in Nat
  BY <1>0 DEF LinkerInv, TypeOK, Loads, LinkerAssumption
<1>2. \A i \in 1 .. Len(objects) : objects[i].file \in Objects
  <2>1. \A i \in 1 .. Len(objects) : objects[i] \in Loads
    BY <1>1
  <2>2. \A x \in Loads : x.file \in Objects
    BY DEF Loads
  <2> QED BY <2>1, <2>2
<1>3. \A i \in 1 .. Len(objects) : Len(Needed(i)) \in Nat
  <2>1. \A i \in 1 .. Len(objects) : Needed(i) \in Seq(Names)
    BY <1>2 DEF Needed, LinkerInv, ProgramOK
  <2> QED BY <2>1
<1>4. TypeOK'
  <2>1. at' \in 1 .. MaxObjects + 1 /\ dep' \in 1 .. MaxNeeded + 1
    BY <1>0, <1>1
  <2> QED BY <1>0, <2>1 DEF LinkerInv, TypeOK
<1>5. \A i \in 1 .. at : \A d \in 1 .. Len(Needed(i)) : LoadedLibrary(Resolve(Needed(i)[d]))
  <2> SUFFICES ASSUME NEW i \in 1 .. at, NEW d \in 1 .. Len(Needed(i))
               PROVE  LoadedLibrary(Resolve(Needed(i)[d]))
    OBVIOUS
  <2>1. CASE i = at
    <3>1. d \in 1 .. dep - 1
      BY <1>0, <1>1, <1>3, <2>1
    <3> QED BY <1>0, <2>1, <3>1 DEF LinkerInv, EntriesLoaded
  <2>2. CASE i # at
    <3>1. i \in 1 .. at - 1
      BY <1>1, <2>2
    <3> QED BY <1>0, <3>1 DEF LinkerInv, EntriesLoaded
  <2> QED BY <2>1, <2>2
<1>6. \A i : Needed(i)' = Needed(i)
  BY <1>0 DEF Needed
<1>7. \A f : LoadedLibrary(f)' = LoadedLibrary(f)
  BY <1>0 DEF LoadedLibrary
<1>8. EntriesLoaded'
  <2> SUFFICES ASSUME at # Len(objects)
               PROVE  EntriesLoaded'
    BY <1>0 DEF EntriesLoaded
  <2>1. at' \in 1 .. Len(objects) /\ at' - 1 = at /\ 1 .. dep' - 1 = {}
    BY <1>0, <1>1
  <2>2. dep' <= Len(Needed(at')) + 1
    BY <1>0, <1>3, <2>1
  <2> QED BY <1>0, <1>5, <1>6, <1>7, <2>1, <2>2 DEF EntriesLoaded
<1>9. AllLoaded'
  <2> SUFFICES ASSUME at = Len(objects)
               PROVE  {objects[i].file : i \in 2 .. Len(objects)} = Reachable
    <3>1. Reachable' = Reachable
      BY <1>0 DEF Reachable
    <3>2. pc' \in {"load", "relocate"} /\ (pc' = "relocate" => at = Len(objects))
      BY <1>0
    <3> QED BY <1>0, <3>1, <3>2 DEF AllLoaded
  <2> DEFINE F == {objects[i].file : i \in 2 .. Len(objects)}
  <2>1. Reachable = {f \in Files : \A S \in SUBSET Files : Closed(S) => f \in S}
    BY DEF Reachable, Closed
  <2>2. F \subseteq Files
    BY DEF LinkerInv, ObjectsOK
  <2>3. Closed(F)
    <3> SUFFICES ASSUME NEW o \in F \cup {Main}, NEW d \in 1 .. Len(needed[o])
                 PROVE  Resolve(needed[o][d]) \in F
      BY DEF Closed
    <3>1. PICK i \in 1 .. Len(objects) : objects[i].file = o
      BY <1>1 DEF LinkerInv, ObjectsOK
    <3>2. LoadedLibrary(Resolve(needed[o][d]))
      BY <1>5, <3>1 DEF Needed
    <3> QED BY <3>2 DEF LoadedLibrary
  <2>4. \A S \in SUBSET Files : Closed(S) => F \subseteq S
    BY DEF LinkerInv, NeededOnly
  <2> HIDE DEF F
  <2>5. F = Reachable
    BY <2>1, <2>2, <2>3, <2>4
  <2> QED BY <2>5 DEF F
<1>10. ProgramOK' /\ ObjectsOK' /\ MapsApart' /\ NeededOnly'
  BY <1>0 DEF LinkerInv, ProgramOK, ObjectsOK, MapsApart, NeededOnly, Closed
<1>11. BindsFirst'
  BY <1>0, BindsStay DEF LinkerInv
<1>12. Phases'
  <2>1. Len(bound) = 0 /\ initialised = <<>> /\ protected = {} /\ bound = <<>>
    BY <1>0 DEF LinkerInv, Phases
  <2> QED BY <1>0, <1>1, <2>1 DEF Phases
<1> QED BY <1>4, <1>8, <1>9, <1>10, <1>11, <1>12 DEF LinkerInv

-----------------------------------------------------------------------------
(* Relocating, protecting, initialising.                                    *)

\* What does not touch the objects leaves what was loaded.
LEMMA ObjectsStay ==
    ASSUME LinkerInv, pc # "load", pc' # "load", pc' \in {"relocate", "protect", "init", "entered"} => pc # "fatal",
           pc \in {"relocate", "protect", "init", "entered", "fatal"},
           UNCHANGED <<needed, definers, weak, copied, objects, nextLibraryBase>>
    PROVE  ProgramOK' /\ ObjectsOK' /\ MapsApart' /\ NeededOnly' /\ EntriesLoaded' /\ AllLoaded'
<1>1. ProgramOK' /\ ObjectsOK' /\ MapsApart' /\ NeededOnly' /\ EntriesLoaded'
  BY DEF LinkerInv, ProgramOK, ObjectsOK, MapsApart, NeededOnly, Closed, EntriesLoaded
<1>2. Reachable' = Reachable
  BY DEF Reachable
<1>3. AllLoaded'
  BY <1>2 DEF LinkerInv, AllLoaded
<1> QED BY <1>1, <1>3

LEMMA RelocateStep ==
    ASSUME LinkerAssumption, LinkerInv, RelocateObject
    PROVE  LinkerInv'
<1> DEFINE first == [s \in Symbols |-> Lookup(s, 0)]
<1>0. pc = "relocate"
  BY DEF RelocateObject
<1>1. CASE Fatal
  BY <1>0, <1>1, FatalStep
<1>2. CASE ~Fatal
  <2>1. /\ ~(Current = 1 /\ \E s \in copied : Lookup(s, 1) = 0)
        /\ bound' = bound \o <<first>>
        /\ source' = IF Current = 1 THEN [s \in Symbols |-> IF s \in copied THEN Lookup(s, 1) ELSE 0] ELSE source
        /\ pc' = IF Current = Len(objects) THEN "protect" ELSE "relocate"
        /\ at' = IF Current = Len(objects) THEN 2 ELSE at
        /\ UNCHANGED <<needed, definers, weak, copied, objects, nextLibraryBase, dep, protected, initialised>>
    BY <1>2 DEF RelocateObject, Bind, program
  <2>2. /\ Len(objects) \in Nat \ {0} /\ Len(objects) <= MaxObjects /\ MaxObjects \in Nat
        /\ bound \in Seq([Symbols -> 0 .. Len(objects)]) /\ Len(bound) < Len(objects)
        /\ protected = {} /\ initialised = <<>>
    BY <1>0 DEF LinkerInv, TypeOK, Phases, LinkerAssumption
  <2>3. \A s \in Symbols : Lookup(s, 0) \in 0 .. Len(objects) /\ Lookup(s, 1) \in 0 .. Len(objects)
    BY <2>2, LookupFinds
  <2>4. first \in [Symbols -> 0 .. Len(objects)]
    BY <2>3
  <2> HIDE DEF first
  <2>5. /\ bound' \in Seq([Symbols -> 0 .. Len(objects)]) /\ Len(bound') = Len(bound) + 1
        /\ bound'[Len(bound) + 1] = first
        /\ \A i \in 1 .. Len(bound) : bound'[i] = bound[i]
    BY <2>1, <2>2, <2>4, Grown
  <2>6. Len(bound) \in Nat
    BY <2>2
  <2>7. TypeOK'
    <3>1. source' \in [Symbols -> 0 .. Len(objects)]
      <4>1. source \in [Symbols -> 0 .. Len(objects)]
        BY DEF LinkerInv, TypeOK
      <4>2. [s \in Symbols |-> IF s \in copied THEN Lookup(s, 1) ELSE 0] \in [Symbols -> 0 .. Len(objects)]
        BY <2>2, <2>3
      <4> QED BY <2>1, <4>1, <4>2
    <3>2. at' \in 1 .. MaxObjects + 1 /\ pc' \in {"protect", "relocate"}
      BY <2>1, <2>2 DEF LinkerInv, TypeOK
    <3> QED BY <2>1, <2>5, <3>1, <3>2 DEF LinkerInv, TypeOK
  <2>8. BindsFirst'
    <3>1. \A s : Lookup(s, 0)' = Lookup(s, 0) /\ Lookup(s, 1)' = Lookup(s, 1)
      BY <2>1 DEF Lookup
    <3>2. \A i \in 1 .. Len(bound) + 1 : bound'[i] = first
      <4>1. \A i \in 1 .. Len(bound) : bound[i] = first
        BY DEF LinkerInv, BindsFirst, first
      <4>2. \A i \in 1 .. Len(bound) + 1 : i \in 1 .. Len(bound) \/ i = Len(bound) + 1
        BY <2>6
      <4>3. bound'[Len(bound) + 1] = first /\ \A i \in 1 .. Len(bound) : bound'[i] = bound[i]
        BY <2>5
      <4> QED BY <4>1, <4>2, <4>3, Zenon
    <3>3. \A s \in copied : source'[s] = Lookup(s, 1) /\ Lookup(s, 1) # 0
      <4>0. copied \subseteq Symbols
        BY DEF LinkerInv, ProgramOK
      <4>1. CASE Current = 1
        BY <2>1, <4>0, <4>1
      <4>2. CASE Current # 1
        <5>1. bound # <<>>
          BY <2>6, <4>2 DEF Current
        <5> QED BY <2>1, <4>2, <5>1 DEF LinkerInv, BindsFirst
      <4> QED BY <4>1, <4>2
    <3>4. first = [s \in Symbols |-> Lookup(s, 0)']
      BY <3>1 DEF first
    <3> QED BY <2>1, <2>5, <3>1, <3>2, <3>3, <3>4 DEF BindsFirst
  <2>9. Phases'
    <3>1. CASE Current = Len(objects)
      <4>1. Len(bound') = Len(objects) /\ pc' = "protect" /\ at' = 2
        BY <2>1, <2>5, <3>1 DEF Current
      <4> QED BY <2>1, <2>2, <4>1 DEF Phases
    <3>2. CASE Current # Len(objects)
      <4>1. Len(bound') < Len(objects) /\ pc' = "relocate"
        BY <2>1, <2>2, <2>5, <2>6, <3>2 DEF Current
      <4> QED BY <2>1, <2>2, <4>1 DEF Phases
    <3> QED BY <3>1, <3>2
  <2>10. ProgramOK' /\ ObjectsOK' /\ MapsApart' /\ NeededOnly' /\ EntriesLoaded' /\ AllLoaded'
    <3>1. pc' \in {"protect", "relocate"}
      BY <2>1
    <3> QED BY <1>0, <2>1, <3>1, ObjectsStay
  <2> QED BY <2>7, <2>8, <2>9, <2>10 DEF LinkerInv
<1> QED BY <1>1, <1>2

LEMMA ProtectStep ==
    ASSUME LinkerAssumption, LinkerInv, ProtectObject
    PROVE  LinkerInv'
<1>0. /\ pc = "protect"
      /\ UNCHANGED <<needed, definers, weak, copied, objects, nextLibraryBase, dep, bound, source, initialised>>
  BY DEF ProtectObject, program
<1>1. /\ Len(objects) \in Nat \ {0} /\ Len(objects) <= MaxObjects /\ MaxObjects \in Nat
      /\ at \in 2 .. Len(objects) + 1 /\ protected = 2 .. at - 1 /\ initialised = <<>>
      /\ Len(bound) = Len(objects)
  BY <1>0 DEF LinkerInv, TypeOK, Phases, LinkerAssumption
<1>2. \/ at <= Len(objects) /\ protected' = protected \cup {at} /\ at' = at + 1 /\ pc' = "protect"
      \/ ~(at <= Len(objects)) /\ at' = 2 /\ pc' = "init" /\ protected' = protected
  BY <1>0 DEF ProtectObject
<1>3. /\ at' \in 2 .. Len(objects) + 1
      /\ pc' = "protect" => protected' = 2 .. at' - 1
      /\ pc' = "init" => protected' = 2 .. Len(objects) /\ at' = 2
      /\ pc' \in {"protect", "init"}
  <2>1. CASE at <= Len(objects)
    <3>1. protected' = (2 .. at - 1) \cup {at} /\ at' = at + 1 /\ pc' = "protect"
      BY <1>1, <1>2, <2>1
    <3> QED BY <1>1, <2>1, <3>1
  <2>2. CASE ~(at <= Len(objects))
    BY <1>1, <1>2, <2>2
  <2> QED BY <2>1, <2>2
<1>4. TypeOK'
  <2>1. at' \in 1 .. MaxObjects + 1 /\ protected' \in SUBSET (2 .. Len(objects))
    BY <1>1, <1>3
  <2> QED BY <1>0, <1>3, <2>1 DEF LinkerInv, TypeOK
<1>5. Phases'
  <2>1. CASE pc' = "protect"
    BY <1>0, <1>1, <1>3, <2>1 DEF Phases
  <2>2. CASE pc' = "init"
    BY <1>0, <1>1, <1>3, <2>2 DEF Phases
  <2> QED BY <1>3, <2>1, <2>2
<1>6. BindsFirst'
  BY <1>0, BindsStay DEF LinkerInv
<1>7. ProgramOK' /\ ObjectsOK' /\ MapsApart' /\ NeededOnly' /\ EntriesLoaded' /\ AllLoaded'
  BY <1>0, <1>3, ObjectsStay
<1> QED BY <1>4, <1>5, <1>6, <1>7 DEF LinkerInv

LEMMA InitStep ==
    ASSUME LinkerAssumption, LinkerInv, RunInit
    PROVE  LinkerInv'
<1>0. /\ pc = "init"
      /\ UNCHANGED <<needed, definers, weak, copied, objects, nextLibraryBase, dep, bound, source, protected>>
  BY DEF RunInit, program
<1>1. /\ Len(objects) \in Nat \ {0} /\ Len(objects) <= MaxObjects /\ MaxObjects \in Nat
      /\ at \in 2 .. Len(objects) + 1 /\ protected = 2 .. Len(objects)
      /\ Len(bound) = Len(objects)
      /\ initialised \in Seq(1 .. Len(objects)) /\ Len(initialised) = at - 2
      /\ \A k \in 1 .. at - 2 : initialised[k] = k + 1
  BY <1>0 DEF LinkerInv, TypeOK, Phases, LinkerAssumption
<1>2. PICK e \in 1 .. Len(objects) :
         /\ initialised' = initialised \o <<e>>
         /\ \/ at <= Len(objects) /\ e = at /\ at' = at + 1 /\ pc' = "init"
            \/ ~(at <= Len(objects)) /\ e = 1 /\ at' = at /\ pc' = "entered"
  <2>1. CASE at <= Len(objects)
    <3>1. initialised' = initialised \o <<at>> /\ at' = at + 1 /\ pc' = "init"
      BY <1>0, <2>1 DEF RunInit
    <3>2. at \in 1 .. Len(objects)
      BY <1>1, <2>1
    <3> QED BY <2>1, <3>1, <3>2
  <2>2. CASE ~(at <= Len(objects))
    <3>1. initialised' = initialised \o <<1>> /\ at' = at /\ pc' = "entered"
      BY <2>2 DEF RunInit
    <3>2. 1 \in 1 .. Len(objects)
      BY <1>1
    <3> QED BY <2>2, <3>1, <3>2
  <2> QED BY <2>1, <2>2
<1>3. /\ initialised' \in Seq(1 .. Len(objects)) /\ Len(initialised') = Len(initialised) + 1
      /\ initialised'[Len(initialised) + 1] = e
      /\ \A k \in 1 .. Len(initialised) : initialised'[k] = initialised[k]
  <2>1. PICK S : S = 1 .. Len(objects)
    OBVIOUS
  <2>2. initialised \in Seq(S) /\ initialised' = initialised \o <<e>> /\ e \in S
    BY <1>1, <1>2, <2>1
  <2>3. /\ initialised' \in Seq(S) /\ Len(initialised') = Len(initialised) + 1
        /\ initialised'[Len(initialised) + 1] = e
        /\ \A k \in 1 .. Len(initialised) : initialised'[k] = initialised[k]
    BY <2>2, Grown
  <2> QED BY <2>1, <2>3
<1>4. /\ Len(initialised') = at - 1 /\ initialised'[at - 1] = e
      /\ \A k \in 1 .. at - 2 : initialised'[k] = k + 1
  BY <1>1, <1>3
<1>5. at' \in 2 .. Len(objects) + 1 /\ pc' \in {"init", "entered"}
  BY <1>1, <1>2
<1>6. TypeOK'
  <2>1. at' \in 1 .. MaxObjects + 1
    BY <1>1, <1>5
  <2> QED BY <1>0, <1>3, <1>5, <2>1 DEF LinkerInv, TypeOK
<1>7. Phases'
  <2>1. CASE at <= Len(objects)
    <3>1. pc' = "init" /\ at' = at + 1 /\ e = at
      BY <1>2, <2>1
    <3>2. Len(initialised') = at' - 2 /\ \A k \in 1 .. at' - 2 : initialised'[k] = k + 1
      BY <1>1, <1>4, <3>1
    <3> QED BY <1>0, <1>1, <1>5, <3>1, <3>2 DEF Phases
  <2>2. CASE ~(at <= Len(objects))
    <3>1. pc' = "entered" /\ e = 1 /\ at = Len(objects) + 1
      BY <1>1, <1>2, <2>2
    <3>2. /\ Len(initialised') = Len(objects) /\ initialised'[Len(objects)] = 1
          /\ \A k \in 1 .. Len(objects) - 1 : initialised'[k] = k + 1
      BY <1>1, <1>4, <3>1
    <3> QED BY <1>0, <1>1, <3>1, <3>2 DEF Phases
  <2> QED BY <2>1, <2>2
<1>8. BindsFirst'
  BY <1>0, BindsStay DEF LinkerInv
<1>9. ProgramOK' /\ ObjectsOK' /\ MapsApart' /\ NeededOnly' /\ EntriesLoaded' /\ AllLoaded'
  BY <1>0, <1>5, ObjectsStay
<1> QED BY <1>6, <1>7, <1>8, <1>9 DEF LinkerInv

LEMMA LinkerStepSafe ==
    ASSUME LinkerAssumption, LinkerInv, [Next]_vars
    PROVE  LinkerInv'
<1>1. CASE Step
  BY <1>1, DependencyStep, NextObjectStep, RelocateStep, ProtectStep, InitStep DEF Step
<1>2. CASE Done \/ UNCHANGED vars
  <2>0. UNCHANGED <<needed, definers, weak, copied, objects, nextLibraryBase, pc, at, dep, bound, source, protected,
                    initialised>>
    BY <1>2 DEF Done, vars, program
  <2>1. TypeOK' /\ ProgramOK' /\ ObjectsOK' /\ MapsApart' /\ NeededOnly'
    BY <2>0 DEF LinkerInv, TypeOK, ProgramOK, ObjectsOK, MapsApart, NeededOnly, Closed
  <2>2. EntriesLoaded'
    <3>1. \A f : LoadedLibrary(f)' = LoadedLibrary(f)
      BY <2>0 DEF LoadedLibrary
    <3>2. \A i : Needed(i)' = Needed(i)
      BY <2>0 DEF Needed
    <3> QED BY <2>0, <3>1, <3>2 DEF LinkerInv, EntriesLoaded
  <2>3. AllLoaded'
    <3>1. Reachable' = Reachable
      BY <2>0 DEF Reachable
    <3> QED BY <2>0, <3>1 DEF LinkerInv, AllLoaded
  <2>4. BindsFirst'
    BY <2>0, BindsStay DEF LinkerInv
  <2>5. Phases'
    BY <2>0 DEF LinkerInv, Phases
  <2> QED BY <2>1, <2>2, <2>3, <2>4, <2>5 DEF LinkerInv
<1> QED BY <1>1, <1>2 DEF Next

LEMMA LinkerAlways == Spec => []LinkerInv
<1>1. Init => LinkerInv
  BY LinkerAssumption, LinkerStarts
<1>2. LinkerInv /\ [Next]_vars => LinkerInv'
  BY LinkerAssumption, LinkerStepSafe
<1> QED BY <1>1, <1>2, PTL DEF Spec

-----------------------------------------------------------------------------
\* main.cpp:460: when loading ends, the libraries loaded are those the program
\* needs, directly or not, each once unless its name was cut; and initialisers
\* run once each, the program's last, when all is relocated and protected.
THEOREM LibrariesLoadOnce == Spec => []LoadsEachOnce
<1>1. LinkerInv => LoadsEachOnce
  <2> SUFFICES ASSUME LinkerInv PROVE LoadsEachOnce
    OBVIOUS
  <2>1. Len(objects) \in Nat \ {0}
    BY DEF LinkerInv, TypeOK
  <2>2. InitialisesLast
    <3>1. CASE pc \in {"load", "relocate", "protect", "fatal"}
      <4>1. initialised = <<>> /\ pc # "entered"
        BY <3>1 DEF LinkerInv, Phases
      <4> QED BY <4>1 DEF InitialisesLast
    <3>2. CASE pc = "init"
      <4>1. /\ Len(bound) = Len(objects) /\ protected = 2 .. Len(objects) /\ at \in 2 .. Len(objects) + 1
            /\ Len(initialised) = at - 2 /\ \A k \in 1 .. at - 2 : initialised[k] = k + 1
        BY <3>2 DEF LinkerInv, Phases
      <4> QED BY <2>1, <3>2, <4>1 DEF InitialisesLast
    <3>3. CASE pc = "entered"
      <4>1. /\ Len(bound) = Len(objects) /\ protected = 2 .. Len(objects)
            /\ Len(initialised) = Len(objects) /\ initialised[Len(objects)] = 1
            /\ \A k \in 1 .. Len(objects) - 1 : initialised[k] = k + 1
        BY <3>3 DEF LinkerInv, Phases
      <4>2. \A k \in 1 .. Len(objects) : k # Len(objects) => initialised[k] = k + 1
        BY <2>1, <4>1
      <4> QED BY <2>1, <3>3, <4>1, <4>2 DEF InitialisesLast
    <3> QED BY <3>1, <3>2, <3>3 DEF LinkerInv, TypeOK
  <2> QED BY <2>2 DEF LinkerInv, LoadsEachOnce, AllLoaded, ObjectsOK
<1> QED BY <1>1, LinkerAlways, PTL

\* No two position-independent libraries overlap in memory, whatever their
\* sizes, the stride and the fixed ones loaded between them.
THEOREM LibrariesMapApart == Spec => []MapsApart
<1>1. LinkerInv => MapsApart
  BY DEF LinkerInv
<1> QED BY <1>1, LinkerAlways, PTL

\* lookupSymbol(): all objects agree which definition a symbol stands for, and a
\* copy relocation's is the program's own, filled from a library.
THEOREM SymbolsHaveOneDefinition == Spec => []OneDefinition
<1>1. LinkerInv => OneDefinition
  <2> SUFFICES ASSUME LinkerInv PROVE OneDefinition
    OBVIOUS
  <2>1. /\ \A i \in 1 .. Len(bound) : bound[i] = [s \in Symbols |-> Lookup(s, 0)]
        /\ bound # <<>> => \A s \in copied : source[s] = Lookup(s, 1) /\ Lookup(s, 1) # 0
    BY DEF LinkerInv, BindsFirst
  <2>2. Len(objects) \in Nat \ {0} /\ bound \in Seq([Symbols -> 0 .. Len(objects)])
    BY DEF LinkerInv, TypeOK
  <2>3. ASSUME bound # <<>>, NEW s \in copied PROVE bound[1][s] = 1 /\ source[s] > 1
    <3>1. s \in Symbols /\ objects[1].file \in definers[s]
      BY DEF LinkerInv, ProgramOK, ObjectsOK
    <3>2. Lookup(s, 0) = 1
      BY <2>2, <3>1, LookupFinds
    <3>3. Lookup(s, 1) \in 0 .. Len(objects) /\ Lookup(s, 1) # 1
      BY <2>1, <2>2, <2>3, <3>1, LookupFinds
    <3>4. 1 \in 1 .. Len(bound)
      BY <2>2, <2>3
    <3>5. bound[1] = [r \in Symbols |-> Lookup(r, 0)]
      BY <2>1, <3>4
    <3>6. bound[1][s] = 1
      BY <3>1, <3>2, <3>5
    <3>7. source[s] = Lookup(s, 1) /\ Lookup(s, 1) # 0
      BY <2>1, <2>3
    <3>8. source[s] > 1
      BY <2>2, <3>3, <3>7
    <3> QED BY <3>6, <3>8
  <2> QED BY <2>1, <2>3 DEF OneDefinition
<1> QED BY <1>1, LinkerAlways, PTL
=============================================================================
