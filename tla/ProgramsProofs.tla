---------------------------- MODULE ProgramsProofs ----------------------------
(***************************************************************************)
(* Proofs about the programs on and behind the desktop: session start with *)
(* its one-shot script, for any number of scripts and starts of the        *)
(* machine, and log-saver, for every size of the ring and of the anchor,   *)
(* every number of boots, failures and bytes logged; and the Back, Forward *)
(* and list of the file browser, for every tree and depth of the history.  *)
(***************************************************************************)
EXTENDS Programs, FiniteSetTheorems, SequenceTheorems, NaturalsInduction, WellFoundedInduction, TLAPS

(***************************************************************************)
(* Session start                                                           *)
(***************************************************************************)
LoginPcs == {"input", "login", "compositor", "await", "stat", "unlink", "rename", "sleep", "done", "failed"}

LoginTypeOK ==
    /\ starts \in Nat \ {0}
    /\ scripts \in [sh : SUBSET Scripts, old : SUBSET Scripts]
    /\ login \in [pc : LoginPcs, tries : Nat]
    /\ bash \in {"none", "opening", "open"}
    /\ ran \in [Scripts -> Nat]
    /\ moved \in [Scripts -> Nat]

\* A script runs only after it was renamed, and what is in /autorun.sh was not.
RunsOnceMoved ==
    /\ \A s \in Scripts : moved[s] = 0 => ran[s] = 0
    /\ \A s \in scripts.sh : moved[s] = 0

\* From the rename to bash, /autorun.old holds what was renamed in this start;
\* login is through when bash is there.
OldIsOfThisStart ==
    /\ login.pc # "done" => bash = "none"
    /\ login.pc = "sleep" => \A s \in scripts.old : moved[s] = starts /\ ran[s] = 0

LoginInv == LoginTypeOK /\ RunsOnceMoved /\ OldIsOfThisStart /\ AutorunOnce

LEMMA LoginInitInv == LoginInit => LoginInv
BY DEF LoginInit, LoginInv, LoginTypeOK, LoginPcs, Fresh, RunsOnceMoved, OldIsOfThisStart, AutorunOnce

LEMMA LoginNextInv == LoginInv /\ [LoginNext]_loginVars => LoginInv'
<1> SUFFICES ASSUME LoginInv, [LoginNext]_loginVars PROVE LoginInv'
  OBVIOUS
<1> USE DEF LoginInv
\* Steps of login that touch no script.
<1>a. ASSUME UNCHANGED <<starts, scripts, bash, ran, moved>>, login' \in [pc : LoginPcs, tries : Nat],
             login.pc \notin {"sleep", "done"}, login'.pc # "sleep"
      PROVE  LoginInv'
  BY <1>a DEF LoginTypeOK, RunsOnceMoved, OldIsOfThisStart, AutorunOnce
<1>b. ASSUME NEW name, NEW found \in LoginPcs \ {"sleep"}, NEW otherwise \in LoginPcs \ {"sleep"},
             Try(name, found, otherwise), login.pc \notin {"sleep", "done"}
      PROVE  LoginInv'
  <2>1. PICK tries \in Nat : tries = login.tries + 1
    BY DEF LoginTypeOK
  <2>2. \/ login' = [pc |-> found, tries |-> 0] \/ login' = [pc |-> otherwise, tries |-> 0]
        \/ login' = [login EXCEPT !.tries = tries]
    BY <1>b, <2>1 DEF Try, LoginGoes
  <2>3. login' \in [pc : LoginPcs, tries : Nat] /\ login'.pc # "sleep"
    BY <1>b, <2>2 DEF LoginTypeOK
  <2> QED BY <1>a, <1>b, <2>3 DEF Try, LoginGoes
<1>c. ASSUME NEW step \in LoginPcs, LoginGoes(step)
      PROVE  login' \in [pc : LoginPcs, tries : Nat] /\ login'.pc = step /\ UNCHANGED <<starts, ran>>
  BY <1>c DEF LoginGoes
<1>1. CASE ScriptWritten
  <2>1. PICK s \in Scripts \ Written : scripts' = [scripts EXCEPT !.sh = {s}]
    BY <1>1 DEF ScriptWritten
  <2>2. moved[s] = 0 /\ ran[s] = 0
    BY <2>1 DEF Written, RunsOnceMoved
  <2>3. scripts' \in [sh : SUBSET Scripts, old : SUBSET Scripts] /\ scripts'.sh = {s} /\ scripts'.old = scripts.old
    BY <2>1 DEF LoginTypeOK
  <2> QED BY <1>1, <2>2, <2>3 DEF ScriptWritten, LoginTypeOK, RunsOnceMoved, OldIsOfThisStart, AutorunOnce
<1>2. CASE GoesDown
  <2>1. starts' \in Nat \ {0} /\ login' = Fresh /\ bash' = "none" /\ UNCHANGED <<scripts, ran, moved>>
    BY <1>2 DEF GoesDown, LoginTypeOK
  <2> QED BY <2>1 DEF Fresh, LoginTypeOK, LoginPcs, RunsOnceMoved, OldIsOfThisStart, AutorunOnce
<1>3. CASE UNCHANGED <<starts, scripts, login, bash, ran, moved>>
  BY <1>3 DEF LoginTypeOK, RunsOnceMoved, OldIsOfThisStart, AutorunOnce
<1>4. CASE connectInputManager
  BY <1>4, <1>b DEF connectInputManager, LoginPcs
<1>5. CASE LogIn
  <2>1. PICK step \in {"login", "compositor"} : LoginGoes(step)
    BY <1>5 DEF LogIn
  <2> QED BY <1>5, <1>a, <1>c, <2>1 DEF LogIn, LoginPcs
<1>6. CASE StartCompositor
  <2>1. PICK step \in {"stat", "await", "done"} : LoginGoes(step)
    BY <1>6 DEF StartCompositor
  <2> QED BY <1>6, <1>a, <1>c, <2>1 DEF StartCompositor, LoginPcs
<1>7. CASE waitForService
  BY <1>7, <1>b DEF waitForService, LoginPcs
<1>8. CASE StatScript
  <2>1. PICK step \in {"done", "unlink"} : LoginGoes(step)
    BY <1>8 DEF StatScript
  <2> QED BY <1>8, <1>a, <1>c, <2>1 DEF StatScript, LoginPcs
<1>9. CASE UnlinkOld
  <2>1. /\ scripts' \in [sh : SUBSET Scripts, old : SUBSET Scripts] /\ scripts'.sh = scripts.sh
        /\ UNCHANGED <<starts, bash, ran, moved>>
        /\ login' \in [pc : LoginPcs, tries : Nat] /\ login'.pc = "rename" /\ bash = "none"
    BY <1>9, <1>c DEF UnlinkOld, LoginTypeOK, LoginGoes, LoginPcs, OldIsOfThisStart
  <2> QED BY <2>1 DEF LoginTypeOK, RunsOnceMoved, OldIsOfThisStart, AutorunOnce
<1>10. CASE RenameScript
  <2>1. CASE LoginGoes("done") /\ UNCHANGED <<scripts, moved>>
    BY <1>10, <1>a, <1>c, <2>1 DEF RenameScript, LoginPcs
  <2>2. CASE RenameDone
    <3>1. /\ scripts' \in [sh : SUBSET Scripts, old : SUBSET Scripts]
          /\ scripts'.sh = {} /\ scripts'.old = scripts.sh
      BY <2>2 DEF RenameDone, LoginTypeOK
    <3>2. /\ login' \in [pc : LoginPcs, tries : Nat] /\ login'.pc = "sleep"
          /\ UNCHANGED <<starts, ran, bash>> /\ bash = "none"
      BY <1>10, <1>c, <2>2 DEF RenameScript, RenameDone, LoginPcs, OldIsOfThisStart
    <3>3. /\ moved' \in [Scripts -> Nat]
          /\ \A s \in Scripts : moved'[s] = IF s \in scripts.sh THEN starts ELSE moved[s]
      BY <2>2 DEF RenameDone, LoginTypeOK
    <3> QED BY <3>1, <3>2, <3>3 DEF LoginTypeOK, RunsOnceMoved, OldIsOfThisStart, AutorunOnce
  <2> QED BY <1>10, <2>1, <2>2 DEF RenameScript
<1>11. CASE SpawnBash
  <2>1. /\ login' \in [pc : LoginPcs, tries : Nat] /\ login'.pc = "done"
        /\ UNCHANGED <<starts, ran, scripts, moved>> /\ bash' \in {"none", "opening"}
    BY <1>11, <1>c DEF SpawnBash, LoginPcs
  <2>2. \A s \in scripts.old : moved[s] = starts /\ ran[s] = 0
    BY <1>11 DEF SpawnBash, OldIsOfThisStart
  <2> QED BY <2>1, <2>2 DEF LoginTypeOK, RunsOnceMoved, OldIsOfThisStart, AutorunOnce
<1>12. CASE BashRuns
  <2>1. \A s \in scripts.old : moved[s] = starts /\ ran[s] = 0
    BY <1>12 DEF BashRuns, AutorunOnce
  <2>2. /\ ran' \in [Scripts -> Nat]
        /\ \A s \in Scripts : ran'[s] = IF s \in scripts.old THEN 1 ELSE ran[s]
    BY <1>12, <2>1 DEF BashRuns, LoginTypeOK
  <2>3. bash' = "open" /\ login.pc = "done" /\ UNCHANGED <<starts, scripts, login, moved>>
    BY <1>12 DEF BashRuns, OldIsOfThisStart
  <2> QED BY <2>1, <2>2, <2>3 DEF LoginTypeOK, RunsOnceMoved, OldIsOfThisStart, AutorunOnce
<1> QED
  BY <1>1, <1>2, <1>3, <1>4, <1>5, <1>6, <1>7, <1>8, <1>9, <1>10, <1>11, <1>12
  DEF LoginNext, loginVars, RebootStarts, RebootAsks, ServiceRegisters

\* login/src/main.cpp:62, for any number of scripts and wherever the machine
\* goes down, any number of times: a script is begun at most once.
THEOREM ScriptsRunOnce == LoginSpec => []AutorunOnce
<1>1. LoginSpec => []LoginInv
  BY LoginInitInv, LoginNextInv, PTL DEF LoginSpec
<1>2. LoginInv => AutorunOnce
  BY DEF LoginInv
<1> QED BY <1>1, <1>2, PTL

(***************************************************************************)
(* log-saver: /previous.log                                                *)
(***************************************************************************)

\* Until the log is opened it is the one the boot before left.
OldLogKept == pc \in {"keep", "copy"} => kernelLog = lastBoot

PreviousInv == failures \in Nat /\ OldLogKept /\ PreviousHasStart

LEMMA PreviousInitInv == LogInit => PreviousInv
BY DEF LogInit, PreviousInv, OldLogKept, PreviousHasStart

LEMMA PreviousNextInv == PreviousInv /\ [LogNext]_logVars => PreviousInv'
<1> SUFFICES ASSUME PreviousInv, [LogNext]_logVars PROVE PreviousInv'
  OBVIOUS
<1> USE DEF PreviousInv, OldLogKept, PreviousHasStart
<1>1. CASE OthersLog
  BY <1>1 DEF OthersLog, files
<1>2. CASE KeepPrevious
  BY <1>2 DEF KeepPrevious, Fail
<1>3. CASE CopyPrevious
  BY <1>3 DEF CopyPrevious, Fail
<1>4. CASE OpenLog
  BY <1>4 DEF OpenLog, Fail
<1>5. CASE Heartbeat
  BY <1>5 DEF Heartbeat, files
<1>6. CASE ReadLog
  BY <1>6 DEF ReadLog, Fail, files
<1>7. CASE Write
  BY <1>7 DEF Write
<1>8. CASE WriteFails
  BY <1>8 DEF WriteFails, FailAfterPart, Fail
<1>9. CASE Reboot
  BY <1>9 DEF Reboot
<1>10. CASE UNCHANGED logVars
  BY <1>10 DEF logVars, files
<1> QED BY <1>1, <1>2, <1>3, <1>4, <1>5, <1>6, <1>7, <1>8, <1>9, <1>10 DEF LogNext, Program

\* For every size of the ring and wherever the machine goes down, also while
\* /previous.log is being rewritten: it gets the start of the log of the boot
\* before, if no write failed.
THEOREM PreviousAlwaysHasStart == LogSpec => []PreviousHasStart
<1>1. LogSpec => []PreviousInv
  BY PreviousInitInv, PreviousNextInv, PTL DEF LogSpec
<1>2. PreviousInv => PreviousHasStart
  BY DEF PreviousInv
<1> QED BY <1>1, <1>2, PTL

(***************************************************************************)
(* log-saver: nothing is lost unmarked                                     *)
(***************************************************************************)

Entries == Positions \cup {Lost}

\* A file in which nothing is missing unmarked.
Marked(file) == \A j \in 2 .. Len(file) : Follows(file, j)

\* kernel_log() gave all the ring held when it was full, or all that was logged.
RingPart(part, upto) ==
    /\ part.to \in 1 .. upto
    /\ part.from = IF part.to > RingSize THEN part.to - RingSize + 1 ELSE 1

PartsInOrder ==
    /\ gLog = Empty \/ RingPart(gLog, written)
    /\ gCopy = Empty \/ (RingPart(gCopy, gLog.to) /\ gLog # Empty)
    /\ pc = "write" => gLog # Empty
    /\ pc \in {"keep", "copy", "open"} => gLog = Empty /\ gCopy = Empty

\* No round was misled, nor went on after a part of nothing.
InPlace == ~unanchored /\ ~misled

\* A round that was not misled goes on where it wrote to last.
RightPlace == pc = "write" /\ ~misled => ~Astray(gLog, gCopy)

\* The file ends where the next round begins: at nothing, at a gap line, not
\* before what was last written, or with that already out of the ring.
EndsInPlace ==
    pc \in {"beat", "read", "write"} /\ InPlace =>
        IF gCopy = Empty THEN kernelLog = <<>>
        ELSE kernelLog # <<>> => \/ kernelLog[Len(kernelLog)] = Lost
                                 \/ kernelLog[Len(kernelLog)] >= gCopy.to
                                 \/ ~Reaches(gLog, gCopy)

LogInv == NoSilentLoss /\ PartsInOrder /\ EndsInPlace /\ RightPlace

\* A file stays in order when what is appended is and follows its end.
LEMMA MarkedConcat ==
    ASSUME NEW s \in Seq(Entries), NEW u \in Seq(Entries), Marked(s), Marked(u),
           s # <<>> /\ u # <<>> /\ s[Len(s)] # Lost /\ u[1] # Lost => u[1] <= s[Len(s)] + 1
    PROVE  Marked(s \o u) /\ s \o u \in Seq(Entries)
<1>1. /\ s \o u \in Seq(Entries) /\ Len(s \o u) = Len(s) + Len(u)
      /\ \A i \in 1 .. Len(s) + Len(u) : (s \o u)[i] = IF i <= Len(s) THEN s[i] ELSE u[i - Len(s)]
  BY ConcatProperties
<1>2. Len(s) \in Nat /\ Len(u) \in Nat
  BY LenProperties
<1> DEFINE w == s \o u
<1> HIDE DEF w
<1>3. ASSUME NEW j \in 2 .. Len(s) + Len(u) PROVE Follows(w, j)
  <2>1. CASE j <= Len(s)
    <3>1. w[j] = s[j] /\ w[j - 1] = s[j - 1] /\ Follows(s, j)
      BY <1>1, <1>2, <2>1 DEF w, Marked
    <3> QED BY <3>1 DEF Follows
  <2>2. CASE j = Len(s) + 1
    <3>1. w[j] = u[1] /\ w[j - 1] = s[Len(s)] /\ s # <<>> /\ u # <<>>
      BY <1>1, <1>2, <2>2 DEF w
    <3> QED BY <3>1 DEF Follows
  <2>3. CASE j > Len(s) + 1
    <3>1. w[j] = u[j - Len(s)] /\ w[j - 1] = u[(j - Len(s)) - 1] /\ j - Len(s) \in 2 .. Len(u)
      <4>1. j - 1 \in 1 .. Len(s) + Len(u) /\ j \in 1 .. Len(s) + Len(u) /\ ~ j <= Len(s) /\ ~ j - 1 <= Len(s)
        BY <1>2, <2>3
      <4>2. w[j] = u[j - Len(s)] /\ w[j - 1] = u[(j - 1) - Len(s)]
        BY <1>1, <4>1 DEF w
      <4>3. (j - 1) - Len(s) = (j - Len(s)) - 1 /\ j - Len(s) \in 2 .. Len(u)
        BY <1>2, <2>3
      <4> QED BY <4>2, <4>3
    <3>2. Follows(u, j - Len(s))
      BY <3>1 DEF Marked
    <3> QED BY <3>1, <3>2 DEF Follows
  <2> QED BY <1>2, <2>1, <2>2, <2>3
<1> QED BY <1>1, <1>3 DEF w, Marked

\* So does the start of one.
LEMMA PrefixProperties ==
    ASSUME NEW u \in Seq(Entries), NEW n \in Nat
    PROVE  /\ Prefix(u, n) \in Seq(Entries) /\ Len(Prefix(u, n)) = IF n < Len(u) THEN n ELSE Len(u)
           /\ \A i \in 1 .. Len(Prefix(u, n)) : Prefix(u, n)[i] = u[i]
           /\ Marked(u) => Marked(Prefix(u, n))
<1> DEFINE m == IF n < Len(u) THEN n ELSE Len(u)
<1>1. Len(u) \in Nat /\ m \in Nat /\ m <= Len(u) /\ u \in [1 .. Len(u) -> Entries]
  BY LenProperties
<1>2. \A i \in 1 .. m : u[i] \in Entries
  BY <1>1
<1> HIDE DEF m
<1>3. /\ SubSeq(u, 1, m) \in Seq(Entries) /\ Len(SubSeq(u, 1, m)) = m
      /\ \A i \in 1 .. m : SubSeq(u, 1, m)[i] = u[i]
  BY <1>1, <1>2, SubSeqProperties
<1>4. Prefix(u, n) = SubSeq(u, 1, m)
  BY DEF Prefix, m
<1>5. ASSUME Marked(u) PROVE Marked(Prefix(u, n))
  <2>1. ASSUME NEW j \in 2 .. m PROVE Follows(Prefix(u, n), j)
    <3>1. Prefix(u, n)[j] = u[j] /\ Prefix(u, n)[j - 1] = u[j - 1] /\ j \in 2 .. Len(u)
      BY <1>1, <1>3, <1>4
    <3> QED BY <1>5, <3>1 DEF Marked, Follows
  <2> QED BY <1>3, <1>4, <2>1 DEF Marked
<1> QED BY <1>3, <1>4, <1>5 DEF m

\* A run of the log is in order.
LEMMA RunProperties ==
    ASSUME NEW from \in Nat \ {0}, NEW to \in 0 .. MaxLog, from <= to + 1
    PROVE  /\ Run(from, to) \in Seq(Entries) /\ Len(Run(from, to)) = to - from + 1
           /\ \A i \in 1 .. Len(Run(from, to)) : Run(from, to)[i] = from + i - 1
           /\ Marked(Run(from, to))
<1> DEFINE m == to - from + 1
<1>1. m \in Nat /\ \A i \in 1 .. m : from + i - 1 \in Entries
  BY LogSaverAssumption DEF Entries, Positions
<1>2. /\ Run(from, to) \in Seq(Entries) /\ Len(Run(from, to)) = m
      /\ \A i \in 1 .. m : Run(from, to)[i] = from + i - 1
  <2> HIDE DEF m
  <2> DEFINE u == [i \in 1 .. m |-> from + i - 1]
  <2>1. u \in [1 .. m -> Entries]
    BY <1>1
  <2>2. u \in Seq(Entries)
    BY <1>1, <2>1 DEF Seq
  <2>3. Len(u) = m
    BY <1>1, <2>1
  <2>4. Run(from, to) = u
    BY DEF Run, m
  <2> QED BY <2>1, <2>2, <2>3, <2>4
<1>3. Marked(Run(from, to))
  <2>1. ASSUME NEW j \in 2 .. m PROVE Follows(Run(from, to), j)
    <3>1. Run(from, to)[j] = from + j - 1 /\ Run(from, to)[j - 1] = from + (j - 1) - 1
      BY <1>1, <1>2
    <3> QED BY <1>1, <3>1 DEF Follows
  <2> QED BY <1>2, <2>1 DEF Marked
<1> QED BY <1>2, <1>3

\* The numbers of the parts.
LEMMA PartNumbers ==
    ASSUME LogInv
    PROVE  /\ written \in Nat /\ written <= MaxLog
           /\ gLog # Empty => /\ gLog.to \in 1 .. written /\ gLog.from \in 1 .. gLog.to
           /\ gCopy # Empty => /\ gCopy.to \in 1 .. gLog.to /\ gCopy.from \in 1 .. gCopy.to /\ gLog # Empty
                               /\ AnchorOf(gCopy) \in 1 .. gCopy.to
           /\ Empty.to = 0
<1>1. written \in Nat /\ written <= MaxLog
  BY LogSaverAssumption DEF LogInv, NoSilentLoss, LogTypeOK
<1>2. gLog # Empty => gLog.to \in 1 .. written /\ gLog.from \in 1 .. gLog.to
  BY <1>1, LogSaverAssumption DEF LogInv, PartsInOrder, RingPart
<1>3. ASSUME gCopy # Empty
      PROVE  /\ gCopy.to \in 1 .. gLog.to /\ gCopy.from \in 1 .. gCopy.to /\ gLog # Empty
             /\ AnchorOf(gCopy) \in 1 .. gCopy.to
  <2>1. gLog # Empty /\ gCopy.to \in 1 .. gLog.to /\ gLog.to \in Nat
        /\ gCopy.from = IF gCopy.to > RingSize THEN gCopy.to - RingSize + 1 ELSE 1
    BY <1>1, <1>2, <1>3 DEF LogInv, PartsInOrder, RingPart
  <2> QED BY <2>1, LogSaverAssumption DEF AnchorOf
<1>4. Empty.to = 0
  BY DEF Empty, Part
<1> QED BY <1>1, <1>2, <1>3, <1>4

\* A set of numbers that is not empty has a least one.
LEMMA LeastExists ==
    ASSUME NEW S, S \subseteq Nat, S # {}
    PROVE  \E i \in S : \A j \in S : i <= j
<1> DEFINE R == {ss \in Nat \X Nat : ss[1] < ss[2]}
<1>1. IsWellFoundedOn(R, Nat)
  BY NatLessThanWellFounded DEF OpToRel
<1> HIDE DEF R
<1>2. \E i \in S : \A j \in S : ~ (<<j, i>> \in R)
  BY <1>1, WFMin, Zenon
<1>3. PICK i \in S : \A j \in S : ~ (<<j, i>> \in R)
  BY <1>2
<1>4. ASSUME NEW j \in S PROVE i <= j
  <2>1. i \in Nat /\ j \in Nat
    OBVIOUS
  <2>2. j < i => <<j, i>> \in R
    BY <2>1 DEF R
  <2> QED BY <1>3, <2>1, <2>2
<1> QED BY <1>4

\* The last of some places in a part of the log.
LEMMA LastPlace ==
    ASSUME NEW n \in Nat, NEW S, S \subseteq 0 .. n, S # {}
    PROVE  \E e \in S : \A other \in S : other <= e
<1>1. PICK T : T = {n - e : e \in S}
  OBVIOUS
<1>2. T \subseteq Nat /\ T # {}
  <2>1. \A e \in S : n - e \in Nat
    OBVIOUS
  <2>2. PICK e \in S : TRUE
    OBVIOUS
  <2>3. n - e \in T
    BY <1>1, <2>2
  <2>4. ASSUME NEW d \in T PROVE d \in Nat
    BY <1>1, <2>1, <2>4
  <2> QED BY <2>3, <2>4
<1>3. PICK d \in T : \A other \in T : d <= other
  BY <1>2, LeastExists
<1>4. PICK e \in S : d = n - e
  BY <1>1, <1>3
<1>5. ASSUME NEW other \in S PROVE other <= e
  <2>1. n - other \in T
    BY <1>1
  <2>2. n - e <= n - other /\ e \in Int /\ other \in Int
    BY <1>3, <1>4, <2>1
  <2> QED BY <2>2
<1> QED BY <1>5

\* Wherever it is found, the new lines start in the part that was read.
LEMMA StartsInPart ==
    ASSUME LogInv, pc = "write"
    PROVE  \/ new_lines_start(gLog, gCopy) = Lost
           \/ /\ new_lines_start(gLog, gCopy) \in Nat \ {0}
              /\ new_lines_start(gLog, gCopy) <= gLog.to + 1
<1>1. gLog.to \in Nat /\ gLog.from \in 1 .. gLog.to
  BY PartNumbers DEF LogInv, PartsInOrder
<1>2. CASE gCopy = Empty
  BY <1>1, <1>2 DEF new_lines_start
<1>3. CASE gCopy # Empty
  <2>1. PICK ends : ends = Matches(gLog, gCopy)
    OBVIOUS
  <2>2. ends \subseteq 0 .. gLog.to
    <3>1. AnchorOf(gCopy) \in Nat /\ AnchorOf(gCopy) >= 1
      BY <1>3, PartNumbers
    <3> QED BY <1>1, <2>1, <3>1 DEF Matches
  <2>3. CASE ends = {}
    BY <1>3, <2>1, <2>3 DEF new_lines_start
  <2>4. CASE ends # {}
    <3>1. \E e \in ends : \A other \in ends : other <= e
      BY <1>1, <2>2, <2>4, LastPlace
    <3>2. PICK e : e = CHOOSE end \in ends : \A other \in ends : other <= end
      OBVIOUS
    <3>3. e \in ends
      BY <3>1, <3>2
    <3>4. new_lines_start(gLog, gCopy) = 1 + e
      BY <1>3, <2>1, <2>4, <3>2 DEF new_lines_start
    <3>5. e \in Nat /\ e <= gLog.to
      BY <1>1, <2>2, <3>3
    <3> QED BY <1>1, <3>4, <3>5
  <2> QED BY <2>3, <2>4
<1> QED BY <1>2, <1>3

LEMMA GapLine == <<Lost>> \in Seq(Entries) /\ Len(<<Lost>>) = 1 /\ <<Lost>>[1] = Lost /\ Marked(<<Lost>>)
BY DEF Entries, Marked

\* So a round appends lines of the log, perhaps after a gap line.
LEMMA NewLinesType ==
    ASSUME LogInv, pc = "write"
    PROVE  NewLines \in Seq(Entries)
<1>1. gLog.to \in 0 .. MaxLog /\ gLog.from \in Nat \ {0} /\ gLog.from <= gLog.to + 1 /\ gLog.to \in Nat
  BY PartNumbers, LogSaverAssumption DEF LogInv, PartsInOrder
<1>2. PICK start : start = new_lines_start(gLog, gCopy)
  OBVIOUS
<1>3. CASE start = Lost
  <2>1. Run(gLog.from, gLog.to) \in Seq(Entries)
    BY <1>1, RunProperties
  <2>2. <<Lost>> \o Run(gLog.from, gLog.to) \in Seq(Entries)
    BY <2>1, GapLine, ConcatProperties
  <2> QED BY <1>2, <1>3, <2>2 DEF NewLines
<1>4. CASE start # Lost
  <2>1. start \in Nat \ {0} /\ start <= gLog.to + 1
    BY <1>2, <1>4, StartsInPart
  <2>2. Run(start, gLog.to) \in Seq(Entries)
    BY <1>1, <2>1, RunProperties
  <2> QED BY <1>2, <1>4, <2>2 DEF NewLines
<1> QED BY <1>3, <1>4

\* A round that is not misled finds what was written last where it is.
LEMMA FoundInPlace ==
    ASSUME LogInv, pc = "write", ~misled, gCopy # Empty
    PROVE  new_lines_start(gLog, gCopy) = IF Reaches(gLog, gCopy) THEN gCopy.to + 1 ELSE Lost
BY DEF LogInv, RightPlace, Astray

\* What a round appends: what is new since the last, or a gap line and all there is.
LEMMA NewLinesAre ==
    ASSUME LogInv, pc = "write", ~misled
    PROVE  NewLines = IF gCopy = Empty THEN Run(gLog.from, gLog.to)
                      ELSE IF Reaches(gLog, gCopy) THEN Run(gCopy.to + 1, gLog.to)
                      ELSE <<Lost>> \o Run(gLog.from, gLog.to)
<1>1. gLog # Empty /\ gLog.from \in Nat
  BY PartNumbers DEF LogInv, PartsInOrder
<1>2. Lost \notin Nat
  BY LogSaverAssumption
<1>3. CASE gCopy = Empty
  <2>1. new_lines_start(gLog, gCopy) = gLog.from
    BY <1>3 DEF new_lines_start
  <2> QED BY <1>1, <1>2, <1>3, <2>1 DEF NewLines
<1>4. CASE gCopy # Empty /\ Reaches(gLog, gCopy)
  <2>1. new_lines_start(gLog, gCopy) = gCopy.to + 1 /\ gCopy.to \in Nat
    BY <1>4, FoundInPlace, PartNumbers
  <2>2. gCopy.to + 1 # Lost
    BY <1>2, <2>1
  <2> QED BY <1>4, <2>1, <2>2 DEF NewLines
<1>5. CASE gCopy # Empty /\ ~Reaches(gLog, gCopy)
  <2>1. new_lines_start(gLog, gCopy) = Lost
    BY <1>5, FoundInPlace
  <2> QED BY <1>5, <2>1 DEF NewLines
<1> QED BY <1>3, <1>4, <1>5

\* Those lines are in order, and begin in place or with a gap line.
LEMMA NewLinesMarked ==
    ASSUME LogInv, pc = "write", ~misled
    PROVE  /\ NewLines \in Seq(Entries) /\ Marked(NewLines)
           /\ gCopy # Empty /\ Reaches(gLog, gCopy) =>
                 /\ Len(NewLines) = gLog.to - gCopy.to
                 /\ \A i \in 1 .. Len(NewLines) : NewLines[i] = gCopy.to + i
           /\ gCopy # Empty /\ ~Reaches(gLog, gCopy) => NewLines # <<>> /\ NewLines[1] = Lost
           /\ ~(gCopy # Empty /\ Reaches(gLog, gCopy)) =>
                 NewLines # <<>> /\ NewLines[Len(NewLines)] = gLog.to
<1>1. gLog.to \in 1 .. MaxLog /\ gLog.from \in 1 .. gLog.to /\ gLog.from \in Nat \ {0} /\ gLog.to \in Nat
  BY PartNumbers, LogSaverAssumption DEF LogInv, PartsInOrder
<1> DEFINE all == Run(gLog.from, gLog.to)
<1>2. /\ all \in Seq(Entries) /\ Len(all) = gLog.to - gLog.from + 1
      /\ \A i \in 1 .. Len(all) : all[i] = gLog.from + i - 1
      /\ Marked(all)
  <2>1. gLog.to \in 0 .. MaxLog /\ gLog.from <= gLog.to + 1
    BY <1>1, LogSaverAssumption
  <2> QED BY <1>1, <2>1, RunProperties
<1>3. all # <<>> /\ all[Len(all)] = gLog.to
  <2> HIDE DEF all
  <2> QED BY <1>1, <1>2
<1>4. CASE gCopy = Empty
  BY <1>2, <1>3, <1>4, NewLinesAre
<1>5. CASE gCopy # Empty /\ Reaches(gLog, gCopy)
  <2>1. gCopy.to \in 1 .. gLog.to
    BY <1>5, PartNumbers
  <2>2. PICK from \in Nat \ {0} : from = gCopy.to + 1
    BY <1>1, <2>1
  <2>3. NewLines = Run(from, gLog.to)
    BY <1>5, <2>2, NewLinesAre
  <2>4. from <= gLog.to + 1 /\ gLog.to \in 0 .. MaxLog
    BY <1>1, <2>1, <2>2, LogSaverAssumption
  <2>5. /\ NewLines \in Seq(Entries) /\ Len(NewLines) = gLog.to - from + 1 /\ Marked(NewLines)
        /\ \A i \in 1 .. Len(NewLines) : NewLines[i] = from + i - 1
    BY <2>3, <2>4, RunProperties
  <2>6. gLog.to - from + 1 = gLog.to - gCopy.to /\ \A i \in Nat : from + i - 1 = gCopy.to + i
    BY <1>1, <2>1, <2>2
  <2>7. ASSUME NEW i \in 1 .. Len(NewLines) PROVE NewLines[i] = gCopy.to + i
    <3>1. NewLines[i] = from + i - 1 /\ i \in Nat
      BY <2>5, LenProperties
    <3> QED BY <2>6, <3>1
  <2> QED BY <1>5, <2>5, <2>6, <2>7
<1>6. CASE gCopy # Empty /\ ~Reaches(gLog, gCopy)
  <2> HIDE DEF all
  <2> DEFINE gap == <<Lost>>
  <2> HIDE DEF gap
  <2>2. gap \in Seq(Entries) /\ Len(gap) = 1 /\ gap[1] = Lost /\ Marked(gap)
    BY GapLine DEF gap
  <2>3. gap \o all \in Seq(Entries) /\ Marked(gap \o all)
    BY <1>2, <2>2, MarkedConcat
  <2>4. /\ Len(gap \o all) = 1 + Len(all) /\ Len(all) \in Nat
        /\ \A i \in 1 .. 1 + Len(all) : (gap \o all)[i] = IF i <= 1 THEN gap[i] ELSE all[i - 1]
    <3>1. /\ Len(gap \o all) = Len(gap) + Len(all)
          /\ \A i \in 1 .. Len(gap) + Len(all) :
                (gap \o all)[i] = IF i <= Len(gap) THEN gap[i] ELSE all[i - Len(gap)]
      BY <1>2, <2>2, ConcatProperties
    <3>2. Len(all) \in Nat
      BY <1>2, LenProperties
    <3> DEFINE w == gap \o all
    <3> HIDE DEF w
    <3>3. Len(w) = 1 + Len(all) /\ \A i \in 1 .. 1 + Len(all) : w[i] = IF i <= 1 THEN gap[i] ELSE all[i - 1]
      BY <2>2, <3>1 DEF w
    <3> QED BY <3>2, <3>3 DEF w
  <2>5. NewLines = gap \o all
    BY <1>6, NewLinesAre DEF gap, all
  <2>6. Len(all) >= 1
    BY <1>1, <1>2
  <2>7. NewLines[1] = Lost /\ NewLines[Len(NewLines)] = all[Len(all)] /\ Len(NewLines) > 0
    BY <2>2, <2>4, <2>5, <2>6
  <2> QED BY <1>3, <1>6, <2>3, <2>5, <2>7
<1> QED BY <1>4, <1>5, <1>6

\* Any start of them may be appended; all of them bring the file to the ring's end.
LEMMA AppendsInPlace ==
    ASSUME LogInv, pc = "write", NEW n \in Nat
    PROVE  LET file == kernelLog \o Prefix(NewLines, n)
           IN  /\ file \in Seq(Entries)
               /\ InPlace => Marked(file)
               /\ InPlace /\ gCopy # Empty /\ file # <<>> =>
                     \/ file[Len(file)] = Lost
                     \/ file[Len(file)] >= gCopy.to
                     \/ ~Reaches(gLog, gCopy)
               /\ InPlace /\ file # <<>> /\ n >= Len(NewLines) =>
                     file[Len(file)] = Lost \/ file[Len(file)] >= gLog.to
<1> DEFINE u == Prefix(NewLines, n)
           file == kernelLog \o u
<1>1. kernelLog \in Seq(Entries) /\ Len(kernelLog) \in Nat /\ (InPlace => Marked(kernelLog))
  BY LenProperties DEF LogInv, NoSilentLoss, LogTypeOK, Entries, Marked, InPlace, Unbroken
<1>2. /\ u \in Seq(Entries) /\ (InPlace => Marked(u)) /\ Len(u) = IF n < Len(NewLines) THEN n ELSE Len(NewLines)
      /\ \A i \in 1 .. Len(u) : u[i] = NewLines[i]
      /\ Len(u) \in Nat /\ Len(NewLines) \in Nat
  BY NewLinesType, NewLinesMarked, PrefixProperties, LenProperties DEF InPlace
<1> HIDE DEF u
<1>3. /\ file \in Seq(Entries) /\ Len(file) = Len(kernelLog) + Len(u)
      /\ \A i \in 1 .. Len(kernelLog) + Len(u) :
            file[i] = IF i <= Len(kernelLog) THEN kernelLog[i] ELSE u[i - Len(kernelLog)]
  BY <1>1, <1>2, ConcatProperties
<1>n. gCopy # Empty => gCopy.to \in Nat /\ gLog.to \in Nat /\ gCopy.to <= gLog.to
  BY PartNumbers
<1>4. InPlace => IF gCopy = Empty THEN kernelLog = <<>>
                     ELSE kernelLog # <<>> => \/ kernelLog[Len(kernelLog)] = Lost
                                              \/ kernelLog[Len(kernelLog)] >= gCopy.to
                                              \/ ~Reaches(gLog, gCopy)
  BY DEF LogInv, EndsInPlace
<1>5. ASSUME InPlace PROVE Marked(file)
  <2>1. ASSUME kernelLog # <<>>, u # <<>>, kernelLog[Len(kernelLog)] # Lost, u[1] # Lost
        PROVE  u[1] <= kernelLog[Len(kernelLog)] + 1
    <3>1. Len(u) >= 1 /\ u[1] = NewLines[1] /\ Len(NewLines) >= 1
      BY <1>2, <2>1
    <3>2. gCopy # Empty /\ Reaches(gLog, gCopy)
      BY <1>4, <1>5, <2>1, <3>1, NewLinesMarked DEF InPlace
    <3>3. u[1] = gCopy.to + 1 /\ kernelLog[Len(kernelLog)] >= gCopy.to
      BY <1>2, <1>4, <1>5, <2>1, <3>1, <3>2, NewLinesMarked DEF InPlace
    <3>4. kernelLog[Len(kernelLog)] \in Nat
      <4>1. kernelLog[Len(kernelLog)] \in Entries
        BY <1>1, <2>1
      <4> QED BY <2>1, <4>1, LogSaverAssumption DEF Entries, Positions
    <3> QED BY <1>n, <3>2, <3>3, <3>4
  <2> QED BY <1>1, <1>2, <1>5, <2>1, MarkedConcat
<1>6. u = <<>> => file = kernelLog
  BY <1>1, ConcatEmptySeq
<1>7. u # <<>> => /\ Len(u) > 0 /\ file[Len(file)] = u[Len(u)] /\ u[Len(u)] = NewLines[Len(u)]
                  /\ Len(u) <= Len(NewLines)
  <2> HIDE DEF file
  <2> SUFFICES ASSUME u # <<>> PROVE /\ Len(u) > 0 /\ file[Len(file)] = u[Len(u)] /\ u[Len(u)] = NewLines[Len(u)]
                                     /\ Len(u) <= Len(NewLines)
    OBVIOUS
  <2>1. Len(u) > 0 /\ Len(u) <= Len(NewLines) /\ u[Len(u)] = NewLines[Len(u)]
    BY <1>2
  <2>2. Len(file) \in 1 .. Len(kernelLog) + Len(u) /\ ~ Len(file) <= Len(kernelLog)
        /\ Len(file) - Len(kernelLog) = Len(u)
    BY <1>1, <1>2, <1>3, <2>1
  <2> QED BY <1>3, <2>1, <2>2
<1> HIDE DEF file
<1>8. ASSUME InPlace, gCopy # Empty, file # <<>>, Reaches(gLog, gCopy)
      PROVE  file[Len(file)] = Lost \/ file[Len(file)] >= gCopy.to
  <2>1. CASE u = <<>>
    BY <1>4, <1>6, <1>8, <2>1
  <2>2. CASE u # <<>>
    <3>1. file[Len(file)] = gCopy.to + Len(u)
      BY <1>2, <1>7, <1>8, <2>2, NewLinesMarked DEF InPlace
    <3> QED BY <1>2, <1>8, <1>n, <3>1
  <2> QED BY <2>1, <2>2
<1>9. ASSUME InPlace, file # <<>>, n >= Len(NewLines)
      PROVE  file[Len(file)] = Lost \/ file[Len(file)] >= gLog.to
  <2>0. Len(u) = Len(NewLines)
    BY <1>2, <1>9
  <2>1. CASE gCopy # Empty /\ Reaches(gLog, gCopy)
    <3>1. Len(NewLines) = gLog.to - gCopy.to /\ \A i \in 1 .. Len(NewLines) : NewLines[i] = gCopy.to + i
      BY <1>9, <2>1, NewLinesMarked DEF InPlace
    <3>2. CASE u = <<>>
      <4>1. gLog.to = gCopy.to
        BY <1>n, <2>0, <2>1, <3>1, <3>2
      <4> QED BY <1>8, <1>9, <2>1, <4>1
    <3>3. CASE u # <<>>
      <4>1. file[Len(file)] = gCopy.to + (gLog.to - gCopy.to)
        BY <1>2, <1>7, <2>0, <3>1, <3>3
      <4> QED BY <1>n, <2>1, <4>1
    <3> QED BY <3>2, <3>3
  <2>2. CASE ~(gCopy # Empty /\ Reaches(gLog, gCopy))
    <3>1. NewLines # <<>> /\ NewLines[Len(NewLines)] = gLog.to
      BY <1>9, <2>2, NewLinesMarked DEF InPlace
    <3>2. u # <<>>
      BY <1>2, <2>0, <3>1, NewLinesType, EmptySeq
    <3>3. gLog.to \in Nat
      BY PartNumbers DEF LogInv, PartsInOrder
    <3> QED BY <1>7, <2>0, <3>1, <3>2, <3>3
  <2> QED BY <2>1, <2>2
<1> QED BY <1>3, <1>5, <1>8, <1>9 DEF file, u

LEMMA PrefixAll ==
    ASSUME NEW u \in Seq(Entries) PROVE Prefix(u, Len(u)) = u
<1>1. Len(u) \in Nat
  BY LenProperties
<1>2. /\ Prefix(u, Len(u)) \in Seq(Entries) /\ Len(Prefix(u, Len(u))) = Len(u)
      /\ \A i \in 1 .. Len(u) : Prefix(u, Len(u))[i] = u[i]
  BY <1>1, PrefixProperties
<1> QED BY <1>2, SeqEqual

LEMMA LogInitInv == LogInit => LogInv
<1> SUFFICES ASSUME LogInit PROVE LogInv
  OBVIOUS
<1>1. Empty \in Parts
  BY LogSaverAssumption DEF Empty, Part, Parts
<1>2. LogTypeOK
  <2>1. <<>> \in Seq(Positions \cup {Lost})
    OBVIOUS
  <2>2. 0 \in 0 .. MaxLog /\ 0 \in 0 .. HeartbeatRounds - 1 /\ 0 \in 0 .. MaxFailures /\ 1 \in 1 .. MaxBoots + 1
    BY LogSaverAssumption
  <2>3. /\ kernelLog \in Seq(Positions \cup {Lost}) /\ previousLog \in Seq(Positions \cup {Lost})
        /\ lastBoot \in Seq(Positions \cup {Lost})
    BY <2>1, Zenon DEF LogInit
  <2>4. /\ written \in 0 .. MaxLog /\ round \in 0 .. HeartbeatRounds - 1 /\ complaints \in 0 .. 3
        /\ failures \in 0 .. MaxFailures /\ boots \in 1 .. MaxBoots + 1
    BY <2>2 DEF LogInit
  <2> QED BY <1>1, <2>3, <2>4 DEF LogInit, LogTypeOK
<1> QED BY <1>2 DEF LogInit, LogInv, NoSilentLoss, PartsInOrder, EndsInPlace, RightPlace, Unbroken

LEMMA LogNextInv == LogInv /\ [LogNext]_logVars => LogInv'
<1> SUFFICES ASSUME LogInv, [LogNext]_logVars PROVE LogInv'
  OBVIOUS
<1>n. written \in Nat /\ MaxLog \in Nat
  BY PartNumbers, LogSaverAssumption
<1>f. ASSUME Fail PROVE failures' \in 0 .. MaxFailures
  BY <1>f, LogSaverAssumption DEF Fail, LogInv, NoSilentLoss, LogTypeOK
<1>l. Logged \/ UNCHANGED written => written' \in 0 .. MaxLog /\ written' >= written
  BY <1>n DEF Logged, LogInv, NoSilentLoss, LogTypeOK
<1>e. Empty \in Parts
  BY LogSaverAssumption DEF Empty, Part, Parts
\* Steps that leave the log and the parts as they are.
<1>a. ASSUME UNCHANGED <<kernelLog, lastBoot, gLog, gCopy, unanchored, boots>>,
             written' \in 0 .. MaxLog, written' >= written, previousLog' \in Seq(Entries),
             round' \in 0 .. HeartbeatRounds - 1, UNCHANGED complaints, failures' \in 0 .. MaxFailures,
             pc' \in {"keep", "copy", "open", "beat", "read", "write", "stopped"},
             pc' = "write" => pc = "write", UNCHANGED misled,
             pc' \in {"keep", "copy", "open"} => pc \in {"keep", "copy", "open"},
             pc' \in {"beat", "read", "write"} => pc \in {"beat", "read", "write"}
      PROVE  LogInv'
  <2>1. LogTypeOK'
    BY <1>a DEF LogInv, NoSilentLoss, LogTypeOK, Entries
  <2>2. NoSilentLoss'
    BY <1>a, <2>1 DEF LogInv, NoSilentLoss, Unbroken, Follows
  <2>3. PartsInOrder'
    BY <1>a, <1>n DEF LogInv, PartsInOrder, RingPart
  <2>4. EndsInPlace'
    BY <1>a DEF LogInv, EndsInPlace, Reaches, AnchorOf, InPlace
  <2>5. RightPlace'
    BY <1>a DEF LogInv, RightPlace, Astray, new_lines_start, Matches, Reaches, AnchorOf
  <2> QED BY <2>2, <2>3, <2>4, <2>5 DEF LogInv
<1>t. /\ previousLog \in Seq(Entries) /\ kernelLog \in Seq(Entries) /\ round \in 0 .. HeartbeatRounds - 1
      /\ failures \in 0 .. MaxFailures /\ complaints \in 0 .. 3
      /\ pc \in {"keep", "copy", "open", "beat", "read", "write", "stopped"}
  BY DEF LogInv, NoSilentLoss, LogTypeOK, Entries
<1>1. CASE OthersLog
  BY <1>1, <1>a, <1>l, <1>t DEF OthersLog, files
<1>2. CASE KeepPrevious
  <2>1. <<>> \in Seq(Entries)
    OBVIOUS
  <2>2. previousLog' \in Seq(Entries) /\ failures' \in 0 .. MaxFailures
    BY <1>2, <1>f, <1>t, <2>1 DEF KeepPrevious
  <2>3. UNCHANGED <<written, kernelLog, lastBoot, gLog, gCopy, unanchored, misled, boots>>
        /\ UNCHANGED <<round, complaints>> /\ pc = "keep" /\ pc' \in {"open", "copy"}
    BY <1>2 DEF KeepPrevious
  <2> QED BY <1>a, <1>l, <1>t, <2>2, <2>3
<1>3. CASE CopyPrevious
  <2>1. \A n \in Nat : Prefix(kernelLog, n) \in Seq(Entries)
    BY <1>t, PrefixProperties
  <2>2. previousLog' \in Seq(Entries) /\ failures' \in 0 .. MaxFailures
    <3>1. RingSize \in Nat /\ 0 .. RingSize - 1 \subseteq Nat
      BY LogSaverAssumption
    <3>2. CASE previousLog' = Prefix(kernelLog, RingSize) /\ UNCHANGED failures
      BY <1>t, <2>1, <3>1, <3>2
    <3>3. CASE Fail /\ \E n \in 0 .. RingSize - 1 : previousLog' = Prefix(kernelLog, n)
      BY <1>f, <2>1, <3>1, <3>3
    <3> QED BY <1>3, <3>2, <3>3 DEF CopyPrevious
  <2> QED BY <1>3, <1>a, <1>l, <1>t, <2>2 DEF CopyPrevious
<1>4. CASE OpenLog
  <2>1. CASE Fail /\ Logged /\ pc' = "stopped" /\ UNCHANGED <<kernelLog, unanchored, misled>>
    BY <1>4, <1>a, <1>f, <1>l, <1>t, <2>1 DEF OpenLog
  <2>2. CASE kernelLog' = <<>> /\ unanchored' = FALSE /\ misled' = FALSE /\ pc' = "beat" /\ UNCHANGED <<written, failures>>
    <3>1. LogTypeOK'
      <4>1. kernelLog' \in Seq(Positions \cup {Lost}) /\ {unanchored', misled'} \subseteq BOOLEAN
        <5>1. <<>> \in Seq(Positions \cup {Lost})
          OBVIOUS
        <5> QED BY <2>2, <5>1
      <4>2. UNCHANGED <<previousLog, lastBoot, gLog, gCopy, round, complaints, boots>>
        BY <1>4 DEF OpenLog
      <4> QED BY <2>2, <4>1, <4>2 DEF LogInv, NoSilentLoss, LogTypeOK
    <3>2. gLog = Empty /\ gCopy = Empty /\ UNCHANGED <<gLog, gCopy>>
      BY <1>4 DEF OpenLog, LogInv, PartsInOrder
    <3>3. NoSilentLoss'
      BY <2>2, <3>1 DEF NoSilentLoss, Unbroken
    <3> QED BY <2>2, <3>2, <3>3 DEF LogInv, PartsInOrder, EndsInPlace, RightPlace
  <2> QED BY <1>4, <2>1, <2>2 DEF OpenLog
<1>5. CASE Heartbeat
  <2>1. round' \in 0 .. HeartbeatRounds - 1
    BY <1>5, <1>t, LogSaverAssumption DEF Heartbeat
  <2> QED BY <1>5, <1>a, <1>l, <1>t, <2>1 DEF Heartbeat, files
<1>6. CASE ReadLog
  <2>1. CASE Fail /\ pc' = "beat" /\ UNCHANGED <<gLog, misled>>
    BY <1>6, <1>a, <1>f, <1>l, <1>t, <2>1 DEF ReadLog, files
  <2>2. CASE /\ gLog' = Ring /\ UNCHANGED failures /\ pc' = (IF written = 0 THEN "beat" ELSE "write")
             /\ misled' = (misled \/ Astray(Ring, gCopy))
    <3>1. /\ UNCHANGED <<written, kernelLog, previousLog, lastBoot, gCopy, round, complaints, unanchored, boots>>
      BY <1>6 DEF ReadLog, files
    <3>2. PICK from \in Nat : from = IF written > RingSize THEN written - RingSize + 1 ELSE 1
      <4>1. RingSize \in Nat /\ (written > RingSize => written - RingSize + 1 \in Nat) /\ 1 \in Nat
        BY <1>n, LogSaverAssumption
      <4> QED BY <4>1
    <3>3. gLog' = [from |-> from, to |-> written] /\ from \in 1 .. MaxLog + 1
      BY <1>n, <2>2, <3>2, PartNumbers, LogSaverAssumption DEF Ring, Part
    <3>4. gLog' \in Parts /\ gLog'.from = from /\ gLog'.to = written
      BY <3>3, <1>n, PartNumbers DEF Parts
    <3>a. /\ misled' \in BOOLEAN /\ (~misled' => ~misled)
          /\ RightPlace'
      <4>1. ~misled' => ~misled /\ ~Astray(gLog', gCopy)
        BY <2>2, Zenon
      <4>2. misled' \in BOOLEAN
        BY <2>2, Zenon DEF Astray
      <4>3. RightPlace'
        BY <3>1, <4>1 DEF RightPlace, Astray, new_lines_start, Matches, Reaches, AnchorOf
      <4> QED BY <4>1, <4>2, <4>3
    <3>5. LogTypeOK'
      BY <2>2, <3>1, <3>4, <3>a DEF LogInv, NoSilentLoss, LogTypeOK
    <3>6. NoSilentLoss' /\ RightPlace' /\ (InPlace' => InPlace)
      BY <3>1, <3>5, <3>a DEF LogInv, NoSilentLoss, Unbroken, Follows, InPlace
    <3>7. CASE written = 0
      <4>1. gLog = Empty /\ gCopy = Empty
        BY <3>7, PartNumbers
      <4>2. gLog' = Empty
        BY <3>2, <3>3, <3>7, LogSaverAssumption DEF Empty, Part
      <4>3. PartsInOrder'
        BY <2>2, <3>1, <3>7, <4>1, <4>2 DEF PartsInOrder
      <4>4. EndsInPlace'
        BY <1>6, <3>1, <3>6, <4>1 DEF ReadLog, LogInv, EndsInPlace
      <4> QED BY <3>6, <4>3, <4>4 DEF LogInv
    <3>8. CASE written # 0
      <4>1. RingPart(gLog, written)' /\ gLog' # Empty
        BY <1>n, <3>1, <3>2, <3>4, <3>8, PartNumbers DEF RingPart
      <4>2. gCopy # Empty => RingPart(gCopy, written)
        BY <1>n, PartNumbers DEF LogInv, PartsInOrder, RingPart
      <4>3. PartsInOrder'
        BY <2>2, <3>1, <3>4, <3>8, <4>1, <4>2 DEF PartsInOrder, RingPart
      <4>4. ASSUME gCopy # Empty PROVE gLog.from <= from /\ gLog.from \in Nat /\ AnchorOf(gCopy) \in Nat /\ gCopy.to \in Nat
        <5>1. gLog # Empty /\ gLog.to \in 1 .. written /\ AnchorOf(gCopy) \in Nat /\ gCopy.to \in Nat
          BY <4>4, PartNumbers
        <5>2. gLog.from = IF gLog.to > RingSize THEN gLog.to - RingSize + 1 ELSE 1
          BY <5>1 DEF LogInv, PartsInOrder, RingPart
        <5> QED BY <1>n, <3>2, <5>1, <5>2, LogSaverAssumption
      <4>5. gCopy # Empty /\ Reaches(gLog', gCopy) => Reaches(gLog, gCopy)
        BY <3>4, <4>4 DEF Reaches
      <4>6. EndsInPlace'
        BY <1>6, <3>1, <3>6, <4>5 DEF ReadLog, LogInv, EndsInPlace, Reaches, AnchorOf
      <4> QED BY <3>6, <4>3, <4>6 DEF LogInv
    <3> QED BY <3>7, <3>8
  <2> QED BY <1>6, <2>1, <2>2 DEF ReadLog
<1>7. CASE Write
  <2>1. NewLines \in Seq(Entries) /\ Len(NewLines) \in Nat /\ Prefix(NewLines, Len(NewLines)) = NewLines
    BY <1>7, NewLinesType, PrefixAll, LenProperties DEF Write
  <2>2. /\ kernelLog' \in Seq(Entries)
        /\ InPlace => Marked(kernelLog')
        /\ InPlace /\ kernelLog' # <<>> =>
              kernelLog'[Len(kernelLog')] = Lost \/ kernelLog'[Len(kernelLog')] >= gLog.to
    <3>1. PICK n \in Nat : n = Len(NewLines)
      BY <2>1
    <3>2. kernelLog' = kernelLog \o Prefix(NewLines, n) /\ n >= Len(NewLines) /\ pc = "write"
      BY <1>7, <2>1, <3>1 DEF Write
    <3> QED BY <3>2, AppendsInPlace
  <2>3. /\ UNCHANGED <<written, previousLog, lastBoot, gLog, round, complaints, unanchored, misled, failures, boots>>
        /\ gCopy' = gLog /\ pc' = "beat" /\ gLog # Empty
    BY <1>7 DEF Write, LogInv, PartsInOrder
  <2>4. LogTypeOK'
    BY <2>2, <2>3 DEF LogInv, NoSilentLoss, LogTypeOK, Entries
  <2>5. PartsInOrder'
    BY <2>3, PartNumbers DEF LogInv, PartsInOrder, RingPart
  <2> QED BY <2>2, <2>3, <2>4, <2>5 DEF LogInv, NoSilentLoss, Marked, EndsInPlace, InPlace, Unbroken, RightPlace
<1>8. CASE WriteFails
  <2>1. PICK n \in 0 .. Len(NewLines) : kernelLog' = kernelLog \o Prefix(NewLines, n)
    BY <1>8 DEF WriteFails, FailAfterPart
  <2>2. n \in Nat
    BY <1>8, NewLinesType, LenProperties DEF WriteFails, FailAfterPart
  <2>3. /\ kernelLog' \in Seq(Entries)
        /\ InPlace => Marked(kernelLog')
        /\ InPlace /\ gCopy # Empty /\ kernelLog' # <<>> =>
              \/ kernelLog'[Len(kernelLog')] = Lost
              \/ kernelLog'[Len(kernelLog')] >= gCopy.to
              \/ ~Reaches(gLog, gCopy)
    BY <1>8, <2>1, <2>2, AppendsInPlace DEF WriteFails, FailAfterPart
  <2>4. /\ UNCHANGED <<previousLog, lastBoot, gLog, gCopy, round, misled, boots>> /\ pc' = "beat"
        /\ unanchored' = (unanchored \/ gCopy = Empty) /\ unanchored' \in BOOLEAN
        /\ written' \in 0 .. MaxLog /\ written' >= written /\ failures' \in 0 .. MaxFailures
        /\ complaints' \in 0 .. 3
    BY <1>8, <1>f, <1>l, <1>t DEF WriteFails, FailAfterPart
  <2>5. LogTypeOK'
    BY <2>3, <2>4 DEF LogInv, NoSilentLoss, LogTypeOK, Entries
  <2>6. PartsInOrder'
    BY <1>n, <2>4 DEF LogInv, PartsInOrder, RingPart
  <2> QED BY <2>3, <2>4, <2>5, <2>6
      DEF LogInv, NoSilentLoss, Marked, EndsInPlace, Reaches, AnchorOf, InPlace, Unbroken, RightPlace
<1>9. CASE Reboot
  <2>1. /\ kernelLog' \in Seq(Entries)
        /\ InPlace => Marked(kernelLog')
    <3>1. PICK n \in 0 .. RingSize + 1 :
              kernelLog' = IF pc = "write" THEN kernelLog \o Prefix(NewLines, n) ELSE kernelLog
      BY <1>9 DEF Reboot
    <3>2. n \in Nat
      BY LogSaverAssumption
    <3>3. CASE pc = "write"
      BY <3>1, <3>2, <3>3, AppendsInPlace
    <3>4. CASE pc # "write"
      BY <1>t, <3>1, <3>4 DEF LogInv, NoSilentLoss, Marked, InPlace, Unbroken
    <3> QED BY <3>3, <3>4
  <2>2. /\ boots' \in 1 .. MaxBoots + 1 /\ lastBoot' = kernelLog' /\ written' = 0 /\ gLog' = Empty /\ gCopy' = Empty
        /\ round' = 0 /\ complaints' = 0 /\ pc' = "keep" /\ UNCHANGED <<previousLog, unanchored, misled, failures>>
    BY <1>9, LogSaverAssumption DEF Reboot, LogInv, NoSilentLoss, LogTypeOK
  <2>3. LogTypeOK'
    BY <1>e, <2>1, <2>2, LogSaverAssumption DEF LogInv, NoSilentLoss, LogTypeOK, Entries
  <2> QED BY <2>1, <2>2, <2>3
      DEF LogInv, NoSilentLoss, Marked, PartsInOrder, EndsInPlace, InPlace, Unbroken, RightPlace
<1>10. CASE UNCHANGED logVars
  BY <1>10, <1>a, <1>l, <1>t DEF logVars, files
<1> QED BY <1>1, <1>2, <1>3, <1>4, <1>5, <1>6, <1>7, <1>8, <1>9, <1>10 DEF LogNext, Program

\* log-saver/src/main.cpp:82, for every ring, anchor and course of the log, for
\* any number of boots and failed writes: where lines are missing a line says so,
\* unless a round was misled by bytes that were logged twice.
THEOREM NothingIsLostSilently == LogSpec => []NoSilentLoss
<1>1. LogSpec => []LogInv
  BY LogInitInv, LogNextInv, PTL DEF LogSpec
<1>2. LogInv => NoSilentLoss
  BY DEF LogInv
<1> QED BY <1>1, <1>2, PTL

(***************************************************************************)
(* The file browser's history                                              *)
(***************************************************************************)

\* The stacks and the current folder, apart from what the window shows.
HistoryInv ==
    /\ currentPath \in Folders
    /\ backStack \in Seq(Folders)
    /\ forwardStack \in Seq(Folders)
    /\ HistoryFits

-----------------------------------------------------------------------------
(* The operations on a stack.                                               *)

\* push() below the limit appends.
LEMMA PushAppends ==
    ASSUME NEW stack \in Seq(Folders), NEW path \in Folders, Len(stack) < kHistory
    PROVE  /\ push(stack, path) = Append(stack, path)
           /\ push(stack, path) \in Seq(Folders)
           /\ Len(push(stack, path)) = Len(stack) + 1
BY AppendProperties, BrowserAssumption DEF push

\* push() at the limit drops the oldest, so a stack never outgrows it.
LEMMA PushDrops ==
    ASSUME NEW stack \in Seq(Folders), NEW path \in Folders, Len(stack) = kHistory
    PROVE  /\ Tail(stack) \in Seq(Folders)
           /\ Len(Tail(stack)) = kHistory - 1
           /\ \A i \in 1 .. kHistory - 1 : Tail(stack)[i] = stack[i + 1]
           /\ push(stack, path) = Append(Tail(stack), path)
           /\ push(stack, path) \in Seq(Folders)
           /\ Len(push(stack, path)) = kHistory
<1>1. stack # <<>>
  BY BrowserAssumption
<1>2. /\ Tail(stack) \in Seq(Folders)
      /\ Len(Tail(stack)) = kHistory - 1
      /\ \A i \in 1 .. kHistory - 1 : Tail(stack)[i] = stack[i + 1]
  BY <1>1, HeadTailProperties, BrowserAssumption
<1> QED BY <1>2, AppendProperties, BrowserAssumption DEF push

\* push() gives a stack of folders within the limit.
LEMMA PushFits ==
    ASSUME NEW stack \in Seq(Folders), NEW path \in Folders, Len(stack) <= kHistory
    PROVE  /\ push(stack, path) \in Seq(Folders)
           /\ Len(push(stack, path)) <= kHistory
           /\ push(stack, path) # <<>>
<1>1. CASE Len(stack) = kHistory
  BY <1>1, PushDrops, BrowserAssumption
<1>2. CASE Len(stack) < kHistory
  BY <1>2, PushAppends, BrowserAssumption, LenProperties
<1> QED BY <1>1, <1>2, BrowserAssumption, LenProperties

\* Taking the newest place off a stack.
LEMMA PopProperties ==
    ASSUME NEW stack \in Seq(Folders), stack # <<>>
    PROVE  /\ Last(stack) \in Folders
           /\ Front(stack) \in Seq(Folders)
           /\ Len(stack) > 0
           /\ Len(Front(stack)) = Len(stack) - 1
           /\ \A i \in 1 .. Len(stack) - 1 : Front(stack)[i] = stack[i]
<1>1. Len(stack) \in Nat \ {0} /\ stack \in [1 .. Len(stack) -> Folders]
  BY LenProperties, EmptySeq
<1>2. \A i \in 1 .. Len(stack) - 1 : stack[i] \in Folders
  BY <1>1
<1>3. /\ SubSeq(stack, 1, Len(stack) - 1) \in Seq(Folders)
      /\ Len(SubSeq(stack, 1, Len(stack) - 1)) = Len(stack) - 1
      /\ \A i \in 1 .. Len(stack) - 1 : SubSeq(stack, 1, Len(stack) - 1)[i] = stack[i]
  BY <1>1, <1>2, SubSeqProperties
<1> QED BY <1>1, <1>3 DEF Front, Last

-----------------------------------------------------------------------------
(* The invariant.                                                           *)

\* Where navigate() goes is a folder, and it alone may drop a place.
LEMMA NavigateKeeps ==
    ASSUME HistoryInv, NEW path \in Folders, NEW select, navigate(path, select)
    PROVE  HistoryInv'
<1>1. /\ push(backStack, currentPath) \in Seq(Folders)
      /\ Len(push(backStack, currentPath)) <= kHistory
  BY PushFits, LenProperties, BrowserAssumption DEF HistoryInv, HistoryFits
<1>2. forwardStack' \in Seq(Folders) /\ Len(forwardStack') = 0
  BY EmptySeq DEF navigate
<1> QED BY <1>1, <1>2, LenProperties, BrowserAssumption DEF navigate, HistoryInv, HistoryFits

\* Every step keeps the invariant.
LEMMA HistoryStep ==
    ASSUME HistoryInv, [Next]_vars
    PROVE  HistoryInv'
<1>0. /\ Len(backStack) \in Nat
      /\ Len(forwardStack) \in Nat
  BY LenProperties DEF HistoryInv
<1>1. CASE OpenEntry
  BY <1>1, NavigateKeeps DEF OpenEntry
<1>2. CASE OpenPlace
  BY <1>2, NavigateKeeps DEF OpenPlace
<1>3. CASE open_parent
  <2>1. Parent[currentPath] \in Folders
    BY <1>3, BrowserAssumption DEF open_parent, HistoryInv
  <2> QED BY <1>3, <2>1, NavigateKeeps DEF open_parent
<1>4. CASE go_back
  <2>1. /\ Last(backStack) \in Folders
        /\ Front(backStack) \in Seq(Folders)
        /\ Len(backStack) > 0
        /\ Len(Front(backStack)) = Len(backStack) - 1
    BY <1>4, PopProperties DEF go_back, HistoryInv
  <2>2. Len(forwardStack) < kHistory
    BY <1>0, <2>1, BrowserAssumption DEF HistoryInv, HistoryFits
  <2>3. /\ push(forwardStack, currentPath) \in Seq(Folders)
        /\ Len(push(forwardStack, currentPath)) = Len(forwardStack) + 1
    BY <2>2, PushAppends DEF HistoryInv
  <2> QED BY <1>0, <1>4, <2>1, <2>3, BrowserAssumption DEF go_back, HistoryInv, HistoryFits
<1>5. CASE go_forward
  <2>1. /\ Last(forwardStack) \in Folders
        /\ Front(forwardStack) \in Seq(Folders)
        /\ Len(forwardStack) > 0
        /\ Len(Front(forwardStack)) = Len(forwardStack) - 1
    BY <1>5, PopProperties DEF go_forward, HistoryInv
  <2>2. Len(backStack) < kHistory
    BY <1>0, <2>1, BrowserAssumption DEF HistoryInv, HistoryFits
  <2>3. /\ push(backStack, currentPath) \in Seq(Folders)
        /\ Len(push(backStack, currentPath)) = Len(backStack) + 1
    BY <2>2, PushAppends DEF HistoryInv
  <2> QED BY <1>0, <1>5, <2>1, <2>3, BrowserAssumption DEF go_forward, HistoryInv, HistoryFits
<1>6. CASE UNCHANGED history
  BY <1>6 DEF history, HistoryInv, HistoryFits
<1> QED
  BY <1>1, <1>2, <1>3, <1>4, <1>5, <1>6 DEF Next, vars, Reload, Search, Select, DiskChanges

\* The browser starts in a folder with nothing to go back to.
LEMMA HistoryInit == ASSUME Init PROVE HistoryInv
BY EmptySeq, BrowserAssumption DEF Init, HistoryInv, HistoryFits

\* Back and Forward never find a full stack, whatever the order of opening,
\* going back and going forward: push() drops a place only for navigate().
THEOREM HistoryAlwaysFits == Spec => []HistoryFits
<1>1. Spec => []HistoryInv
  BY HistoryInit, HistoryStep, PTL DEF Spec
<1>2. HistoryInv => HistoryFits
  BY DEF HistoryInv
<1> QED BY <1>1, <1>2, PTL

\* Every action that changes the path or a stack ends in load_directory() with
\* the new ones, so a button is enabled exactly when pressing it does something.
THEOREM ButtonsAlwaysMatch == Spec => []ButtonsMatch
<1>1. ASSUME Init PROVE ButtonsMatch
  BY <1>1 DEF Init, ButtonsMatch
<1>2. ASSUME ButtonsMatch, [Next]_vars PROVE ButtonsMatch'
  <2>1. ASSUME NEW path, NEW select, navigate(path, select) PROVE ButtonsMatch'
    BY <2>1 DEF navigate, load_directory, ButtonsMatch, EnabledAt
  <2>2. CASE OpenEntry \/ OpenPlace \/ open_parent
    BY <2>1, <2>2 DEF OpenEntry, OpenPlace, open_parent
  <2>3. CASE go_back \/ go_forward
    BY <2>3 DEF go_back, go_forward, load_directory, ButtonsMatch, EnabledAt
  <2>4. CASE Reload
    BY <2>4 DEF Reload, load_directory, ButtonsMatch, EnabledAt, history
  <2>5. CASE UNCHANGED <<history, enabled>>
    BY <1>2, <2>5 DEF history, ButtonsMatch, EnabledAt
  <2> QED BY <1>2, <2>2, <2>3, <2>4, <2>5 DEF Next, vars, Search, Select, DiskChanges
<1> QED BY <1>1, <1>2, PTL DEF Spec

-----------------------------------------------------------------------------
(* The rows of the list.                                                    *)

\* f is defined by recursion over 0 .. n, from b by the steps G.
Recursion(f, n, V, b, G) == f \in [0 .. n -> V] /\ f[0] = b /\ \A j \in 1 .. n : f[j] = G[j][f[j - 1]]

\* There is such a function ...
LEMMA RecursionExists ==
    ASSUME NEW n \in Nat, NEW V, NEW b \in V, NEW G \in [1 .. n -> [V -> V]]
    PROVE  \E f : Recursion(f, n, V, b, G)
<1> DEFINE Is(f, m) == f \in [0 .. m -> V] /\ f[0] = b /\ \A j \in 1 .. m : f[j] = G[j][f[j - 1]]
           Bad == {m \in 0 .. n : ~\E f : Is(f, m)}
<1>1. Bad = {}
  <2> SUFFICES ASSUME Bad # {} PROVE FALSE
    OBVIOUS
  <2>1. PICK m \in Bad : \A k \in Bad : m <= k
    <3>1. Bad \subseteq Nat
      OBVIOUS
    <3> HIDE DEF Bad
    <3> QED BY <3>1, LeastExists
  <2>2. CASE m = 0
    <3>1. Is([j \in 0 .. 0 |-> b], 0)
      OBVIOUS
    <3> QED BY <2>2, <3>1
  <2>3. CASE m # 0
    <3>1. m \in 1 .. n /\ m - 1 \in 0 .. n /\ ~(m <= m - 1)
      BY <2>3
    <3>2. PICK f : Is(f, m - 1)
      BY <2>1, <3>1
    <3>3. PICK v \in V : v = G[m][f[m - 1]]
      BY <3>1, <3>2
    <3> DEFINE g == [j \in 0 .. m |-> IF j = m THEN v ELSE f[j]]
    <3>4. g \in [0 .. m -> V] /\ g[0] = b
      BY <3>1, <3>2
    <3>5. ASSUME NEW j \in 1 .. m PROVE g[j] = G[j][g[j - 1]]
      <4>1. CASE j = m
        BY <3>1, <3>3, <4>1
      <4>2. CASE j # m
        <5>1. j \in 1 .. m - 1 /\ j - 1 \in 0 .. m /\ j - 1 # m /\ j \in 0 .. m
          BY <3>1, <4>2
        <5> QED BY <3>2, <4>2, <5>1
      <4> QED BY <4>1, <4>2
    <3>6. Is(g, m)
      BY <3>4, <3>5
    <3> QED BY <3>6
  <2> QED BY <2>2, <2>3
<1>2. n \in 0 .. n
  OBVIOUS
<1> QED BY <1>1, <1>2 DEF Recursion

\* From equal values the next ones are equal.
InStep(f, h, n) == f[0] = h[0] /\ \A j \in 1 .. n : f[j - 1] = h[j - 1] => f[j] = h[j]

\* ... and it is the only one.
LEMMA RecursionIsUnique ==
    ASSUME NEW n \in Nat, NEW f, NEW h, InStep(f, h, n)
    PROVE  \A j \in 0 .. n : f[j] = h[j]
<1> DEFINE Differ == {j \in 0 .. n : f[j] # h[j]}
<1> SUFFICES ASSUME Differ # {} PROVE FALSE
  OBVIOUS
<1>1. PICK m \in Differ : \A k \in Differ : m <= k
  <2>1. Differ \subseteq Nat
    OBVIOUS
  <2> HIDE DEF Differ
  <2> QED BY <2>1, LeastExists
<1>2. m # 0
  BY DEF InStep
<1>3. m \in 1 .. n /\ m - 1 \in 0 .. n /\ ~(m <= m - 1)
  BY <1>2
<1> QED BY <1>1, <1>3 DEF InStep
\* One entry of the list: it is a row when its name contains the text.
Grow(list, text, rows, j) == IF list[j] \in text THEN Append(rows, list[j]) ELSE rows

\* apply_filter()'s loop: the rows after each entry.
LEMMA MatchingGrows ==
    ASSUME NEW list \in Seq(Nodes), NEW text
    PROVE  \E f : /\ f \in [0 .. Len(list) -> Seq(Nodes)] /\ f[0] = <<>>
                  /\ \A j \in 1 .. Len(list) : f[j] = Grow(list, text, f[j - 1], j)
                  /\ Matching(list, text) = f[Len(list)]
<1> DEFINE n == Len(list)
           G == [j \in 1 .. n |-> [rows \in Seq(Nodes) |-> Grow(list, text, rows, j)]]
           Is(f) == f = [i \in 0 .. n |-> IF i = 0 THEN <<>>
                                          ELSE IF list[i] \in text THEN Append(f[i - 1], list[i]) ELSE f[i - 1]]
           rows == CHOOSE f : Is(f)
<1>0. n \in Nat /\ \A j \in 1 .. n : list[j] \in Nodes
  BY LenProperties, ElementOfSeq
<1>1. G \in [1 .. n -> [Seq(Nodes) -> Seq(Nodes)]]
  BY <1>0, AppendProperties DEF Grow
<1>2. <<>> \in Seq(Nodes)
  BY EmptySeq
<1>3. PICK f : Recursion(f, n, Seq(Nodes), <<>>, G)
  <2> HIDE DEF G, n
  <2> QED BY <1>0, <1>1, <1>2, RecursionExists
<1>4. /\ f \in [0 .. n -> Seq(Nodes)] /\ f[0] = <<>>
      /\ \A j \in 1 .. n : f[j] = Grow(list, text, f[j - 1], j)
  <2>1. f \in [0 .. n -> Seq(Nodes)] /\ f[0] = <<>> /\ \A j \in 1 .. n : f[j] = G[j][f[j - 1]]
    BY <1>3 DEF Recursion
  <2>2. ASSUME NEW j \in 1 .. n PROVE f[j] = Grow(list, text, f[j - 1], j)
    <3>1. j - 1 \in 0 .. n
      BY <1>0
    <3>2. f[j - 1] \in Seq(Nodes)
      BY <2>1, <3>1
    <3> HIDE DEF n
    <3> QED BY <2>1, <3>2
  <2> QED BY <2>1, <2>2
<1>5. Is(f)
  <2>1. ASSUME NEW i \in 0 .. n
        PROVE  f[i] = IF i = 0 THEN <<>>
                      ELSE IF list[i] \in text THEN Append(f[i - 1], list[i]) ELSE f[i - 1]
    <3>1. CASE i = 0
      BY <1>4, <3>1
    <3>2. CASE i # 0
      <4>1. i \in 1 .. n
        BY <1>0, <3>2
      <4> HIDE DEF n
      <4> QED BY <1>4, <3>2, <4>1 DEF Grow
    <3> QED BY <3>1, <3>2
  <2> HIDE DEF n
  <2> QED BY <1>4, <2>1
<1>6. Is(rows)
  <2> HIDE DEF Is
  <2> QED BY <1>5
<1>7. InStep(rows, f, n)
  <2>1. /\ rows[0] = <<>>
        /\ \A i \in 1 .. n : rows[i] = IF list[i] \in text THEN Append(rows[i - 1], list[i]) ELSE rows[i - 1]
    <3> HIDE DEF rows
    <3>1. 0 \in 0 .. n /\ \A i \in 1 .. n : i \in 0 .. n /\ i # 0
      BY <1>0
    <3> HIDE DEF n
    <3> QED BY <1>6, <3>1
  <2> HIDE DEF rows, n
  <2> QED BY <1>4, <2>1 DEF InStep, Grow
<1>8. rows[n] = f[n]
  <2> HIDE DEF rows, n
  <2> QED BY <1>0, <1>7, RecursionIsUnique
<1>9. Matching(list, text) = rows[n]
  BY DEF Matching
<1> QED BY <1>4, <1>8, <1>9

\* Every row is an entry.
LEMMA MatchingType ==
    ASSUME NEW list \in Seq(Nodes), NEW text
    PROVE  Matching(list, text) \in Seq(Nodes)
<1>1. Len(list) \in 0 .. Len(list)
  BY LenProperties
<1> QED BY <1>1, MatchingGrows

\* The rows are the entries that match, in the order of the entries.
LEMMA MatchingIs ==
    ASSUME NEW list \in Seq(Nodes), NEW text
    PROVE  /\ \A n : In(n, Matching(list, text)) <=> In(n, list) /\ n \in text
           /\ InOrder(list) => InOrder(Matching(list, text))
<1>0. Len(list) \in Nat /\ DOMAIN list = 1 .. Len(list)
  BY LenProperties
<1>1. PICK f : /\ f \in [0 .. Len(list) -> Seq(Nodes)] /\ f[0] = <<>>
               /\ \A j \in 1 .. Len(list) : f[j] = Grow(list, text, f[j - 1], j)
               /\ Matching(list, text) = f[Len(list)]
  BY MatchingGrows
<1> DEFINE FromList(j) == \A r \in DOMAIN f[j] : \E i \in 1 .. j : list[i] = f[j][r] /\ list[i] \in text
           Has(j) == \A i \in 1 .. j : list[i] \in text => In(list[i], f[j])
           Ordered(j) == InOrder(list) => InOrder(f[j])
           Bad == {j \in 0 .. Len(list) : ~(FromList(j) /\ Has(j) /\ Ordered(j))}
<1>2. FromList(0) /\ Has(0) /\ Ordered(0)
  <2>1. DOMAIN f[0] = {}
    BY <1>1
  <2> QED BY <2>1 DEF InOrder
<1>3. ASSUME NEW j \in 1 .. Len(list), FromList(j - 1), Has(j - 1), Ordered(j - 1)
      PROVE  FromList(j) /\ Has(j) /\ Ordered(j)
  <2>0. /\ j \in Nat /\ j - 1 \in 0 .. Len(list) /\ f[j - 1] \in Seq(Nodes) /\ list[j] \in Nodes
        /\ \A i : i \in 1 .. j <=> i \in 1 .. j - 1 \/ i = j
        /\ \A i \in 1 .. j - 1 : i \in DOMAIN list /\ i < j
        /\ j \in DOMAIN list
    BY <1>0, <1>1, ElementOfSeq
  <2>1. f[j] = Grow(list, text, f[j - 1], j)
    BY <1>1
  <2>2. CASE list[j] \notin text
    <3>1. f[j] = f[j - 1]
      BY <2>1, <2>2 DEF Grow
    <3> HIDE DEF Bad
    <3>2. FromList(j)
      BY <1>3, <2>0, <3>1
    <3>3. Has(j)
      BY <1>3, <2>0, <2>2, <3>1
    <3> QED BY <1>3, <3>1, <3>2, <3>3
  <2>3. CASE list[j] \in text
    <3> DEFINE n == Len(f[j - 1])
    <3>1. f[j] = Append(f[j - 1], list[j])
      BY <2>1, <2>3 DEF Grow
    <3>2. /\ n \in Nat /\ DOMAIN f[j - 1] = 1 .. n /\ DOMAIN f[j] = 1 .. n + 1
          /\ f[j][n + 1] = list[j] /\ \A r \in 1 .. n : f[j][r] = f[j - 1][r]
      BY <2>0, <3>1, AppendProperties, LenProperties
    <3> HIDE DEF n, Bad
    <3>3. \A r \in DOMAIN f[j] : r \in 1 .. n \/ r = n + 1
      BY <3>2
    <3>6. 1 .. n \subseteq 1 .. n + 1 /\ n + 1 \in 1 .. n + 1
      BY <3>2
    <3>4. FromList(j)
      <4>1. ASSUME NEW r \in 1 .. n PROVE \E i \in 1 .. j : list[i] = f[j][r] /\ list[i] \in text
        <5>1. PICK i \in 1 .. j - 1 : list[i] = f[j - 1][r] /\ list[i] \in text
          BY <1>3, <3>2
        <5> QED BY <2>0, <3>2, <5>1
      <4>2. \E i \in 1 .. j : list[i] = f[j][n + 1] /\ list[i] \in text
        BY <2>0, <2>3, <3>2
      <4> QED BY <3>3, <4>1, <4>2
    <3>5. Has(j)
      <4>1. ASSUME NEW i \in 1 .. j - 1, list[i] \in text PROVE In(list[i], f[j])
        <5>1. PICK r \in DOMAIN f[j - 1] : f[j - 1][r] = list[i]
          BY <1>3, <4>1 DEF In
        <5>2. r \in DOMAIN f[j] /\ f[j][r] = list[i]
          BY <5>1, <3>2, <3>6
        <5> QED BY <5>2 DEF In
      <4>2. In(list[j], f[j])
        BY <3>2, <3>6 DEF In
      <4> QED BY <2>0, <4>1, <4>2
    <3>7. Ordered(j)
      <4> SUFFICES ASSUME InOrder(list), NEW r \in DOMAIN f[j], NEW q \in DOMAIN f[j], r < q
                   PROVE  Order[f[j][r]] <= Order[f[j][q]]
        BY DEF InOrder
      <4>1. r \in 1 .. n
        BY <3>2
      <4>2. CASE q \in 1 .. n
        BY <1>3, <3>2, <4>1, <4>2 DEF InOrder
      <4>3. CASE q = n + 1
        <5>1. PICK i \in 1 .. j - 1 : list[i] = f[j - 1][r]
          BY <1>3, <3>2, <4>1
        <5>2. Order[list[i]] <= Order[list[j]]
          BY <2>0 DEF InOrder
        <5> QED BY <3>2, <4>1, <4>3, <5>1, <5>2
      <4> QED BY <3>3, <4>2, <4>3
    <3> QED BY <3>4, <3>5, <3>7
  <2> QED BY <2>2, <2>3
<1>4. Bad = {}
  <2> SUFFICES ASSUME Bad # {} PROVE FALSE
    OBVIOUS
  <2>1. PICK m \in Bad : \A k \in Bad : m <= k
    <3>1. Bad \subseteq Nat
      BY <1>0
    <3> HIDE DEF Bad
    <3> QED BY <3>1, LeastExists
  <2> HIDE DEF FromList, Has, Ordered
  <2>2. m # 0
    BY <1>2
  <2>3. m \in 1 .. Len(list) /\ m - 1 \in 0 .. Len(list) /\ ~(m <= m - 1)
    BY <1>0, <2>2
  <2> QED BY <1>3, <2>1, <2>3
<1>5. FromList(Len(list)) /\ Has(Len(list)) /\ Ordered(Len(list))
  <2> HIDE DEF FromList, Has, Ordered
  <2>1. Len(list) \in 0 .. Len(list)
    BY <1>0
  <2> QED BY <1>4, <2>1
<1>6. ASSUME NEW n PROVE In(n, Matching(list, text)) <=> In(n, list) /\ n \in text
  <2> DEFINE rows == f[Len(list)]
  <2>1. ASSUME In(n, rows) PROVE In(n, list) /\ n \in text
    <3>1. PICK r \in DOMAIN rows : rows[r] = n
      BY <2>1 DEF In
    <3>2. PICK i \in 1 .. Len(list) : list[i] = n /\ list[i] \in text
      BY <1>5, <3>1
    <3> QED BY <1>0, <3>2 DEF In
  <2>2. ASSUME In(n, list), n \in text PROVE In(n, rows)
    <3>1. PICK i \in 1 .. Len(list) : list[i] = n
      BY <1>0, <2>2 DEF In
    <3> QED BY <1>5, <2>2, <3>1
  <2> HIDE DEF rows
  <2>3. Matching(list, text) = rows
    BY <1>1 DEF rows
  <2> QED BY <2>1, <2>2, <2>3
<1> QED BY <1>1, <1>5, <1>6

\* apply_filter() selects a row whenever there is one, and that of `keep` if it has one.
LEMMA FilterSelects ==
    ASSUME NEW list \in Seq(Nodes), NEW text, NEW keep, apply_filter(list, text, keep)
    PROVE  /\ visible' = Matching(list, text)
           /\ visible' \in Seq(Nodes)
           /\ selected' \in 0 .. Len(visible')
           /\ selected' = 0 <=> visible' = <<>>
           /\ In(keep, visible') => selected' # 0 /\ visible'[selected'] = keep
<1>1. /\ visible' = Matching(list, text)
      /\ selected' = IF In(keep, visible') THEN Row(visible', keep) ELSE IF visible' = <<>> THEN 0 ELSE 1
  BY DEF apply_filter
<1>2. visible' \in Seq(Nodes)
  BY <1>1, MatchingType
<1>3. Len(visible') \in Nat /\ DOMAIN visible' = 1 .. Len(visible') /\ (Len(visible') = 0 <=> visible' = <<>>)
  BY <1>2, LenProperties, EmptySeq
<1>4. CASE In(keep, visible')
  <2>1. Row(visible', keep) \in DOMAIN visible' /\ visible'[Row(visible', keep)] = keep
    BY <1>4 DEF In, Row
  <2> QED BY <1>1, <1>2, <1>3, <1>4, <2>1
<1>5. CASE ~In(keep, visible')
  BY <1>1, <1>2, <1>3, <1>5
<1> QED BY <1>4, <1>5

\* What was read, sorted, fits in the entries.
LEMMA SortedFits ==
    ASSUME NEW path, disk \subseteq Nodes, NEW found \in SUBSET (Nodes \ {Root}), Read(path, found),
           NEW list \in Sorted(found)
    PROVE  list \in Seq(Nodes) /\ Len(list) <= kMaxEntries /\ InOrder(list)
<1> DEFINE there == {n \in disk \ {Root} : Parent[n] = path}
<1>1. Cardinality(found) \in Nat /\ Cardinality(there) \in Nat
  <2>1. IsFiniteSet(found) /\ IsFiniteSet(there)
    BY BrowserAssumption, FS_Subset
  <2> QED BY <2>1, FS_CardinalityType
<1>2. Cardinality(found) <= kMaxEntries
  <2>1. CASE found = {}
    BY <2>1, FS_EmptySet, BrowserAssumption
  <2>2. CASE Cardinality(found) = IF Cardinality(there) > kMaxEntries THEN kMaxEntries ELSE Cardinality(there)
    BY <1>1, <2>2, BrowserAssumption
  <2> QED BY <2>1, <2>2 DEF Read
<1>3. list \in [1 .. Cardinality(found) -> found]
  BY DEF Sorted
<1>4. list \in Seq(found) /\ Len(list) = Cardinality(found)
  BY <1>1, <1>3, SeqDef, LenProperties
<1>5. InOrder(list)
  BY DEF Sorted
<1> QED BY <1>2, <1>4, <1>5

-----------------------------------------------------------------------------
(* The window after a handler.                                              *)

\* load_directory() leaves rows, buttons and selection that belong together.
LEMMA LoadMatches ==
    ASSUME NEW path, NEW back, NEW forward, NEW text, NEW select, disk \subseteq Nodes,
           load_directory(path, back, forward, text, select)
    PROVE  /\ entries' \in Seq(Nodes) /\ Len(entries') <= kMaxEntries /\ InOrder(entries')
           /\ visible' = Matching(entries', text)
           /\ visible' \in Seq(Nodes)
           /\ selected' \in 0 .. Len(visible')
           /\ selected' = 0 <=> visible' = <<>>
           /\ In(select, visible') => selected' # 0 /\ visible'[selected'] = select
<1>1. PICK found \in SUBSET (Nodes \ {Root}) :
          Read(path, found) /\ entries' \in Sorted(found) /\ apply_filter(entries', text, select)
  BY DEF load_directory
<1>2. entries' \in Seq(Nodes) /\ Len(entries') <= kMaxEntries /\ InOrder(entries')
  BY <1>1, SortedFits
<1> QED BY <1>1, <1>2, FilterSelects

\* What the window shows, apart from its place and its buttons.
RowsInv ==
    /\ disk \in SUBSET Nodes
    /\ entries \in Seq(Nodes) /\ Len(entries) <= kMaxEntries /\ InOrder(entries)
    /\ search \in Searches
    /\ visible \in Seq(Nodes)
    /\ selected \in 0 .. Len(visible)
    /\ RowsMatch

LEMMA RowsInit == ASSUME Init PROVE RowsInv
<1>1. disk \subseteq Nodes /\ search = Nodes /\ Nodes \in Searches
  BY BrowserAssumption DEF Init
<1>2. PICK found \in SUBSET (Nodes \ {Root}) : Read(Home, found) /\ entries \in Sorted(found)
  BY DEF Init
<1>3. entries \in Seq(Nodes) /\ Len(entries) <= kMaxEntries /\ InOrder(entries)
  BY <1>1, <1>2, SortedFits
<1>4. /\ visible = Matching(entries, search)
      /\ selected = IF visible = <<>> THEN 0 ELSE 1
  BY DEF Init
<1>5. visible \in Seq(Nodes)
  BY <1>3, <1>4, MatchingType
<1>6. Len(visible) \in Nat /\ (Len(visible) = 0 <=> visible = <<>>)
  BY <1>5, LenProperties, EmptySeq
<1>7. (\A n \in Nodes : In(n, visible) <=> In(n, entries) /\ n \in search) /\ InOrder(visible)
  BY <1>3, <1>4, MatchingIs
<1> QED BY <1>1, <1>3, <1>4, <1>5, <1>6, <1>7 DEF RowsInv, RowsMatch

\* The folder is read and filtered with the search box as it is from then on.
LEMMA LoadKeepsRows ==
    ASSUME RowsInv, NEW path, NEW back, NEW forward, NEW select,
           load_directory(path, back, forward, search', select), search' \in Searches, UNCHANGED disk
    PROVE  RowsInv'
<1>1. disk \subseteq Nodes
  BY DEF RowsInv
<1>2. /\ entries' \in Seq(Nodes) /\ Len(entries') <= kMaxEntries /\ InOrder(entries')
      /\ visible' = Matching(entries', search')
      /\ visible' \in Seq(Nodes)
      /\ selected' \in 0 .. Len(visible')
      /\ selected' = 0 <=> visible' = <<>>
  BY <1>1, LoadMatches
<1>3. (\A n \in Nodes : In(n, visible') <=> In(n, entries') /\ n \in search') /\ InOrder(visible')
  BY <1>2, MatchingIs
<1> QED BY <1>1, <1>2, <1>3 DEF RowsInv, RowsMatch

\* Every step keeps the rows those of the entries and the search.
LEMMA RowsStep ==
    ASSUME RowsInv, [Next]_vars
    PROVE  RowsInv'
<1>0. Nodes \in Searches
  BY BrowserAssumption
<1>1. ASSUME NEW path, NEW select, navigate(path, select), UNCHANGED disk PROVE RowsInv'
  <2>1. search' = Nodes /\ load_directory(path, backStack', forwardStack', search', select)
    BY <1>1 DEF navigate
  <2> QED BY <1>0, <1>1, <2>1, LoadKeepsRows
<1>2. CASE OpenEntry \/ OpenPlace \/ open_parent
  BY <1>1, <1>2 DEF OpenEntry, OpenPlace, open_parent
<1>3. CASE go_back \/ go_forward
  <2>1. /\ search' = Nodes /\ UNCHANGED disk
        /\ load_directory(currentPath', backStack', forwardStack', search', NoName)
    BY <1>3 DEF go_back, go_forward
  <2> QED BY <1>0, <2>1, LoadKeepsRows
<1>4. CASE Reload
  <2>1. /\ UNCHANGED <<disk, search>> /\ search' \in Searches
        /\ load_directory(currentPath, backStack, forwardStack, search', selected_name)
    BY <1>4 DEF Reload, RowsInv
  <2> QED BY <2>1, LoadKeepsRows
<1>5. CASE Search
  <2>1. /\ UNCHANGED <<disk, entries>> /\ search' \in Searches
        /\ apply_filter(entries, search', selected_name)
    BY <1>5 DEF Search
  <2>2. entries \in Seq(Nodes)
    BY DEF RowsInv
  <2>3. /\ visible' = Matching(entries, search')
        /\ visible' \in Seq(Nodes)
        /\ selected' \in 0 .. Len(visible')
        /\ selected' = 0 <=> visible' = <<>>
    BY <2>1, <2>2, FilterSelects
  <2>4. (\A n \in Nodes : In(n, visible') <=> In(n, entries) /\ n \in search') /\ (InOrder(entries) => InOrder(visible'))
    BY <2>2, <2>3, MatchingIs
  <2> QED BY <2>1, <2>3, <2>4 DEF RowsInv, RowsMatch
<1>6. CASE Select
  <2>1. visible \in Seq(Nodes) /\ selected' \in DOMAIN visible /\ UNCHANGED <<disk, search, entries, visible>>
    BY <1>6 DEF Select, RowsInv
  <2>2. Len(visible) \in Nat /\ DOMAIN visible = 1 .. Len(visible) /\ (Len(visible) = 0 <=> visible = <<>>)
    BY <2>1, LenProperties, EmptySeq
  <2>3. selected' \in 0 .. Len(visible) /\ (selected' = 0 <=> visible = <<>>)
    BY <2>1, <2>2
  <2> QED BY <2>1, <2>3 DEF RowsInv, RowsMatch
<1>7. CASE DiskChanges
  BY <1>7 DEF DiskChanges, listing, RowsInv, RowsMatch
<1>8. CASE UNCHANGED vars
  BY <1>8 DEF vars, listing, RowsInv, RowsMatch
<1> QED BY <1>2, <1>3, <1>4, <1>5, <1>6, <1>7, <1>8 DEF Next

\* What the window offers is what it can do, for every tree, whatever the other
\* programs do to the disk: no handler of main.cpp changes the place, the history,
\* the entries or the search without the buttons or the rows.
THEOREM WindowAlwaysMatches == Spec => []WindowMatches
<1>1. Spec => [](HistoryInv /\ RowsInv)
  <2>1. HistoryInv /\ RowsInv /\ [Next]_vars => (HistoryInv /\ RowsInv)'
    BY HistoryStep, RowsStep
  <2> QED BY <2>1, HistoryInit, RowsInit, PTL DEF Spec
<1>2. HistoryInv /\ RowsInv /\ ButtonsMatch => WindowMatches
  <2> SUFFICES ASSUME HistoryInv, RowsInv, ButtonsMatch PROVE WindowMatches
    OBVIOUS
  <2>1. /\ currentPath \in Folders
        /\ backStack \in Seq(Folders) /\ Len(backStack) <= kHistory
        /\ forwardStack \in Seq(Folders) /\ Len(forwardStack) <= kHistory
    BY LenProperties, BrowserAssumption DEF HistoryInv, HistoryFits
  <2>2. enabled \in [back : BOOLEAN, forward : BOOLEAN, up : BOOLEAN]
    BY DEF ButtonsMatch, EnabledAt
  <2> QED BY <2>1, <2>2 DEF WindowMatches, TypeOK, RowsInv
<1> QED BY <1>1, <1>2, ButtonsAlwaysMatch, PTL

\* A step that goes to another place changes the path or a stack.
LEMMA MovesChangeHistory ==
    ASSUME HistoryInv, OpenEntry \/ OpenPlace \/ open_parent \/ go_back \/ go_forward
    PROVE  ~UNCHANGED history
<1>1. CASE OpenEntry \/ OpenPlace \/ open_parent
  <2>1. currentPath' # currentPath
    BY <1>1 DEF OpenEntry, OpenPlace, open_parent, navigate
  <2> QED BY <2>1 DEF history
<1>2. CASE go_back
  <2>1. Len(backStack) > 0 /\ Len(backStack') = Len(backStack) - 1
    BY <1>2, PopProperties DEF go_back, HistoryInv
  <2>2. Len(backStack) \in Nat
    BY LenProperties DEF HistoryInv
  <2> QED BY <2>1, <2>2 DEF history
<1>3. CASE go_forward
  <2>1. Len(forwardStack) > 0 /\ Len(forwardStack') = Len(forwardStack) - 1
    BY <1>3, PopProperties DEF go_forward, HistoryInv
  <2>2. Len(forwardStack) \in Nat
    BY LenProperties DEF HistoryInv
  <2> QED BY <2>1, <2>2 DEF history
<1> QED BY <1>1, <1>2, <1>3

\* F5 and typing in the search box keep the selection on the same file when its
\* name still has a row, wherever that row is: apply_filter() looks the name up
\* before the rows it was found by are gone.
THEOREM SelectionIsKept == Spec => SelectionKept
<1> DEFINE Keeps == /\ UNCHANGED history
                    /\ selected # 0 /\ <<entries, search>>' # <<entries, search>>
                    /\ In(selected_name, visible')
                    => selected' # 0 /\ visible'[selected'] = visible[selected]
<1>1. HistoryInv /\ RowsInv /\ [Next]_vars => [Keeps]_vars
  <2> SUFFICES ASSUME HistoryInv, RowsInv, [Next]_vars,
                      UNCHANGED history, selected # 0, <<entries, search>>' # <<entries, search>>,
                      In(selected_name, visible')
               PROVE  selected' # 0 /\ visible'[selected'] = visible[selected]
    OBVIOUS
  <2>1. selected_name = visible[selected]
    BY DEF selected_name
  <2>2. disk \subseteq Nodes /\ entries \in Seq(Nodes)
    BY DEF RowsInv
  <2>3. CASE Reload
    <3>1. load_directory(currentPath, backStack, forwardStack, search, selected_name)
      BY <2>3 DEF Reload
    <3> QED BY <2>1, <2>2, <3>1, LoadMatches
  <2>4. CASE Search
    <3>1. apply_filter(entries, search', selected_name)
      BY <2>4 DEF Search
    <3> QED BY <2>1, <2>2, <3>1, FilterSelects
  <2>5. ~UNCHANGED <<entries, search>>
    OBVIOUS
  <2> QED BY <2>3, <2>4, <2>5, MovesChangeHistory DEF Next, Select, DiskChanges, vars, listing
<1>2. HistoryInv /\ RowsInv /\ [Next]_vars => (HistoryInv /\ RowsInv)'
  BY HistoryStep, RowsStep
<1> QED BY <1>1, <1>2, HistoryInit, RowsInit, PTL DEF Spec, SelectionKept

-----------------------------------------------------------------------------
(* The two stacks as a list of places.                                      *)

Visited(back, path, forward) == back \o <<path>> \o Reverse(forward)

\* Its elements: the back stack, the current place, the forward stack from the
\* newest to the oldest.
LEMMA VisitedElements ==
    ASSUME NEW back \in Seq(Folders), NEW path \in Folders, NEW forward \in Seq(Folders)
    PROVE  /\ Visited(back, path, forward) \in Seq(Folders)
           /\ Len(Visited(back, path, forward)) = Len(back) + 1 + Len(forward)
           /\ \A i \in 1 .. Len(back) + 1 + Len(forward) :
                 Visited(back, path, forward)[i] =
                    IF i <= Len(back) THEN back[i]
                    ELSE IF i = Len(back) + 1 THEN path
                    ELSE forward[Len(back) + 2 + Len(forward) - i]
<1> DEFINE n == Len(back) + 1
           left == back \o <<path>>
           right == Reverse(forward)
<1>1. Len(back) \in Nat /\ Len(forward) \in Nat /\ forward \in [1 .. Len(forward) -> Folders]
  BY LenProperties
<1>2. /\ right \in Seq(Folders)
      /\ Len(right) = Len(forward)
      /\ \A i \in 1 .. Len(forward) : right[i] = forward[Len(forward) - i + 1]
  <2>1. \A i \in 1 .. Len(forward) : forward[(Len(forward) - i) + 1] \in Folders
    BY <1>1
  <2>2. right = [i \in 1 .. Len(forward) |-> forward[(Len(forward) - i) + 1]]
    BY DEF Reverse
  <2>3. right \in Seq(Folders) /\ Len(right) = Len(forward)
    BY <1>1, <2>1, <2>2
  <2> QED BY <1>1, <2>2, <2>3
<1>3. /\ left \in Seq(Folders)
      /\ Len(left) = n
      /\ \A i \in 1 .. Len(back) : left[i] = back[i]
      /\ left[n] = path
  <2>1. left = Append(back, path)
    BY AppendIsConcat
  <2> QED BY <1>1, <2>1, AppendProperties
<1>4. Visited(back, path, forward) = left \o right
  BY DEF Visited
<1> HIDE DEF left, right
<1>5. /\ left \o right \in Seq(Folders)
      /\ Len(left \o right) = n + Len(forward)
      /\ \A i \in 1 .. n + Len(forward) :
            (left \o right)[i] = IF i <= n THEN left[i] ELSE right[i - n]
  <2>0. left \in Seq(Folders) /\ right \in Seq(Folders)
    BY <1>2, <1>3
  <2>1. /\ left \o right \in Seq(Folders)
        /\ Len(left \o right) = Len(left) + Len(right)
        /\ \A i \in 1 .. Len(left) + Len(right) :
              (left \o right)[i] = IF i <= Len(left) THEN left[i] ELSE right[i - Len(left)]
    BY <2>0, ConcatProperties
  <2> DEFINE both == left \o right
  <2> HIDE DEF both
  <2>2. /\ both \in Seq(Folders)
        /\ Len(both) = n + Len(forward)
        /\ \A i \in 1 .. n + Len(forward) : both[i] = IF i <= n THEN left[i] ELSE right[i - n]
    BY <1>2, <1>3, <2>1 DEF both
  <2> QED BY <2>2 DEF both
<1> DEFINE both == left \o right
<1> HIDE DEF both
<1>6. ASSUME NEW i \in 1 .. n + Len(forward)
      PROVE  both[i] = IF i <= Len(back) THEN back[i]
                       ELSE IF i = n THEN path
                       ELSE forward[Len(back) + 2 + Len(forward) - i]
  <2>0. both[i] = IF i <= n THEN left[i] ELSE right[i - n]
    BY <1>5 DEF both
  <2>1. CASE i < n
    BY <1>1, <1>3, <2>0, <2>1
  <2>2. CASE i = n
    BY <1>1, <1>3, <2>0, <2>2
  <2>3. CASE i > n
    <3>1. both[i] = right[i - n] /\ i - n \in 1 .. Len(forward)
      BY <1>1, <2>0, <2>3
    <3>2. Len(forward) - (i - n) + 1 = Len(back) + 2 + Len(forward) - i
      BY <1>1
    <3>3. both[i] = forward[Len(back) + 2 + Len(forward) - i]
      BY <1>2, <3>1, <3>2
    <3> QED BY <1>1, <2>3, <3>3
  <2> QED BY <1>1, <2>1, <2>2, <2>3
<1> QED BY <1>4, <1>5, <1>6 DEF both

\* The position is that of the current place, and the last after a visit.
LEMMA VisitedHere ==
    ASSUME NEW back \in Seq(Folders), NEW path \in Folders, NEW forward \in Seq(Folders)
    PROVE  /\ Visited(back, path, forward)[Len(back) + 1] = path
           /\ forward = <<>> => Len(Visited(back, path, forward)) = Len(back) + 1
<1>1. Len(back) \in Nat /\ Len(forward) \in Nat
  BY LenProperties
<1>2. Len(back) + 1 \in 1 .. Len(back) + 1 + Len(forward) /\ ~ Len(back) + 1 <= Len(back)
  BY <1>1
<1>3. Visited(back, path, forward)[Len(back) + 1] = path
  BY <1>2, VisitedElements
<1>4. ASSUME forward = <<>> PROVE Len(Visited(back, path, forward)) = Len(back) + 1
  <2>1. Len(Visited(back, path, forward)) = Len(back) + 1 + Len(forward)
    BY VisitedElements
  <2>2. Len(forward) = 0
    BY <1>4
  <2> QED BY <1>1, <2>1, <2>2
<1> QED BY <1>3, <1>4

\* Two lists of places with the same elements are the same list.
LEMMA SamePlaces ==
    ASSUME NEW v \in Seq(Folders), NEW w \in Seq(Folders), Len(v) = Len(w),
           \A i \in 1 .. Len(v) : v[i] = w[i]
    PROVE  v = w
BY SeqEqual

\* Going back moves the position and leaves the list as it is.
LEMMA PopPush ==
    ASSUME NEW back \in Seq(Folders), back # <<>>, NEW path \in Folders,
           NEW forward \in Seq(Folders)
    PROVE  Visited(Front(back), Last(back), Append(forward, path)) = Visited(back, path, forward)
<1> DEFINE top == Front(back)
           last == Last(back)
           more == Append(forward, path)
           v == Visited(back, path, forward)
           w == Visited(top, last, more)
           b == Len(back)
           f == Len(forward)
<1>1. b \in Nat /\ f \in Nat
  BY LenProperties
<1>2. /\ last \in Folders
      /\ top \in Seq(Folders)
      /\ b > 0
      /\ Len(top) = b - 1
      /\ \A i \in 1 .. b - 1 : top[i] = back[i]
  BY PopProperties
<1>3. /\ more \in Seq(Folders)
      /\ Len(more) = f + 1
      /\ \A i \in 1 .. f : more[i] = forward[i]
      /\ more[f + 1] = path
  BY AppendProperties
<1>4. last = back[b]
  BY DEF Last
<1> HIDE DEF top, last, more
<1>5. /\ v \in Seq(Folders)
      /\ Len(v) = b + 1 + f
      /\ \A i \in 1 .. b + 1 + f : v[i] = IF i <= b THEN back[i]
                                          ELSE IF i = b + 1 THEN path
                                          ELSE forward[b + 2 + f - i]
  BY VisitedElements
<1>6. /\ w \in Seq(Folders)
      /\ Len(w) = b + 1 + f
      /\ \A i \in 1 .. b + 1 + f : w[i] = IF i <= b - 1 THEN top[i]
                                          ELSE IF i = b THEN last
                                          ELSE more[b + 2 + f - i]
  <2>0. top \in Seq(Folders) /\ last \in Folders /\ more \in Seq(Folders)
    BY <1>2, <1>3
  <2>1. /\ w \in Seq(Folders)
        /\ Len(w) = Len(top) + 1 + Len(more)
        /\ \A i \in 1 .. Len(top) + 1 + Len(more) :
              w[i] = IF i <= Len(top) THEN top[i]
                     ELSE IF i = Len(top) + 1 THEN last
                     ELSE more[Len(top) + 2 + Len(more) - i]
    BY <2>0, VisitedElements
  <2>2. /\ Len(top) + 1 + Len(more) = b + 1 + f
        /\ Len(top) = b - 1 /\ Len(top) + 1 = b
        /\ Len(top) + 2 + Len(more) = b + 2 + f
    <3>1. PICK m, n : m = Len(top) /\ n = Len(more)
      OBVIOUS
    <3> HIDE DEF v, w, b, f
    <3>2. m = b - 1 /\ n = f + 1
      BY <1>2, <1>3, <3>1
    <3>3. m + 1 + n = b + 1 + f /\ m + 1 = b /\ m + 2 + n = b + 2 + f
      BY <1>1, <3>2
    <3> QED BY <3>1, <3>2, <3>3
  <2> HIDE DEF w, b, f
  <2>3. ASSUME NEW i \in 1 .. b + 1 + f
        PROVE  w[i] = IF i <= b - 1 THEN top[i] ELSE IF i = b THEN last ELSE more[b + 2 + f - i]
    <3>1. w[i] = IF i <= Len(top) THEN top[i]
                 ELSE IF i = Len(top) + 1 THEN last
                 ELSE more[Len(top) + 2 + Len(more) - i]
      BY <2>1, <2>2
    <3>2. Len(top) + 2 + Len(more) - i = b + 2 + f - i
      BY <1>1, <1>2, <1>3, <2>2
    <3> DEFINE k == b + 2 + f - i
    <3> HIDE DEF v, k
    <3>3. w[i] = IF i <= b - 1 THEN top[i] ELSE IF i = b THEN last ELSE more[k]
      BY <2>2, <3>1, <3>2 DEF k
    <3> QED BY <3>3 DEF k
  <2> QED BY <2>1, <2>2, <2>3
<1> HIDE DEF v, w, b, f
<1>7. ASSUME NEW i \in 1 .. b + 1 + f PROVE w[i] = v[i]
  <2>1. CASE i < b
    <3>1. w[i] = top[i] /\ v[i] = back[i] /\ i \in 1 .. b - 1
      BY <1>1, <1>5, <1>6, <2>1
    <3> QED BY <1>2, <3>1
  <2>2. CASE i = b
    BY <1>1, <1>2, <1>4, <1>5, <1>6, <2>2
  <2>3. CASE i = b + 1
    <3>1. b + 2 + f - i = f + 1 /\ ~ i <= b - 1 /\ ~ i <= b /\ i # b
      BY <1>1, <2>3
    <3>2. w[i] = more[f + 1]
      BY <1>6, <3>1
    <3>3. v[i] = path
      BY <1>5, <2>3, <3>1
    <3> QED BY <1>3, <3>2, <3>3
  <2>4. CASE i > b + 1
    <3>1. /\ b + 2 + f - i \in 1 .. f
          /\ w[i] = more[b + 2 + f - i]
          /\ v[i] = forward[b + 2 + f - i]
      BY <1>1, <1>5, <1>6, <2>4
    <3> QED BY <1>3, <3>1
  <2> QED BY <1>1, <2>1, <2>2, <2>3, <2>4
<1>8. w = v
  BY <1>5, <1>6, <1>7, SamePlaces
<1> QED BY <1>8 DEF v, w, top, last, more

\* Going forward is going back the other way.
LEMMA PushPop ==
    ASSUME NEW back \in Seq(Folders), NEW path \in Folders,
           NEW forward \in Seq(Folders), forward # <<>>
    PROVE  Visited(Append(back, path), Last(forward), Front(forward)) = Visited(back, path, forward)
<1> DEFINE more == Append(back, path)
           top == Front(forward)
           last == Last(forward)
<1>1. more \in Seq(Folders) /\ more # <<>> /\ Front(more) = back /\ Last(more) = path
  <2>1. /\ more \in Seq(Folders)
        /\ more # <<>>
        /\ Len(more) = Len(back) + 1
        /\ \A i \in 1 .. Len(back) : more[i] = back[i]
        /\ more[Len(back) + 1] = path
    BY AppendProperties
  <2>2. /\ Front(more) \in Seq(Folders)
        /\ Len(Front(more)) = Len(more) - 1
        /\ \A i \in 1 .. Len(more) - 1 : Front(more)[i] = more[i]
    BY <2>1, PopProperties
  <2>3. Len(back) \in Nat
    BY LenProperties
  <2> HIDE DEF more
  <2>4. Front(more) = back
    BY <2>1, <2>2, <2>3, SamePlaces
  <2> QED BY <2>1, <2>4 DEF Last
<1>2. last \in Folders /\ top \in Seq(Folders) /\ Append(top, last) = forward
  <2>1. /\ last \in Folders
        /\ top \in Seq(Folders)
        /\ Len(forward) > 0
        /\ Len(top) = Len(forward) - 1
        /\ \A i \in 1 .. Len(forward) - 1 : top[i] = forward[i]
    BY PopProperties
  <2>2. /\ Append(top, last) \in Seq(Folders)
        /\ Len(Append(top, last)) = Len(top) + 1
        /\ \A i \in 1 .. Len(top) : Append(top, last)[i] = top[i]
        /\ Append(top, last)[Len(top) + 1] = last
    BY <2>1, AppendProperties
  <2>3. Len(forward) \in Nat /\ last = forward[Len(forward)]
    BY LenProperties DEF Last
  <2> DEFINE whole == Append(top, last)
  <2> HIDE DEF whole, top, last
  <2>4. ASSUME NEW i \in 1 .. Len(forward) PROVE whole[i] = forward[i]
    <3>1. CASE i = Len(forward)
      BY <2>1, <2>2, <2>3, <3>1 DEF whole
    <3>2. CASE i \in 1 .. Len(forward) - 1
      BY <2>1, <2>2, <2>3, <3>2 DEF whole
    <3> QED BY <2>3, <3>1, <3>2
  <2>5. Len(whole) = Len(forward) /\ whole \in Seq(Folders)
    BY <2>1, <2>2, <2>3 DEF whole
  <2>6. whole = forward
    BY <2>4, <2>5, SamePlaces
  <2> QED BY <2>1, <2>6 DEF whole
<1> HIDE DEF more, top, last
<1>3. Visited(Front(more), Last(more), Append(top, last)) = Visited(more, last, top)
  BY <1>1, <1>2, PopPush
<1> QED BY <1>1, <1>2, <1>3 DEF more, top, last

\* A new place: the list is cut after the position, the place appended, and the
\* oldest dropped when there are more than the stack holds.
LEMMA PushVisits ==
    ASSUME NEW back \in Seq(Folders), Len(back) <= kHistory, NEW path \in Folders,
           NEW forward \in Seq(Folders), NEW new \in Folders
    PROVE  LET list == Append(SubSeq(Visited(back, path, forward), 1, Len(back) + 1), new)
           IN  Visited(push(back, path), new, <<>>) =
                  IF Len(list) > kHistory + 1 THEN Tail(list) ELSE list
<1> DEFINE v == Visited(back, path, forward)
           cut == SubSeq(v, 1, Len(back) + 1)
           here == Append(back, path)
           after == push(back, path)
<1>1. Len(back) \in Nat /\ Len(forward) \in Nat /\ kHistory \in Nat \ {0}
  BY LenProperties, BrowserAssumption
<1>2. /\ v \in Seq(Folders)
      /\ Len(v) = Len(back) + 1 + Len(forward)
      /\ \A i \in 1 .. Len(back) + 1 + Len(forward) :
            v[i] = IF i <= Len(back) THEN back[i]
                   ELSE IF i = Len(back) + 1 THEN path
                   ELSE forward[Len(back) + 2 + Len(forward) - i]
  BY VisitedElements
<1>3. /\ here \in Seq(Folders)
      /\ here # <<>>
      /\ Len(here) = Len(back) + 1
      /\ \A i \in 1 .. Len(back) : here[i] = back[i]
      /\ here[Len(back) + 1] = path
  BY AppendProperties
<1>4. after \in Seq(Folders)
  BY PushFits
<1>5. Visited(after, new, <<>>) = Append(after, new)
  <2>1. Reverse(<<>>) = <<>>
    BY DEF Reverse
  <2>2. Append(after, new) = after \o <<new>> /\ Append(after, new) \in Seq(Folders)
    BY <1>4, AppendIsConcat, AppendProperties
  <2>3. Append(after, new) \o <<>> = Append(after, new)
    BY <2>2, ConcatEmptySeq
  <2> QED BY <2>1, <2>2, <2>3 DEF Visited
<1> HIDE DEF v, here, after
<1>6. cut = here
  <2>1. \A i \in 1 .. Len(back) + 1 : v[i] \in Folders
    <3>1. v \in [1 .. Len(v) -> Folders]
      BY <1>2, LenProperties
    <3> QED BY <1>1, <1>2, <3>1
  <2>2. /\ cut \in Seq(Folders)
        /\ Len(cut) = Len(back) + 1
        /\ \A i \in 1 .. Len(back) + 1 : cut[i] = v[i]
    BY <1>1, <2>1, SubSeqProperties
  <2> HIDE DEF cut
  <2>3. ASSUME NEW i \in 1 .. Len(back) + 1 PROVE cut[i] = here[i]
    <3>1. CASE i <= Len(back)
      <4>1. v[i] = back[i] /\ i \in 1 .. Len(back)
        BY <1>1, <1>2, <3>1
      <4> QED BY <1>3, <2>2, <4>1
    <3>2. CASE i = Len(back) + 1
      <4>1. v[i] = path
        BY <3>2, VisitedHere DEF v
      <4> QED BY <1>3, <2>2, <3>2, <4>1
    <3> QED BY <1>1, <3>1, <3>2
  <2> QED BY <1>3, <2>2, <2>3, SamePlaces
<1>7. Len(Append(here, new)) = Len(back) + 2
  BY <1>1, <1>3, AppendProperties
<1>8. CASE Len(back) < kHistory
  <2>1. after = here
    BY <1>8, PushAppends DEF after, here
  <2>2. ~ Len(Append(here, new)) > kHistory + 1
    BY <1>1, <1>7, <1>8
  <2> QED BY <1>5, <1>6, <2>1, <2>2 DEF v, after
<1>9. CASE Len(back) = kHistory
  <2>1. Len(Append(here, new)) > kHistory + 1
    BY <1>1, <1>7, <1>9
  <2>2. back # <<>> /\ after = Append(Tail(back), path)
    BY <1>1, <1>9, PushDrops DEF after
  <2>3. Tail(here) = after
    BY <2>2, HeadTailAppend DEF here
  <2>4. Tail(Append(here, new)) = Append(after, new)
    BY <1>3, <2>3, HeadTailAppend
  <2> QED BY <1>5, <1>6, <2>1, <2>4 DEF v, after
<1> QED BY <1>1, <1>8, <1>9

visitedNow == Visited(backStack, currentPath, forwardStack)
atNow      == Len(backStack) + 1

\* navigate() is a visit.
LEMMA NavigateVisits ==
    ASSUME HistoryInv, NEW path \in Folders, NEW select, navigate(path, select)
    PROVE  History!Visit
<1> DEFINE list == Append(SubSeq(visitedNow, 1, atNow), path)
<1>1. Len(backStack) <= kHistory /\ Len(backStack) \in Nat /\ kHistory \in Nat
  BY LenProperties, BrowserAssumption DEF HistoryInv, HistoryFits
<1>2. /\ backStack' = push(backStack, currentPath)
      /\ forwardStack' = <<>>
      /\ currentPath' = path
      /\ path # currentPath
  BY DEF navigate
<1>3. visitedNow' = IF Len(list) > kHistory + 1 THEN Tail(list) ELSE list
  BY <1>1, <1>2, PushVisits DEF HistoryInv, visitedNow, atNow
<1>4. visitedNow[atNow] = currentPath
  BY VisitedHere DEF HistoryInv, visitedNow, atNow
<1>5. atNow' = Len(visitedNow')
  <2>1. push(backStack, currentPath) \in Seq(Folders) /\ <<>> \in Seq(Folders)
    BY <1>1, PushFits DEF HistoryInv
  <2>2. Len(Visited(push(backStack, currentPath), path, <<>>)) = Len(push(backStack, currentPath)) + 1
    BY <2>1, VisitedHere
  <2> QED BY <1>2, <2>2 DEF visitedNow, atNow
<1>6. path \in Folders \ {visitedNow[atNow]}
  BY <1>2, <1>4
<1> QED BY <1>3, <1>5, <1>6 DEF History!Visit, visitedNow, atNow, Visited

\* Every step of the browser visits, goes back, goes forward or changes nothing
\* of the history.
LEMMA StepImplements ==
    ASSUME HistoryInv, [Next]_vars
    PROVE  [History!Next]_<<visitedNow, atNow>>
<1>0. /\ Len(backStack) \in Nat
      /\ Len(forwardStack) \in Nat
  BY LenProperties DEF HistoryInv
<1>1. CASE OpenEntry
  BY <1>1, NavigateVisits DEF OpenEntry, History!Next
<1>2. CASE OpenPlace
  BY <1>2, NavigateVisits DEF OpenPlace, History!Next
<1>3. CASE open_parent
  <2>1. Parent[currentPath] \in Folders
    BY <1>3, BrowserAssumption DEF open_parent, HistoryInv
  <2> QED BY <1>3, <2>1, NavigateVisits DEF open_parent, History!Next
<1>4. CASE go_back
  <2>1. /\ Len(backStack) > 0
        /\ Len(Front(backStack)) = Len(backStack) - 1
    BY <1>4, PopProperties DEF go_back, HistoryInv
  <2>2. Len(forwardStack) < kHistory
    BY <1>0, <2>1, BrowserAssumption DEF HistoryInv, HistoryFits
  <2>3. forwardStack' = Append(forwardStack, currentPath)
    BY <1>4, <2>2, PushAppends DEF go_back, HistoryInv
  <2>4. visitedNow' = visitedNow
    BY <1>4, <2>3, PopPush DEF go_back, HistoryInv, visitedNow
  <2>5. atNow > 1 /\ atNow' = atNow - 1
    BY <1>0, <1>4, <2>1 DEF go_back, atNow
  <2>6. History!Back
    BY <2>4, <2>5 DEF History!Back, visitedNow, atNow, Visited
  <2> QED BY <2>6 DEF History!Next
<1>5. CASE go_forward
  <2>1. /\ Last(forwardStack) \in Folders
        /\ Front(forwardStack) \in Seq(Folders)
        /\ Len(forwardStack) > 0
    BY <1>5, PopProperties DEF go_forward, HistoryInv
  <2>2. Len(backStack) < kHistory
    BY <1>0, <2>1, BrowserAssumption DEF HistoryInv, HistoryFits
  <2>3. /\ backStack' = Append(backStack, currentPath)
        /\ Len(backStack') = Len(backStack) + 1
    BY <1>5, <2>2, PushAppends DEF go_forward, HistoryInv
  <2>4. visitedNow' = visitedNow
    BY <1>5, <2>3, PushPop DEF go_forward, HistoryInv, visitedNow
  <2>5. atNow < Len(visitedNow)
    <3>1. Len(visitedNow) = Len(backStack) + 1 + Len(forwardStack)
      BY VisitedElements DEF HistoryInv, visitedNow
    <3> QED BY <1>0, <2>1, <3>1 DEF atNow
  <2>6. atNow' = atNow + 1
    BY <1>0, <2>3 DEF atNow
  <2>7. History!Forward
    BY <2>4, <2>5, <2>6 DEF History!Forward, visitedNow, atNow, Visited
  <2> QED BY <2>7 DEF History!Next
<1>6. CASE UNCHANGED history
  BY <1>6 DEF history, visitedNow, atNow
<1> QED
  BY <1>1, <1>2, <1>3, <1>4, <1>5, <1>6 DEF Next, vars, Reload, Search, Select, DiskChanges

\* The two bounded stacks of the browser implement a list of visited places
\* with a position in it: Back and Forward undo each other whatever came before.
THEOREM StacksAreAHistory == Spec => KeepsHistory
<1>1. ASSUME Init PROVE History!Init
  <2>1. Reverse(<<>>) = <<>>
    BY DEF Reverse
  <2>2. <<>> \o <<Home>> = <<Home>> /\ <<Home>> \o <<>> = <<Home>>
    BY ConcatEmptySeq, BrowserAssumption
  <2>3. backStack \o <<currentPath>> \o Reverse(forwardStack) = <<Home>>
    BY <1>1, <2>1, <2>2 DEF Init
  <2>4. Len(backStack) + 1 = 1
    BY <1>1 DEF Init
  <2> QED BY <2>3, <2>4, BrowserAssumption DEF History!Init
<1>2. ASSUME HistoryInv, [Next]_vars
      PROVE  [History!Next]_<<backStack \o <<currentPath>> \o Reverse(forwardStack), Len(backStack) + 1>>
  BY <1>2, StepImplements DEF visitedNow, atNow, Visited
<1> QED BY <1>1, <1>2, HistoryInit, HistoryStep, PTL DEF Spec, KeepsHistory, History!Spec

(***************************************************************************)
(* The programs together                                                   *)
(***************************************************************************)

\* What the programs promise holds of the system they form: a step of one is a
\* step of its own specification, and leaves the others as they are.
THEOREM ProgramsPromise ==
    ProgramsSpec => /\ [](NoSilentLoss /\ PreviousHasStart /\ AutorunOnce /\ HistoryFits /\ WindowMatches)
                    /\ KeepsHistory /\ SelectionKept
<1>1. ProgramsInit => LogInit /\ LoginInit /\ Init
  BY DEF ProgramsInit
<1>2. [ProgramsNext]_programsVars => [LogNext]_logVars /\ [LoginNext]_loginVars /\ [Next]_vars
  BY DEF ProgramsNext, programsVars
<1>3. ProgramsSpec => LogSpec /\ LoginSpec /\ Spec
  BY <1>1, <1>2, PTL DEF ProgramsSpec, LogSpec, LoginSpec, Spec
<1> QED
  BY <1>3, NothingIsLostSilently, PreviousAlwaysHasStart, ScriptsRunOnce, HistoryAlwaysFits,
     WindowAlwaysMatches, SelectionIsKept, StacksAreAHistory, PTL
=============================================================================
