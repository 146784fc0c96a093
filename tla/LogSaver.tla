------------------------------- MODULE LogSaver -------------------------------
(***************************************************************************)
(* log-saver (log-saver/src/main.cpp): appends what is new in the kernel's *)
(* log ring to /kernel.log, four times a second, and keeps the copy of the *)
(* boot before as /previous.log.                                           *)
(*                                                                         *)
(* The bytes the kernel logged since boot are numbered from 1; the ring    *)
(* holds the last RingSize of them. The program sees only what the bytes   *)
(* are, Byte(n), and finds its place by comparing; the files below record  *)
(* the numbers, so that a byte that was skipped or repeated can be told.   *)
(***************************************************************************)
EXTENDS Integers, Sequences

CONSTANTS
    Byte(_),            \* the nth byte the kernel logs
    RingSize,           \* kLogSize
    Anchor,             \* the bytes new_lines_start() compares: 64
    HeartbeatRounds,    \* kHeartbeatRounds
    Lost,               \* new_lines_start()'s -1, and the kGap line in the file
    MaxLog,             \* bound: bytes logged in a boot
    MaxFailures,        \* bound: system calls that fail
    MaxBoots            \* bound: boots

ASSUME LogSaverAssumption ==
    /\ RingSize \in Nat \ {0}
    /\ Anchor \in 1 .. RingSize
    /\ HeartbeatRounds \in Nat \ {0}
    /\ MaxLog \in Nat
    /\ MaxFailures \in Nat
    /\ MaxBoots \in Nat
    /\ Lost \notin Nat

VARIABLES
    written,        \* bytes the kernel logged in this boot
    kernelLog,      \* /kernel.log
    previousLog,    \* /previous.log
    lastBoot,       \* /kernel.log as the boot before left it
    gLog,           \* the part of the log kernel_log() returned
    gCopy,          \* the part that was last written, empty before the first
    round,          \* rounds since the last heartbeat
    complaints,     \* failures: complained of up to three times
    unanchored,     \* a part was written before there was anything in gCopy
    misled,         \* another place was taken for the one last written to (history)
    pc,
    failures,
    boots

files == <<kernelLog, previousLog, lastBoot>>
logVars  == <<written, files, gLog, gCopy, round, complaints, unanchored, misled, pc, failures, boots>>

\* A part of the log is named by the numbers of its first and last byte.
Part(from, to) == [from |-> from, to |-> to]
Empty          == Part(1, 0)
Positions      == 1 .. MaxLog
Parts          == [from : 1 .. MaxLog + 1, to : 0 .. MaxLog]

\* What the kernel's ring holds (external).
Ring == Part(IF written > RingSize THEN written - RingSize + 1 ELSE 1, written)

\* A line is logged, by the kernel, another program or this one.
Logged == written' = IF written < MaxLog THEN written + 1 ELSE written

Fail ==
    /\ failures < MaxFailures
    /\ failures' = failures + 1

-----------------------------------------------------------------------------
LogInit ==
    /\ written = 0
    /\ kernelLog = <<>>
    /\ previousLog = <<>>
    /\ lastBoot = <<>>
    /\ gLog = Empty
    /\ gCopy = Empty
    /\ round = 0
    /\ complaints = 0
    /\ unanchored = FALSE
    /\ misled = FALSE
    /\ pc = "keep"
    /\ failures = 0
    /\ boots = 1

\* Others write to the log (external).
OthersLog ==
    /\ written < MaxLog
    /\ Logged
    /\ UNCHANGED <<files, gLog, gCopy, round, complaints, unanchored, misled, pc, failures, boots>>

-----------------------------------------------------------------------------
(* keep_previous(), and opening the log.                                   *)

Prefix(s, n) == SubSeq(s, 1, IF n < Len(s) THEN n ELSE Len(s))

\* Mutant: the old log is truncated before it is copied.
TruncateBoth ==
    /\ pc = "keep"
    /\ pc' = "copy"
    /\ previousLog' = <<>>
    /\ kernelLog' = <<>>
    /\ UNCHANGED <<written, lastBoot, gLog, gCopy, round, complaints, unanchored, misled, failures, boots>>

\* An old log that is not empty: write_file() truncates /previous.log. Nothing
\* happens if one of the two files cannot be opened, or the old log not be read.
KeepPrevious ==
    /\ pc = "keep"
    /\ \/ /\ kernelLog = <<>>
          /\ pc' = "open"
          /\ UNCHANGED <<previousLog, failures>>
       \/ /\ kernelLog # <<>>
          /\ pc' = "copy"
          /\ previousLog' = <<>>
          /\ UNCHANGED failures
       \/ /\ Fail
          /\ pc' = "open"
          /\ UNCHANGED previousLog
    /\ UNCHANGED <<written, kernelLog, lastBoot, gLog, gCopy, round, complaints, unanchored, misled, boots>>

\* ... and writes what it read of it; nobody looks whether all was written.
CopyPrevious ==
    /\ pc = "copy"
    /\ pc' = "open"
    /\ \/ /\ previousLog' = Prefix(kernelLog, RingSize)
          /\ UNCHANGED failures
       \/ /\ Fail
          /\ \E n \in 0 .. RingSize - 1 : previousLog' = Prefix(kernelLog, n)
    /\ UNCHANGED <<written, kernelLog, lastBoot, gLog, gCopy, round, complaints, unanchored, misled, boots>>

\* main() truncates /kernel.log, or gives up.
OpenLog ==
    /\ pc = "open"
    /\ \/ /\ kernelLog' = <<>>
          /\ unanchored' = FALSE
          /\ misled' = FALSE
          /\ pc' = "beat"
          /\ UNCHANGED <<written, failures>>
       \/ /\ Fail
          /\ Logged
          /\ pc' = "stopped"
          /\ UNCHANGED <<kernelLog, unanchored, misled>>
    /\ UNCHANGED <<previousLog, lastBoot, gLog, gCopy, round, complaints, boots>>

-----------------------------------------------------------------------------
(* The rounds.                                                             *)

\* Now and then a heartbeat line.
Heartbeat ==
    /\ pc = "beat"
    /\ IF round = 0 THEN Logged ELSE UNCHANGED written
    /\ round' = (round + 1) % HeartbeatRounds
    /\ pc' = "read"
    /\ UNCHANGED <<files, gLog, gCopy, complaints, unanchored, misled, failures, boots>>

\* How many of a part's last bytes are looked for.
AnchorOf(part) ==
    LET size == part.to - part.from + 1
    IN  IF size < Anchor THEN size ELSE Anchor

\* Where previous's last bytes appear in current: the numbers they end at.
Matches(current, previous) ==
    LET anchor == AnchorOf(previous)
    IN  {e \in current.from + anchor - 1 .. current.to :
            \A k \in 0 .. anchor - 1 : Byte(e - k) = Byte(previous.to - k)}

\* Where the new lines start in current: after the last of those places.
new_lines_start(current, previous) ==
    LET ends == Matches(current, previous)
    IN  IF previous = Empty THEN current.from
        ELSE IF ends = {} THEN Lost
        ELSE 1 + CHOOSE e \in ends : \A other \in ends : other <= e

\* The last bytes of previous are still in current.
Reaches(current, previous) == previous.to >= current.from + AnchorOf(previous) - 1

\* The place new_lines_start() finds is not where previous ends, because the same
\* bytes were logged there too.
Astray(current, previous) ==
    /\ previous # Empty
    /\ new_lines_start(current, previous) #
           IF Reaches(current, previous) THEN previous.to + 1 ELSE Lost

\* kernel_log(), which may fail.
ReadLog ==
    /\ pc = "read"
    /\ \/ /\ gLog' = Ring
          /\ pc' = IF written = 0 THEN "beat" ELSE "write"
          /\ misled' = (misled \/ Astray(Ring, gCopy))
          /\ UNCHANGED failures
       \/ /\ Fail
          /\ pc' = "beat"
          /\ UNCHANGED <<gLog, misled>>
    /\ UNCHANGED <<written, files, gCopy, round, complaints, unanchored, boots>>

Run(from, to) == [i \in 1 .. to - from + 1 |-> from + i - 1]

\* Mutant: the last byte is left for the next round.
AllButLast ==
    LET start == new_lines_start(gLog, gCopy)
    IN  IF start = Lost THEN <<Lost>> \o Run(gLog.from, gLog.to - 1) ELSE Run(start, gLog.to - 1)

\* What this round appends.
NewLines ==
    LET start == new_lines_start(gLog, gCopy)
    IN  IF start = Lost THEN <<Lost>> \o Run(gLog.from, gLog.to) ELSE Run(start, gLog.to)

\* write_all() wrote everything: this is what the ring held last time.
Write ==
    /\ pc = "write"
    /\ kernelLog' = kernelLog \o NewLines
    /\ gCopy' = gLog
    /\ pc' = "beat"
    /\ UNCHANGED <<written, previousLog, lastBoot, gLog, round, complaints, unanchored, misled, failures, boots>>

\* It wrote a part and failed: the next round starts from the same place.
FailAfterPart(copy) ==
    /\ pc = "write"
    /\ Fail
    /\ \E n \in 0 .. Len(NewLines) : kernelLog' = kernelLog \o Prefix(NewLines, n)
    /\ unanchored' = (unanchored \/ gCopy = Empty)
    /\ gCopy' = copy
    /\ complaints' = IF complaints < 3 THEN complaints + 1 ELSE complaints
    /\ IF complaints < 3 THEN Logged ELSE UNCHANGED written
    /\ pc' = "beat"
    /\ UNCHANGED <<previousLog, lastBoot, gLog, round, misled, boots>>

\* Mutant: a round that failed is taken for written.
WriteFailsUnnoticed == FailAfterPart(gLog)

WriteFails == FailAfterPart(gCopy)

\* The machine hangs or is reset, also in the middle of a write, and boots.
Reboot ==
    /\ boots < MaxBoots
    /\ boots' = boots + 1
    /\ \E n \in 0 .. RingSize + 1 :
          kernelLog' = IF pc = "write" THEN kernelLog \o Prefix(NewLines, n) ELSE kernelLog
    /\ lastBoot' = kernelLog'
    /\ written' = 0
    /\ gLog' = Empty
    /\ gCopy' = Empty
    /\ round' = 0
    /\ complaints' = 0
    /\ pc' = "keep"
    /\ UNCHANGED <<previousLog, unanchored, misled, failures>>

Program == KeepPrevious \/ CopyPrevious \/ OpenLog \/ Heartbeat \/ ReadLog \/ Write \/ WriteFails

LogNext == OthersLog \/ Program \/ Reboot

LogSpec == LogInit /\ [][LogNext]_logVars

\* The program is scheduled again and again.
LogFairSpec == LogSpec /\ WF_logVars(Program)

-----------------------------------------------------------------------------
\* Every variable has the values the code's declarations allow.
LogTypeOK ==
    /\ written \in 0 .. MaxLog
    /\ kernelLog \in Seq(Positions \cup {Lost})
    /\ previousLog \in Seq(Positions \cup {Lost})
    /\ lastBoot \in Seq(Positions \cup {Lost})
    /\ gLog \in Parts
    /\ gCopy \in Parts
    /\ round \in 0 .. HeartbeatRounds - 1
    /\ complaints \in 0 .. 3
    /\ {unanchored, misled} \subseteq BOOLEAN
    /\ pc \in {"keep", "copy", "open", "beat", "read", "write", "stopped"}
    /\ failures \in 0 .. MaxFailures
    /\ boots \in 1 .. MaxBoots + 1

\* Byte j of the file does not follow byte j - 1 without a gap line only if it
\* was written again.
Follows(file, j) == file[j - 1] # Lost /\ file[j] # Lost => file[j] <= file[j - 1] + 1

Unbroken == \A j \in 2 .. Len(kernelLog) : Follows(kernelLog, j)

\* main.cpp:133: "lines lost here" marks every place where lines are missing, when
\* the ring moved on by more than it holds, writes failed or the machine went down.
\* (Not before the first round that succeeds: a part written by a round that failed
\* then may be followed by a later one. And not once the log repeated itself so
\* that new_lines_start() took another place for the one it wrote to last: it takes
\* the last place the bytes appear at, main.cpp:90, and skips what is before.)
NoSilentLoss ==
    LogTypeOK /\ (~unanchored /\ ~misled => Unbroken)

\* A crash while /previous.log is rewritten is made good at the next boot: it
\* always gets the start of the log the boot before left, if no write failed.
PreviousHasStart ==
    pc \in {"open", "beat", "read", "write"} /\ failures = 0 /\ lastBoot # <<>> =>
        previousLog = Prefix(lastBoot, RingSize)

\* main.cpp:4: "after a hang it lacks at most the last quarter second": once
\* nothing is logged any more everything is in the file, unless the program
\* could not open it, or took another place for the one it wrote to last.
EventuallySaved ==
    <>[](\/ pc = "stopped"
         \/ written = 0
         \/ misled
         \/ \E j \in 1 .. Len(kernelLog) : kernelLog[j] = written)
=============================================================================
