------------------------------- MODULE FileIO -------------------------------
(***************************************************************************)
(* read, write, lseek, pread, pwrite and ftruncate of the sysdeps          *)
(* (outside/mlibc-sysdeps/instantos/sysdeps.cpp) on one file that several  *)
(* threads or processes have open, each through an open file of its own    *)
(* ("an fd is not shared concurrently within a process"). Every system     *)
(* call is a step; the kernel has no positioned I/O.                       *)
(***************************************************************************)
EXTENDS Integers, Sequences

CONSTANTS Opens, Bytes, Lengths, MaxSize

ASSUME FileAssumption ==
    /\ Bytes \subseteq Nat /\ Lengths \subseteq Nat
    /\ MaxSize \in Nat

VARIABLES
    file,       \* the file
    at,         \* the kernel's offset of each open file
    returned,   \* what the last call through it returned
    misplaced,  \* the open file whose offset was not put back just now, if any
    io          \* the positioned call under way: [pc, op, off, arg,
                \* saved, ret], each field as long as it is used

fileVars == <<file, at, returned, misplaced, io>>

\* What the kernel's READ, WRITE and TRUNCATE do to a file (external): the
\* operators of the abstract specification.
Kernel == INSTANCE PosixFile WITH content <- file, offset <- at, result <- returned

NoIo == [pc |-> "idle", op |-> "none", off |-> 0, arg |-> 0, saved |-> 0, ret |-> <<>>]

FileInit ==
    /\ file = <<>>
    /\ at = [h \in Opens |-> 0]
    /\ returned = [h \in Opens |-> <<>>]
    /\ misplaced = {}
    /\ io = [h \in Opens |-> NoIo]

InCall(h, pc) == io[h].pc = pc

\* No seek back was refused in this step.
SeekBackTaken == misplaced' = {}

-----------------------------------------------------------------------------
(* Calls that are one system call. Any may fail.                           *)

Write(h, b) ==
    /\ InCall(h, "idle") /\ at[h] < MaxSize
    /\ Kernel!PosixWrite(h, b)
    /\ SeekBackTaken /\ UNCHANGED io

Read(h, n) ==
    /\ InCall(h, "idle")
    /\ Kernel!PosixRead(h, n)
    /\ SeekBackTaken /\ UNCHANGED io

\* Seek: from the start or from the end.
Seek(h, off, whence) ==
    /\ InCall(h, "idle")
    /\ \E pos \in {IF whence = "END" THEN Len(file) - off ELSE off} :
          IF pos < 0 THEN Kernel!PosixFails(h) ELSE Kernel!PosixSeek(h, pos)
    /\ SeekBackTaken /\ UNCHANGED io

Ftruncate(h, n) ==
    /\ InCall(h, "idle")
    /\ Kernel!PosixTruncate(h, n)
    /\ SeekBackTaken /\ UNCHANGED io

CallFails(h) ==
    /\ InCall(h, "idle")
    /\ Kernel!PosixFails(h)
    /\ SeekBackTaken /\ UNCHANGED io

-----------------------------------------------------------------------------
(* Pread and Pwrite                                                        *)

\* The offset is saved ...
SaveOffset(h, op, off, arg) ==
    /\ InCall(h, "idle")
    /\ io' = [io EXCEPT ![h] = [pc |-> "seek", op |-> op, off |-> off, arg |-> arg,
                                saved |-> at[h], ret |-> <<>>]]
    /\ SeekBackTaken /\ UNCHANGED <<file, at, returned>>

\* ... the position sought, which may fail and end the call ...
SeekTo(h) ==
    /\ InCall(h, "seek")
    /\ \/ /\ at' = [at EXCEPT ![h] = io[h].off]
          /\ io' = [io EXCEPT ![h].pc = "transfer", ![h].off = 0]
          /\ UNCHANGED <<file, returned>>
       \/ /\ io' = [io EXCEPT ![h] = NoIo]
          /\ Kernel!PosixFails(h)
    /\ SeekBackTaken

\* ... the bytes transferred, or not: what the call will return is known ...
Transfer(h) ==
    LET c      == io[h]
        got    == Kernel!Get(file, at[h], c.arg)
        end(r) == io' = [io EXCEPT ![h] = [NoIo EXCEPT !.pc = "restore", !.saved = c.saved, !.ret = r]]
    IN  /\ InCall(h, "transfer")
        /\ \/ /\ c.op = "pread"
              /\ at' = [at EXCEPT ![h] = @ + Len(got)]
              /\ end(got)
              /\ UNCHANGED file
           \/ /\ c.op = "pwrite"
              /\ file' = Kernel!Put(file, at[h], c.arg)
              /\ at' = [at EXCEPT ![h] = @ + 1]
              /\ end(<<>>)
           \/ /\ end(Kernel!Error)
              /\ UNCHANGED <<file, at>>
        /\ SeekBackTaken /\ UNCHANGED returned

\* Mutant: a transfer that failed returns at once.
RestoreUnlessFailed(h) ==
    /\ InCall(h, "restore")
    /\ \/ /\ at' = IF io[h].ret = Kernel!Error THEN at ELSE [at EXCEPT ![h] = io[h].saved]
          /\ SeekBackTaken
       \/ /\ misplaced' = {h}
          /\ UNCHANGED at
    /\ returned' = [returned EXCEPT ![h] = io[h].ret]
    /\ io' = [io EXCEPT ![h] = NoIo]
    /\ UNCHANGED file

\* ... and the offset put back, also after a failure. The kernel may refuse: the
\* call returns what it would have.
Restore(h) ==
    /\ InCall(h, "restore")
    /\ \/ /\ at' = [at EXCEPT ![h] = io[h].saved]
          /\ SeekBackTaken
       \/ /\ misplaced' = {h}
          /\ UNCHANGED at
    /\ returned' = [returned EXCEPT ![h] = io[h].ret]
    /\ io' = [io EXCEPT ![h] = NoIo]
    /\ UNCHANGED file

-----------------------------------------------------------------------------
FileNext ==
    \E h \in Opens :
        \/ CallFails(h) \/ SeekTo(h) \/ Transfer(h) \/ Restore(h)
        \/ \E b \in Bytes : Write(h, b)
        \/ \E n \in Lengths : Read(h, n)
        \/ \E off \in 0 .. MaxSize : Ftruncate(h, off) \/ Seek(h, off, "SET")
        \/ \E off \in {0, 1} : Seek(h, off, "END")
        \/ \E off \in 0 .. MaxSize - 1 :
              \/ \E n \in Lengths : SaveOffset(h, "pread", off, n)
              \/ \E b \in Bytes : SaveOffset(h, "pwrite", off, b)

FileSpec == FileInit /\ [][FileNext]_fileVars

-----------------------------------------------------------------------------
\* The offset a program sees is the saved one while a positioned call is under
\* way, and the call takes effect when its bytes are transferred.
SeenOffset == [h \in Opens |-> IF io[h].pc \in {"transfer", "restore"} THEN io[h].saved ELSE at[h]]
SeenResult == [h \in Opens |-> IF InCall(h, "restore") THEN io[h].ret ELSE returned[h]]

Posix == INSTANCE PosixFile WITH content <- file, offset <- SeenOffset, result <- SeenResult

\* sysdeps.cpp:1859: "save the current offset, seek+read, restore.
\* Single-threaded-safe": with an open file per thread, pread and pwrite appear
\* atomic and move no offset, also when the transfer fails and whatever other
\* open files of the same file do between their system calls; unless the kernel
\* refuses the seek back, whose result the code drops (:1870, :1886). Then that
\* open file's offset, and nothing else, is left elsewhere.
ImplementsPosix == Posix!PosixSpec
=============================================================================
