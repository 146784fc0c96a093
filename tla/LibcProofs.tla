----------------------------- MODULE LibcProofs -----------------------------
(* What the sysdeps make of several system calls is one call to the         *)
(* program: positioned I/O on any number of open files, the *at calls over  *)
(* any number of directories that move, an fd table of any size, and        *)
(* messages in any number of pieces.                                        *)
EXTENDS Libc, NaturalsInduction, WellFoundedInduction, SequenceTheorems, TLAPS

(***************************************************************************)
(* FileIO implements PosixFile                                             *)
(***************************************************************************)

IoCalls == [pc : {"idle", "seek", "transfer", "restore"}, op : {"none", "pread", "pwrite"},
            off : Nat, arg : Nat, saved : Nat, ret : Seq(Int)]

FileTypeOK ==
    /\ file \in Seq(Nat) /\ Len(file) <= MaxSize
    /\ at \in [Opens -> Nat]
    /\ returned \in [Opens -> Seq(Int)]
    /\ io \in [Opens -> IoCalls]

\* A call under way asks for what the program may ask for.
AsksForPart ==
    \A h \in Opens : io[h].pc \in {"seek", "transfer"} =>
        \/ io[h].op = "pread" /\ io[h].arg \in Lengths
        \/ io[h].op = "pwrite" /\ io[h].arg \in Bytes

\* Nobody moves the offset between its being saved and sought, and the position
\* sought is inside the bound.
OffsetIsSaved ==
    \A h \in Opens :
        /\ io[h].pc = "seek" => io[h].saved = at[h] /\ io[h].off < MaxSize
        /\ io[h].pc = "transfer" => at[h] < MaxSize

FileInv == FileTypeOK /\ AsksForPart /\ OffsetIsSaved

-----------------------------------------------------------------------------
(* Sequences.                                                              *)

LEMMA EmptyIsSeq == ASSUME NEW S PROVE <<>> \in Seq(S) /\ Len(<<>>) = 0
OBVIOUS

\* The kernel's WRITE of one byte.
LEMMA PutIsFile ==
    ASSUME NEW f \in Seq(Nat), NEW a \in Nat, NEW b \in Nat, NEW m \in Nat, a < m, Len(f) <= m
    PROVE  Kernel!Put(f, a, b) \in Seq(Nat) /\ Len(Kernel!Put(f, a, b)) <= m
BY DEF Kernel!Put

LEMMA ResizeIsFile ==
    ASSUME NEW f \in Seq(Nat), NEW n \in Nat
    PROVE  Kernel!Resize(f, n) \in Seq(Nat) /\ Len(Kernel!Resize(f, n)) = n
BY DEF Kernel!Resize

\* The kernel's READ.
LEMMA GetIsPart ==
    ASSUME NEW f \in Seq(Nat), NEW a \in Nat, NEW n \in Nat
    PROVE  Kernel!Get(f, a, n) \in Seq(Int) /\ Len(Kernel!Get(f, a, n)) \in Nat
BY DEF Kernel!Get, Kernel!Least

LEMMA ErrorIsSeq == Kernel!Error \in Seq(Int)
BY DEF Kernel!Error

-----------------------------------------------------------------------------
(* The invariant.                                                          *)

LEMMA FileInitInv == FileInit => FileInv
BY EmptyIsSeq, FileAssumption
DEF FileInit, FileInv, FileTypeOK, IoCalls, NoIo, AsksForPart, OffsetIsSaved

\* A step of h on the file, the offset and the result only.
LEMMA OneCall ==
    ASSUME FileInv, NEW h \in Opens, InCall(h, "idle"), UNCHANGED io,
           NEW f \in Seq(Nat), Len(f) <= MaxSize, NEW a \in Nat, NEW r \in Seq(Int),
           file' = f, at' = [at EXCEPT ![h] = a], returned' = [returned EXCEPT ![h] = r]
    PROVE  FileInv'
<1>1. FileTypeOK'
  BY DEF FileInv, FileTypeOK
<1>2. AsksForPart'
  BY DEF FileInv, AsksForPart
<1>3. OffsetIsSaved'
  BY DEF FileInv, FileTypeOK, OffsetIsSaved, InCall
<1> QED BY <1>1, <1>2, <1>3 DEF FileInv

\* A step of h in a positioned call: c is what the call is at then.
LEMMA OneStep ==
    ASSUME FileInv, NEW h \in Opens,
           NEW f \in Seq(Nat), Len(f) <= MaxSize, NEW a \in Nat, NEW r \in Seq(Int), NEW c \in IoCalls,
           file' = f, at' = [at EXCEPT ![h] = a], returned' = [returned EXCEPT ![h] = r],
           io' = [io EXCEPT ![h] = c],
           c.pc \in {"seek", "transfer"} => \/ c.op = "pread" /\ c.arg \in Lengths
                                            \/ c.op = "pwrite" /\ c.arg \in Bytes,
           c.pc = "seek" => c.saved = a /\ c.off < MaxSize,
           c.pc = "transfer" => a < MaxSize
    PROVE  FileInv'
<1>1. FileTypeOK'
  BY DEF FileInv, FileTypeOK
<1>2. \A g \in Opens : g # h => io'[g] = io[g] /\ at'[g] = at[g]
  BY DEF FileInv, FileTypeOK
<1>3. io'[h] = c /\ at'[h] = a
  BY DEF FileInv, FileTypeOK
<1>4. AsksForPart'
  BY <1>2, <1>3 DEF FileInv, AsksForPart
<1>5. OffsetIsSaved'
  BY <1>2, <1>3 DEF FileInv, OffsetIsSaved
<1> QED BY <1>1, <1>4, <1>5 DEF FileInv

\* What h has after a step of it that ends in PosixFails.
LEMMA StaysTyped ==
    ASSUME FileInv, NEW h \in Opens
    PROVE  /\ file \in Seq(Nat) /\ Len(file) \in 0 .. MaxSize
           /\ at[h] \in Nat /\ at = [at EXCEPT ![h] = at[h]]
           /\ returned[h] \in Seq(Int) /\ returned = [returned EXCEPT ![h] = returned[h]]
           /\ io[h] \in IoCalls /\ NoIo \in IoCalls
<1>1. Len(file) \in 0 .. MaxSize
  BY FileAssumption DEF FileInv, FileTypeOK
<1>2. NoIo \in IoCalls
  BY EmptyIsSeq DEF NoIo, IoCalls
<1>3. at = [at EXCEPT ![h] = at[h]] /\ returned = [returned EXCEPT ![h] = returned[h]]
  BY DEF FileInv, FileTypeOK
<1> QED BY <1>1, <1>2, <1>3 DEF FileInv, FileTypeOK

LEMMA FileNextInv == FileInv /\ [FileNext]_fileVars => FileInv'
<1> SUFFICES ASSUME FileInv, [FileNext]_fileVars PROVE FileInv'
  OBVIOUS
<1> USE FileAssumption
<1>0. CASE UNCHANGED fileVars
  BY <1>0 DEF fileVars, FileInv, FileTypeOK, AsksForPart, OffsetIsSaved
<1>h. ASSUME NEW h \in Opens PROVE
         /\ file \in Seq(Nat) /\ Len(file) \in 0 .. MaxSize
         /\ at[h] \in Nat /\ at = [at EXCEPT ![h] = at[h]]
         /\ returned[h] \in Seq(Int) /\ returned = [returned EXCEPT ![h] = returned[h]]
         /\ io[h] \in IoCalls /\ NoIo \in IoCalls
  BY <1>h, StaysTyped
<1>1. ASSUME NEW h \in Opens, NEW b \in Bytes, Write(h, b) PROVE FileInv'
  <2>1. Kernel!Put(file, at[h], b) \in Seq(Nat) /\ Len(Kernel!Put(file, at[h], b)) <= MaxSize
    <3>1. at[h] < MaxSize /\ Len(file) <= MaxSize /\ b \in Nat
      BY <1>1, <1>h DEF Write
    <3> QED BY <1>h, <3>1, PutIsFile
  <2>2. InCall(h, "idle") /\ UNCHANGED io /\ file' = Kernel!Put(file, at[h], b)
        /\ at' = [at EXCEPT ![h] = at[h] + 1] /\ returned' = [returned EXCEPT ![h] = <<>>]
    BY <1>1 DEF Write, Kernel!PosixWrite, Kernel!Moves, Kernel!Returns
  <2>3. at[h] + 1 \in Nat /\ <<>> \in Seq(Int)
    BY <1>h
  <2> QED BY <2>1, <2>2, <2>3, OneCall, Zenon
<1>2. ASSUME NEW h \in Opens, NEW n \in Lengths, Read(h, n) PROVE FileInv'
  <2> DEFINE got == Kernel!Get(file, at[h], n)
  <2>1. got \in Seq(Int) /\ Len(got) \in Nat
    BY <1>h, GetIsPart
  <2>2. InCall(h, "idle") /\ UNCHANGED io /\ file' = file
        /\ at' = [at EXCEPT ![h] = at[h] + Len(got)] /\ returned' = [returned EXCEPT ![h] = got]
    BY <1>2 DEF Read, Kernel!PosixRead, Kernel!Moves, Kernel!Returns
  <2> HIDE DEF got
  <2>3. at[h] + Len(got) \in Nat /\ Len(file) <= MaxSize
    BY <1>h, <2>1
  <2> QED BY <1>h, <2>1, <2>2, <2>3, OneCall, Zenon
<1>3. ASSUME NEW h \in Opens, InCall(h, "idle"), Kernel!PosixFails(h), UNCHANGED io PROVE FileInv'
  <2>1. file' = file /\ at' = [at EXCEPT ![h] = at[h]]
        /\ returned' = [returned EXCEPT ![h] = Kernel!Error]
    BY <1>3, <1>h DEF Kernel!PosixFails, Kernel!Returns
  <2>2. Len(file) <= MaxSize
    BY <1>h
  <2> QED BY <1>3, <1>h, <2>1, <2>2, ErrorIsSeq, OneCall, Zenon
<1>4. ASSUME NEW h \in Opens, NEW off \in Nat, NEW whence, Seek(h, off, whence) PROVE FileInv'
  <2>1. PICK pos \in {IF whence = "END" THEN Len(file) - off ELSE off} :
           IF pos < 0 THEN Kernel!PosixFails(h) ELSE Kernel!PosixSeek(h, pos)
    BY <1>4 DEF Seek
  <2>2. InCall(h, "idle") /\ UNCHANGED io
    BY <1>4 DEF Seek
  <2>3. CASE pos < 0
    BY <1>3, <2>1, <2>2, <2>3
  <2>4. CASE ~(pos < 0)
    <3>1. pos \in Nat
      BY <2>4, <1>h
    <3>2. Kernel!PosixSeek(h, pos)
      BY <2>1, <2>4
    <3>3. file' = file /\ at' = [at EXCEPT ![h] = pos] /\ returned' = [returned EXCEPT ![h] = <<>>]
      BY <3>2 DEF Kernel!PosixSeek, Kernel!Moves, Kernel!Returns
    <3>4. Len(file) <= MaxSize /\ <<>> \in Seq(Int)
      BY <1>h
    <3> QED BY <1>h, <2>2, <3>1, <3>3, <3>4, OneCall, Zenon
  <2> QED BY <2>3, <2>4
<1>5. ASSUME NEW h \in Opens, NEW n \in 0 .. MaxSize, Ftruncate(h, n) PROVE FileInv'
  <2>1. n \in Nat /\ n <= MaxSize
    OBVIOUS
  <2>2. Kernel!Resize(file, n) \in Seq(Nat) /\ Len(Kernel!Resize(file, n)) <= MaxSize
    BY <1>h, <2>1, ResizeIsFile
  <2>3. InCall(h, "idle") /\ UNCHANGED io /\ file' = Kernel!Resize(file, n)
        /\ at' = [at EXCEPT ![h] = at[h]] /\ returned' = [returned EXCEPT ![h] = <<>>]
    BY <1>5, <1>h DEF Ftruncate, Kernel!PosixTruncate, Kernel!Returns
  <2>4. <<>> \in Seq(Int)
    OBVIOUS
  <2> QED BY <1>h, <2>2, <2>3, <2>4, OneCall, Zenon
<1>6. ASSUME NEW h \in Opens, CallFails(h) PROVE FileInv'
  BY <1>3, <1>6 DEF CallFails
<1>7. ASSUME NEW h \in Opens, NEW off \in 0 .. MaxSize - 1, NEW op \in {"pread", "pwrite"}, NEW arg \in Nat,
             op = "pread" => arg \in Lengths, op = "pwrite" => arg \in Bytes, SaveOffset(h, op, off, arg)
      PROVE FileInv'
  <2> DEFINE c == [pc |-> "seek", op |-> op, off |-> off, arg |-> arg, saved |-> at[h], ret |-> <<>>]
  <2>1. c \in IoCalls /\ c.pc = "seek" /\ c.saved = at[h] /\ c.off < MaxSize /\ c.op = op /\ c.arg = arg
    BY <1>h, EmptyIsSeq DEF IoCalls
  <2>2. io' = [io EXCEPT ![h] = c] /\ file' = file /\ at' = [at EXCEPT ![h] = at[h]]
        /\ returned' = [returned EXCEPT ![h] = returned[h]] /\ Len(file) <= MaxSize
    BY <1>7, <1>h DEF SaveOffset
  <2>3. c.pc \in {"seek", "transfer"} => \/ c.op = "pread" /\ c.arg \in Lengths
                                         \/ c.op = "pwrite" /\ c.arg \in Bytes
    BY <1>7, <2>1
  <2> HIDE DEF c
  <2>4. c.pc # "transfer"
    BY <2>1
  <2> QED BY <1>h, <2>1, <2>2, <2>3, <2>4, OneStep, Zenon
<1>8. ASSUME NEW h \in Opens, SeekTo(h) PROVE FileInv'
  <2>1. CASE io' = [io EXCEPT ![h] = NoIo] /\ Kernel!PosixFails(h)
    <3>1. file' = file /\ at' = [at EXCEPT ![h] = at[h]]
          /\ returned' = [returned EXCEPT ![h] = Kernel!Error] /\ Len(file) <= MaxSize
      BY <2>1, <1>h DEF Kernel!PosixFails, Kernel!Returns
    <3>2. NoIo.pc = "idle"
      BY DEF NoIo
    <3>3. NoIo.pc \notin {"seek", "transfer"}
      BY <3>2
    <3> QED BY <1>h, <2>1, <3>1, <3>3, ErrorIsSeq, OneStep
  <2>2. CASE /\ at' = [at EXCEPT ![h] = io[h].off]
             /\ io' = [io EXCEPT ![h].pc = "transfer", ![h].off = 0]
             /\ UNCHANGED <<file, returned>>
    <3> DEFINE c == [io[h] EXCEPT !.pc = "transfer", !.off = 0]
    <3>1. c \in IoCalls /\ c.pc = "transfer" /\ c.op = io[h].op /\ c.arg = io[h].arg
      BY <1>h DEF IoCalls
    <3>2. io' = [io EXCEPT ![h] = c]
      BY <2>2 DEF FileInv, FileTypeOK
    <3>3. io[h].pc = "seek"
      BY <1>8 DEF SeekTo, InCall
    <3>4. io[h].off \in Nat /\ io[h].off < MaxSize
      BY <1>h, <3>3 DEF IoCalls, FileInv, OffsetIsSaved
    <3>5. \/ io[h].op = "pread" /\ io[h].arg \in Lengths
          \/ io[h].op = "pwrite" /\ io[h].arg \in Bytes
      BY <3>3 DEF FileInv, AsksForPart
    <3>6. file' = file /\ returned' = [returned EXCEPT ![h] = returned[h]] /\ Len(file) <= MaxSize
      BY <2>2, <1>h
    <3> HIDE DEF c
    <3>7. c.pc # "seek"
      BY <3>1
    <3>8. c.pc \in {"seek", "transfer"} => \/ c.op = "pread" /\ c.arg \in Lengths
                                           \/ c.op = "pwrite" /\ c.arg \in Bytes
      BY <3>1, <3>5
    <3>9. at' = [at EXCEPT ![h] = io[h].off]
      BY <2>2
    <3> QED BY <1>h, <3>1, <3>2, <3>4, <3>6, <3>7, <3>8, <3>9, OneStep, Zenon
  <2> QED BY <1>8, <2>1, <2>2 DEF SeekTo
<1>9. ASSUME NEW h \in Opens, Transfer(h) PROVE FileInv'
  <2> DEFINE got == Kernel!Get(file, at[h], io[h].arg)
             put == Kernel!Put(file, at[h], io[h].arg)
             c(r) == [NoIo EXCEPT !.pc = "restore", !.saved = io[h].saved, !.ret = r]
  <2>1. io[h].pc = "transfer" /\ io[h].arg \in Nat /\ at[h] < MaxSize /\ Len(file) <= MaxSize
    BY <1>9, <1>h DEF Transfer, InCall, IoCalls, FileInv, OffsetIsSaved
  <2>2. ASSUME NEW r \in Seq(Int) PROVE c(r) \in IoCalls /\ c(r).pc \notin {"seek", "transfer"}
    BY <1>h DEF IoCalls, NoIo
  <2>3. returned' = [returned EXCEPT ![h] = returned[h]]
    BY <1>9, <1>h DEF Transfer
  <2>4. CASE at' = [at EXCEPT ![h] = @ + Len(got)] /\ io' = [io EXCEPT ![h] = c(got)] /\ UNCHANGED file
    <3>1. got \in Seq(Int) /\ Len(got) \in Nat
      BY <1>h, <2>1, GetIsPart
    <3>2. at' = [at EXCEPT ![h] = at[h] + Len(got)]
      BY <2>4
    <3>3. c(got) \in IoCalls /\ c(got).pc \notin {"seek", "transfer"}
      BY <3>1, <2>2
    <3> HIDE DEF got, c
    <3>4. at[h] + Len(got) \in Nat
      BY <1>h, <3>1
    <3> QED BY <1>h, <2>1, <2>3, <2>4, <3>2, <3>3, <3>4, OneStep
  <2>5. CASE file' = put /\ at' = [at EXCEPT ![h] = @ + 1] /\ io' = [io EXCEPT ![h] = c(<<>>)]
    <3>1. put \in Seq(Nat) /\ Len(put) <= MaxSize
      BY <1>h, <2>1, PutIsFile
    <3>2. at' = [at EXCEPT ![h] = at[h] + 1]
      BY <2>5
    <3>3. c(<<>>) \in IoCalls /\ c(<<>>).pc \notin {"seek", "transfer"}
      BY EmptyIsSeq, <2>2
    <3> HIDE DEF put, c
    <3>4. PICK f \in Seq(Nat) : f = put /\ Len(f) <= MaxSize
      BY <3>1
    <3>5. PICK a \in Nat : a = at[h] + 1
      BY <1>h
    <3>6. PICK d \in IoCalls : d = c(<<>>) /\ d.pc \notin {"seek", "transfer"}
      BY <3>3
    <3>7. returned[h] \in Seq(Int)
      BY DEF FileInv, FileTypeOK
    <3>8. file' = f /\ at' = [at EXCEPT ![h] = a] /\ io' = [io EXCEPT ![h] = d]
      BY <2>5, <3>2, <3>4, <3>5, <3>6
    <3> QED BY <2>3, <3>4, <3>6, <3>7, <3>8, OneStep, ZenonT(30)
  <2>6. CASE io' = [io EXCEPT ![h] = c(Kernel!Error)] /\ UNCHANGED <<file, at>>
    <3>1. c(Kernel!Error) \in IoCalls /\ c(Kernel!Error).pc \notin {"seek", "transfer"}
      BY ErrorIsSeq, <2>2
    <3>2. at' = [at EXCEPT ![h] = at[h]] /\ file' = file
      BY <2>6, <1>h
    <3> HIDE DEF c
    <3>3. io' = [io EXCEPT ![h] = c(Kernel!Error)]
      BY <2>6
    <3> DEFINE cc == c(Kernel!Error)
    <3>4. cc \in IoCalls /\ cc.pc # "seek" /\ cc.pc # "transfer" /\ io' = [io EXCEPT ![h] = cc]
      BY <3>1, <3>3
    <3> HIDE DEF c, cc
    <3>5. cc.pc \notin {"seek", "transfer"}
      BY <3>4
    <3> QED BY <1>h, <2>1, <2>3, <3>2, <3>4, <3>5, OneStep, Zenon
  <2> QED BY <1>9, <2>4, <2>5, <2>6 DEF Transfer
<1>10. ASSUME NEW h \in Opens, Restore(h) PROVE FileInv'
  <2>1. io[h].saved \in Nat /\ io[h].ret \in Seq(Int) /\ Len(file) <= MaxSize
    BY <1>h DEF IoCalls
  <2>2. NoIo.pc \notin {"seek", "transfer"}
    BY DEF NoIo
  <2>3. file' = file /\ returned' = [returned EXCEPT ![h] = io[h].ret] /\ io' = [io EXCEPT ![h] = NoIo]
    BY <1>10 DEF Restore
  <2>4. PICK a \in {io[h].saved, at[h]} : at' = [at EXCEPT ![h] = a]
    BY <1>10, <1>h DEF Restore
  <2>5. a \in Nat
    BY <1>h, <2>1
  <2> QED BY <1>h, <2>1, <2>2, <2>3, <2>4, <2>5, OneStep
<1>11. ASSUME FileNext PROVE FileInv'
  <2>1. PICK h \in Opens :
           \/ CallFails(h) \/ SeekTo(h) \/ Transfer(h) \/ Restore(h)
           \/ \E b \in Bytes : Write(h, b)
           \/ \E n \in Lengths : Read(h, n)
           \/ \E off \in 0 .. MaxSize : Ftruncate(h, off) \/ Seek(h, off, "SET")
           \/ \E off \in {0, 1} : Seek(h, off, "END")
           \/ \E off \in 0 .. MaxSize - 1 :
                 \/ \E n \in Lengths : SaveOffset(h, "pread", off, n)
                 \/ \E b \in Bytes : SaveOffset(h, "pwrite", off, b)
    BY <1>11 DEF FileNext
  <2>2. CASE CallFails(h) \/ SeekTo(h) \/ Transfer(h) \/ Restore(h)
    BY <2>2, <1>6, <1>8, <1>9, <1>10
  <2>3. CASE \/ \E b \in Bytes : Write(h, b)
             \/ \E n \in Lengths : Read(h, n)
    BY <2>3, <1>1, <1>2
  <2>4. CASE \E off \in 0 .. MaxSize : Ftruncate(h, off) \/ Seek(h, off, "SET")
    <3>1. PICK off \in 0 .. MaxSize : Ftruncate(h, off) \/ Seek(h, off, "SET")
      BY <2>4
    <3>2. off \in Nat
      OBVIOUS
    <3> QED BY <3>1, <3>2, <1>4, <1>5
  <2>5. CASE \E off \in {0, 1} : Seek(h, off, "END")
    BY <2>5, <1>4
  <2>6. CASE \E off \in 0 .. MaxSize - 1 :
                \/ \E n \in Lengths : SaveOffset(h, "pread", off, n)
                \/ \E b \in Bytes : SaveOffset(h, "pwrite", off, b)
    <3>1. ASSUME NEW off \in 0 .. MaxSize - 1, NEW n \in Lengths, SaveOffset(h, "pread", off, n) PROVE FileInv'
      BY <3>1, <1>7
    <3>2. ASSUME NEW off \in 0 .. MaxSize - 1, NEW b \in Bytes, SaveOffset(h, "pwrite", off, b) PROVE FileInv'
      BY <3>2, <1>7
    <3> QED BY <2>6, <3>1, <3>2
  <2> QED BY <2>1, <2>2, <2>3, <2>4, <2>5, <2>6
<1> QED BY <1>0, <1>11

-----------------------------------------------------------------------------
(* The refinement.                                                         *)

\* What the program sees change when only h's offset, result and call do.
LEMMA Seen ==
    ASSUME FileInv, NEW h \in Opens, NEW a, NEW r, NEW c,
           at' = [at EXCEPT ![h] = a], returned' = [returned EXCEPT ![h] = r], io' = [io EXCEPT ![h] = c]
    PROVE  /\ SeenOffset' = [SeenOffset EXCEPT
                  ![h] = IF c.pc \in {"transfer", "restore"} THEN c.saved ELSE a]
           /\ SeenResult' = [SeenResult EXCEPT ![h] = IF c.pc = "restore" THEN c.ret ELSE r]
<1>1. at'[h] = a /\ returned'[h] = r /\ io'[h] = c
  BY DEF FileInv, FileTypeOK
<1>2. \A g \in Opens \ {h} : at'[g] = at[g] /\ returned'[g] = returned[g] /\ io'[g] = io[g]
  BY DEF FileInv, FileTypeOK
<1>3. SeenOffset' = [SeenOffset EXCEPT ![h] = IF c.pc \in {"transfer", "restore"} THEN c.saved ELSE a]
  <2> DEFINE new == IF c.pc \in {"transfer", "restore"} THEN c.saved ELSE a
  <2>1. SeenOffset' = [g \in Opens |-> IF io'[g].pc \in {"transfer", "restore"} THEN io'[g].saved ELSE at'[g]]
    BY DEF SeenOffset
  <2>2. SeenOffset = [g \in Opens |-> IF io[g].pc \in {"transfer", "restore"} THEN io[g].saved ELSE at[g]]
    BY DEF SeenOffset
  <2>3. SeenOffset'[h] = new
    BY <1>1, <2>1
  <2>4. \A g \in Opens \ {h} : SeenOffset'[g] = SeenOffset[g]
    BY <1>2, <2>1, <2>2
  <2> HIDE DEF new
  <2>5. SeenOffset' = [g \in Opens |-> SeenOffset'[g]] /\ SeenOffset = [g \in Opens |-> SeenOffset[g]]
    BY <2>1, <2>2
  <2>6. SeenOffset' = [SeenOffset EXCEPT ![h] = new]
    BY <2>3, <2>4, <2>5
  <2> QED BY <2>6 DEF new
<1>4. SeenResult' = [SeenResult EXCEPT ![h] = IF c.pc = "restore" THEN c.ret ELSE r]
  <2> DEFINE new == IF c.pc = "restore" THEN c.ret ELSE r
  <2>1. SeenResult' = [g \in Opens |-> IF io'[g].pc = "restore" THEN io'[g].ret ELSE returned'[g]]
    BY DEF SeenResult, InCall
  <2>2. SeenResult = [g \in Opens |-> IF io[g].pc = "restore" THEN io[g].ret ELSE returned[g]]
    BY DEF SeenResult, InCall
  <2>3. SeenResult'[h] = new
    BY <1>1, <2>1
  <2>4. \A g \in Opens \ {h} : SeenResult'[g] = SeenResult[g]
    BY <1>2, <2>1, <2>2
  <2> HIDE DEF new
  <2>5. SeenResult' = [g \in Opens |-> SeenResult'[g]] /\ SeenResult = [g \in Opens |-> SeenResult[g]]
    BY <2>1, <2>2
  <2>6. SeenResult' = [SeenResult EXCEPT ![h] = new]
    BY <2>3, <2>4, <2>5
  <2> QED BY <2>6 DEF new
<1> QED BY <1>3, <1>4

\* What it sees of an open file that is in no call, or about to seek.
LEMMA SeenNow ==
    ASSUME FileInv, NEW h \in Opens
    PROVE  /\ io[h].pc \in {"idle", "seek"} => SeenOffset[h] = at[h] /\ SeenResult[h] = returned[h]
           /\ io[h].pc = "transfer" => SeenOffset[h] = io[h].saved /\ SeenResult[h] = returned[h]
           /\ io[h].pc = "restore" => SeenOffset[h] = io[h].saved /\ SeenResult[h] = io[h].ret
           /\ SeenOffset = [SeenOffset EXCEPT ![h] = SeenOffset[h]]
           /\ SeenResult = [SeenResult EXCEPT ![h] = SeenResult[h]]
BY DEF SeenOffset, SeenResult, InCall

LEMMA FileInitRefines == FileInit => Posix!PosixInit
BY DEF FileInit, Posix!PosixInit, SeenOffset, SeenResult, NoIo, InCall

\* The two instances of PosixFile do the same to a file.
LEMMA SameOperators ==
    ASSUME NEW f, NEW a, NEW b, NEW n
    PROVE  /\ Posix!Put(f, a, b) = Kernel!Put(f, a, b) /\ Posix!Get(f, a, n) = Kernel!Get(f, a, n)
           /\ Posix!Resize(f, n) = Kernel!Resize(f, n) /\ Posix!Error = Kernel!Error
BY DEF Posix!Put, Kernel!Put, Posix!Get, Kernel!Get, Posix!Least, Kernel!Least, Posix!Resize, Kernel!Resize,
       Posix!Error, Kernel!Error

\* A call that is one system call is seen as it is.
LEMMA OneCallSeen ==
    ASSUME FileInv, NEW h \in Opens, InCall(h, "idle"), UNCHANGED io, NEW a, NEW r,
           at' = [at EXCEPT ![h] = a], returned' = [returned EXCEPT ![h] = r]
    PROVE  SeenOffset' = [SeenOffset EXCEPT ![h] = a] /\ SeenResult' = [SeenResult EXCEPT ![h] = r]
<1>1. /\ SeenOffset' = [g \in Opens |-> IF io[g].pc \in {"transfer", "restore"} THEN io[g].saved ELSE at'[g]]
      /\ SeenResult' = [g \in Opens |-> IF io[g].pc = "restore" THEN io[g].ret ELSE returned'[g]]
  BY DEF SeenOffset, SeenResult, InCall
<1>2. /\ SeenOffset = [g \in Opens |-> IF io[g].pc \in {"transfer", "restore"} THEN io[g].saved ELSE at[g]]
      /\ SeenResult = [g \in Opens |-> IF io[g].pc = "restore" THEN io[g].ret ELSE returned[g]]
  BY DEF SeenOffset, SeenResult, InCall
<1>3. /\ io[h].pc = "idle" /\ at'[h] = a /\ returned'[h] = r
      /\ \A g \in Opens \ {h} : at'[g] = at[g] /\ returned'[g] = returned[g]
  BY DEF InCall, FileInv, FileTypeOK
<1> QED BY <1>1, <1>2, <1>3

LEMMA FileNextRefines ==
    FileInv /\ [FileNext]_fileVars => [Posix!PosixNext]_<<file, SeenOffset, SeenResult, misplaced>>
<1> SUFFICES ASSUME FileInv, [FileNext]_fileVars
             PROVE  Posix!PosixNext \/ UNCHANGED <<file, SeenOffset, SeenResult, misplaced>>
  OBVIOUS
<1> USE FileAssumption
<1>0. CASE UNCHANGED fileVars
  BY <1>0 DEF fileVars, SeenOffset, SeenResult, InCall
<1>h. ASSUME NEW h \in Opens PROVE
         /\ file \in Seq(Nat) /\ Len(file) \in 0 .. MaxSize
         /\ at[h] \in Nat /\ at = [at EXCEPT ![h] = at[h]]
         /\ returned[h] \in Seq(Int) /\ returned = [returned EXCEPT ![h] = returned[h]]
         /\ io[h] \in IoCalls /\ NoIo \in IoCalls
  BY <1>h, StaysTyped
<1>s. ASSUME NEW h \in Opens PROVE
         /\ io[h].pc \in {"idle", "seek"} => SeenOffset[h] = at[h] /\ SeenResult[h] = returned[h]
         /\ io[h].pc = "transfer" => SeenOffset[h] = io[h].saved /\ SeenResult[h] = returned[h]
         /\ io[h].pc = "restore" => SeenOffset[h] = io[h].saved /\ SeenResult[h] = io[h].ret
         /\ SeenOffset = [SeenOffset EXCEPT ![h] = SeenOffset[h]]
         /\ SeenResult = [SeenResult EXCEPT ![h] = SeenResult[h]]
  BY <1>s, SeenNow
<1>1. ASSUME NEW h \in Opens, NEW b \in Bytes, Write(h, b) PROVE Posix!PosixWrite(h, b)
  <2>1. InCall(h, "idle") /\ UNCHANGED io /\ file' = Kernel!Put(file, at[h], b)
        /\ at' = [at EXCEPT ![h] = at[h] + 1] /\ returned' = [returned EXCEPT ![h] = <<>>]
    BY <1>1 DEF Write, Kernel!PosixWrite, Kernel!Moves, Kernel!Returns
  <2>2. SeenOffset' = [SeenOffset EXCEPT ![h] = at[h] + 1] /\ SeenResult' = [SeenResult EXCEPT ![h] = <<>>]
    BY <2>1, OneCallSeen, Zenon
  <2>3. SeenOffset[h] = at[h]
    BY <2>1, <1>s DEF InCall
  <2> QED BY <2>1, <2>2, <2>3, SameOperators DEF Posix!PosixWrite, Posix!Moves, Posix!Returns
<1>2. ASSUME NEW h \in Opens, NEW n \in Lengths, Read(h, n) PROVE Posix!PosixRead(h, n)
  <2> DEFINE got == Kernel!Get(file, at[h], n)
  <2>1. InCall(h, "idle") /\ UNCHANGED io /\ file' = file
        /\ at' = [at EXCEPT ![h] = at[h] + Len(got)] /\ returned' = [returned EXCEPT ![h] = got]
    BY <1>2 DEF Read, Kernel!PosixRead, Kernel!Moves, Kernel!Returns
  <2>2. SeenOffset' = [SeenOffset EXCEPT ![h] = at[h] + Len(got)] /\ SeenResult' = [SeenResult EXCEPT ![h] = got]
    BY <2>1, OneCallSeen, Zenon
  <2>3. SeenOffset[h] = at[h]
    BY <2>1, <1>s DEF InCall
  <2> QED BY <2>1, <2>2, <2>3, SameOperators DEF Posix!PosixRead, Posix!Moves, Posix!Returns
<1>3. ASSUME NEW h \in Opens, InCall(h, "idle"), Kernel!PosixFails(h), UNCHANGED io PROVE Posix!PosixFails(h)
  <2>1. file' = file /\ at' = [at EXCEPT ![h] = at[h]]
        /\ returned' = [returned EXCEPT ![h] = Kernel!Error]
    BY <1>3, <1>h DEF Kernel!PosixFails, Kernel!Returns
  <2>2. SeenOffset' = [SeenOffset EXCEPT ![h] = at[h]] /\ SeenResult' = [SeenResult EXCEPT ![h] = Kernel!Error]
    BY <1>3, <2>1, OneCallSeen, Zenon
  <2>3. SeenOffset[h] = at[h]
    BY <1>3, <1>s DEF InCall
  <2> QED BY <1>s, <2>1, <2>2, <2>3, SameOperators DEF Posix!PosixFails, Posix!Returns
<1>4. ASSUME NEW h \in Opens, NEW off \in Nat, NEW whence, off <= MaxSize \/ whence = "END", Seek(h, off, whence)
      PROVE Posix!PosixFails(h) \/ \E pos \in 0 .. MaxSize : Posix!PosixSeek(h, pos)
  <2>1. PICK pos \in {IF whence = "END" THEN Len(file) - off ELSE off} :
           IF pos < 0 THEN Kernel!PosixFails(h) ELSE Kernel!PosixSeek(h, pos)
    BY <1>4 DEF Seek
  <2>2. InCall(h, "idle") /\ UNCHANGED io
    BY <1>4 DEF Seek
  <2>3. CASE pos < 0
    BY <1>3, <2>1, <2>2, <2>3
  <2>4. CASE ~(pos < 0)
    <3>1. pos \in 0 .. MaxSize
      BY <1>4, <2>4, <1>h
    <3>2. Kernel!PosixSeek(h, pos)
      BY <2>1, <2>4
    <3>3. file' = file /\ at' = [at EXCEPT ![h] = pos] /\ returned' = [returned EXCEPT ![h] = <<>>]
      BY <3>2 DEF Kernel!PosixSeek, Kernel!Moves, Kernel!Returns
    <3>4. SeenOffset' = [SeenOffset EXCEPT ![h] = pos] /\ SeenResult' = [SeenResult EXCEPT ![h] = <<>>]
      BY <2>2, <3>3, OneCallSeen, Zenon
    <3>5. Posix!PosixSeek(h, pos)
      BY <3>3, <3>4 DEF Posix!PosixSeek, Posix!Moves, Posix!Returns
    <3> QED BY <3>1, <3>5
  <2> QED BY <2>3, <2>4
<1>5. ASSUME NEW h \in Opens, NEW n \in 0 .. MaxSize, Ftruncate(h, n) PROVE Posix!PosixTruncate(h, n)
  <2>1. InCall(h, "idle") /\ UNCHANGED io /\ file' = Kernel!Resize(file, n)
        /\ at' = [at EXCEPT ![h] = at[h]] /\ returned' = [returned EXCEPT ![h] = <<>>]
    BY <1>5, <1>h DEF Ftruncate, Kernel!PosixTruncate, Kernel!Returns
  <2>2. SeenOffset' = [SeenOffset EXCEPT ![h] = at[h]] /\ SeenResult' = [SeenResult EXCEPT ![h] = <<>>]
    BY <2>1, OneCallSeen, Zenon
  <2>3. SeenOffset[h] = at[h]
    BY <2>1, <1>s DEF InCall
  <2> QED BY <1>s, <2>1, <2>2, <2>3, SameOperators DEF Posix!PosixTruncate, Posix!Returns
<1>6. ASSUME NEW h \in Opens, CallFails(h) PROVE Posix!PosixFails(h)
  BY <1>3, <1>6 DEF CallFails
<1>7. ASSUME NEW h \in Opens, NEW op, NEW off, NEW arg, SaveOffset(h, op, off, arg)
      PROVE UNCHANGED <<file, SeenOffset, SeenResult>>
  <2> DEFINE c == [pc |-> "seek", op |-> op, off |-> off, arg |-> arg, saved |-> at[h], ret |-> <<>>]
  <2>1. io[h].pc = "idle" /\ c.pc = "seek"
    BY <1>7 DEF SaveOffset, InCall
  <2>2. io' = [io EXCEPT ![h] = c] /\ file' = file /\ at' = [at EXCEPT ![h] = at[h]]
        /\ returned' = [returned EXCEPT ![h] = returned[h]]
    BY <1>7, <1>h DEF SaveOffset
  <2> HIDE DEF c
  <2>3. /\ SeenOffset' = [SeenOffset EXCEPT ![h] = IF c.pc \in {"transfer", "restore"} THEN c.saved ELSE at[h]]
        /\ SeenResult' = [SeenResult EXCEPT ![h] = IF c.pc = "restore" THEN c.ret ELSE returned[h]]
    BY <2>2, Seen, Zenon
  <2>4. c.pc \notin {"transfer", "restore"} /\ c.pc # "restore"
    BY <2>1
  <2>5. SeenOffset' = [SeenOffset EXCEPT ![h] = at[h]] /\ SeenResult' = [SeenResult EXCEPT ![h] = returned[h]]
    BY <2>3, <2>4
  <2> QED BY <1>s, <2>1, <2>2, <2>5
<1>8. ASSUME NEW h \in Opens, SeekTo(h)
      PROVE Posix!PosixFails(h) \/ UNCHANGED <<file, SeenOffset, SeenResult>>
  <2>0. io[h].pc = "seek"
    BY <1>8 DEF SeekTo, InCall
  <2>1. CASE io' = [io EXCEPT ![h] = NoIo] /\ Kernel!PosixFails(h)
    <3>1. file' = file /\ at' = [at EXCEPT ![h] = at[h]] /\ returned' = [returned EXCEPT ![h] = Kernel!Error]
      BY <2>1, <1>h DEF Kernel!PosixFails, Kernel!Returns
    <3>2. /\ SeenOffset' = [SeenOffset EXCEPT ![h] = IF NoIo.pc \in {"transfer", "restore"} THEN NoIo.saved ELSE at[h]]
          /\ SeenResult' = [SeenResult EXCEPT ![h] = IF NoIo.pc = "restore" THEN NoIo.ret ELSE Kernel!Error]
      BY <2>1, <3>1, Seen, Zenon
    <3>3. NoIo.pc \notin {"transfer", "restore"} /\ NoIo.pc # "restore"
      BY DEF NoIo
    <3>4. SeenOffset' = [SeenOffset EXCEPT ![h] = at[h]] /\ SeenResult' = [SeenResult EXCEPT ![h] = Kernel!Error]
      BY <3>2, <3>3
    <3> QED BY <1>s, <2>0, <3>1, <3>4, SameOperators DEF Posix!PosixFails, Posix!Returns
  <2>2. CASE /\ at' = [at EXCEPT ![h] = io[h].off]
             /\ io' = [io EXCEPT ![h].pc = "transfer", ![h].off = 0]
             /\ UNCHANGED <<file, returned>>
    <3> DEFINE c == [io[h] EXCEPT !.pc = "transfer", !.off = 0]
    <3>1. c.pc = "transfer" /\ c.saved = io[h].saved
      BY <1>h DEF IoCalls
    <3>2. io' = [io EXCEPT ![h] = c] /\ returned' = [returned EXCEPT ![h] = returned[h]]
          /\ at' = [at EXCEPT ![h] = io[h].off]
      BY <2>2 DEF FileInv, FileTypeOK
    <3> HIDE DEF c
    <3>3. /\ SeenOffset' = [SeenOffset EXCEPT ![h] = IF c.pc \in {"transfer", "restore"} THEN c.saved ELSE io[h].off]
          /\ SeenResult' = [SeenResult EXCEPT ![h] = IF c.pc = "restore" THEN c.ret ELSE returned[h]]
      BY <3>2, Seen, Zenon
    <3>4. io[h].saved = at[h]
      BY <2>0 DEF FileInv, OffsetIsSaved
    <3>5. SeenOffset' = [SeenOffset EXCEPT ![h] = at[h]] /\ SeenResult' = [SeenResult EXCEPT ![h] = returned[h]]
      BY <3>1, <3>3, <3>4
    <3> QED BY <1>s, <2>0, <2>2, <3>5
  <2> QED BY <1>8, <2>1, <2>2 DEF SeekTo
<1>9. ASSUME NEW h \in Opens, Transfer(h)
      PROVE \/ Posix!PosixFails(h)
            \/ \E pos \in 0 .. MaxSize : \/ \E n \in Lengths : Posix!PosixPread(h, pos, n)
                                         \/ \E b \in Bytes : Posix!PosixPwrite(h, pos, b)
  <2> DEFINE got == Kernel!Get(file, at[h], io[h].arg)
             put == Kernel!Put(file, at[h], io[h].arg)
             c(r) == [NoIo EXCEPT !.pc = "restore", !.saved = io[h].saved, !.ret = r]
  <2>1. io[h].pc = "transfer" /\ at[h] \in 0 .. MaxSize
    BY <1>9, <1>h DEF Transfer, InCall, FileInv, OffsetIsSaved
  <2>2. ASSUME NEW r PROVE c(r).pc = "restore" /\ c(r).saved = io[h].saved /\ c(r).ret = r
    BY DEF NoIo
  <2>3. returned' = [returned EXCEPT ![h] = returned[h]]
    BY <1>9, <1>h DEF Transfer
  <2>4. SeenOffset[h] = io[h].saved
    BY <2>1, <1>s
  <2>5. ASSUME NEW a, NEW r, at' = [at EXCEPT ![h] = a], io' = [io EXCEPT ![h] = c(r)]
        PROVE  SeenOffset' = SeenOffset /\ SeenResult' = [SeenResult EXCEPT ![h] = r]
    <3> DEFINE cc == c(r)
    <3>1. cc.pc = "restore" /\ cc.saved = io[h].saved /\ cc.ret = r /\ io' = [io EXCEPT ![h] = cc]
      BY <2>2, <2>5
    <3> HIDE DEF c, cc
    <3>2. /\ SeenOffset' = [SeenOffset EXCEPT ![h] = IF cc.pc \in {"transfer", "restore"} THEN cc.saved ELSE a]
          /\ SeenResult' = [SeenResult EXCEPT ![h] = IF cc.pc = "restore" THEN cc.ret ELSE returned[h]]
      BY <2>3, <2>5, <3>1, Seen, Zenon
    <3>3. SeenOffset' = [SeenOffset EXCEPT ![h] = io[h].saved] /\ SeenResult' = [SeenResult EXCEPT ![h] = r]
      BY <3>1, <3>2
    <3> QED BY <1>s, <2>4, <3>3
  <2>6. CASE io[h].op = "pread" /\ at' = [at EXCEPT ![h] = @ + Len(got)] /\ io' = [io EXCEPT ![h] = c(got)] /\ UNCHANGED file
    <3>1. io[h].arg \in Lengths
      BY <2>1, <2>6 DEF FileInv, AsksForPart
    <3>2. SeenOffset' = SeenOffset /\ SeenResult' = [SeenResult EXCEPT ![h] = got]
      <4>1. at' = [at EXCEPT ![h] = at[h] + Len(got)] /\ io' = [io EXCEPT ![h] = c(got)]
        BY <2>6
      <4> HIDE DEF got, c
      <4> QED BY <4>1, <2>5
    <3>3. Posix!PosixPread(h, at[h], io[h].arg)
      BY <2>6, <3>2, SameOperators DEF Posix!PosixPread, Posix!Returns
    <3> QED BY <2>1, <3>1, <3>3
  <2>7. CASE io[h].op = "pwrite" /\ file' = put /\ at' = [at EXCEPT ![h] = @ + 1] /\ io' = [io EXCEPT ![h] = c(<<>>)]
    <3>1. io[h].arg \in Bytes
      BY <2>1, <2>7 DEF FileInv, AsksForPart
    <3>2. SeenOffset' = SeenOffset /\ SeenResult' = [SeenResult EXCEPT ![h] = <<>>]
      <4>1. at' = [at EXCEPT ![h] = at[h] + 1] /\ io' = [io EXCEPT ![h] = c(<<>>)]
        BY <2>7
      <4> HIDE DEF c
      <4> QED BY <4>1, <2>5
    <3>3. Posix!PosixPwrite(h, at[h], io[h].arg)
      BY <2>7, <3>2, SameOperators DEF Posix!PosixPwrite, Posix!Returns
    <3> QED BY <2>1, <3>1, <3>3
  <2>8. CASE io' = [io EXCEPT ![h] = c(Kernel!Error)] /\ UNCHANGED <<file, at>>
    <3>1. SeenOffset' = SeenOffset /\ SeenResult' = [SeenResult EXCEPT ![h] = Kernel!Error]
      <4>1. at' = [at EXCEPT ![h] = at[h]] /\ io' = [io EXCEPT ![h] = c(Kernel!Error)]
        BY <2>8, <1>h
      <4> HIDE DEF c
      <4> QED BY <4>1, <2>5
    <3> QED BY <2>8, <3>1, SameOperators DEF Posix!PosixFails, Posix!Returns
  <2> QED BY <1>9, <2>6, <2>7, <2>8 DEF Transfer
<1>10. ASSUME NEW h \in Opens, Restore(h)
       PROVE Posix!PosixMisplaces(h) \/ Posix!PosixGoesOn
  <2>1. io[h].pc = "restore" /\ file' = file
        /\ returned' = [returned EXCEPT ![h] = io[h].ret] /\ io' = [io EXCEPT ![h] = NoIo]
    BY <1>10 DEF Restore, InCall
  <2>2. NoIo.pc \notin {"transfer", "restore"} /\ NoIo.pc # "restore"
    BY DEF NoIo
  <2>3. ASSUME NEW a, at' = [at EXCEPT ![h] = a]
        PROVE  SeenOffset' = [SeenOffset EXCEPT ![h] = a] /\ SeenResult' = SeenResult
    <3>1. /\ SeenOffset' = [SeenOffset EXCEPT ![h] = IF NoIo.pc \in {"transfer", "restore"} THEN NoIo.saved ELSE a]
          /\ SeenResult' = [SeenResult EXCEPT ![h] = IF NoIo.pc = "restore" THEN NoIo.ret ELSE io[h].ret]
      BY <2>1, <2>3, Seen, Zenon
    <3>2. SeenOffset' = [SeenOffset EXCEPT ![h] = a] /\ SeenResult' = [SeenResult EXCEPT ![h] = io[h].ret]
      BY <2>2, <3>1
    <3> QED BY <1>s, <2>1, <3>2
  <2>4. CASE at' = [at EXCEPT ![h] = io[h].saved] /\ misplaced' = {}
    BY <1>s, <2>1, <2>3, <2>4 DEF Posix!PosixGoesOn
  <2>5. CASE at' = at /\ misplaced' = {h}
    <3>1. SeenOffset' = [SeenOffset EXCEPT ![h] = at[h]] /\ SeenResult' = SeenResult
      BY <1>h, <2>3, <2>5
    <3>2. SeenOffset'[h] = at[h]
      BY <3>1 DEF SeenOffset
    <3> QED BY <2>1, <2>5, <3>1, <3>2 DEF Posix!PosixMisplaces, Posix!Moves
  <2> QED BY <1>10, <2>4, <2>5 DEF Restore, SeekBackTaken
<1>m. ASSUME NEW h \in Opens,
             \/ CallFails(h) \/ SeekTo(h) \/ Transfer(h)
             \/ \E b \in Bytes : Write(h, b)
             \/ \E n \in Lengths : Read(h, n)
             \/ \E off \in 0 .. MaxSize : Ftruncate(h, off) \/ Seek(h, off, "SET")
             \/ \E off \in {0, 1} : Seek(h, off, "END")
             \/ \E off \in 0 .. MaxSize - 1 :
                   \/ \E n \in Lengths : SaveOffset(h, "pread", off, n)
                   \/ \E b \in Bytes : SaveOffset(h, "pwrite", off, b)
      PROVE misplaced' = {}
  BY <1>m, Zenon DEF SeekBackTaken, CallFails, SeekTo, Transfer, Write, Read, Ftruncate, Seek, SaveOffset
<1>11. ASSUME FileNext PROVE Posix!PosixNext \/ UNCHANGED <<file, SeenOffset, SeenResult, misplaced>>
  <2>1. PICK h \in Opens :
           \/ CallFails(h) \/ SeekTo(h) \/ Transfer(h) \/ Restore(h)
           \/ \E b \in Bytes : Write(h, b)
           \/ \E n \in Lengths : Read(h, n)
           \/ \E off \in 0 .. MaxSize : Ftruncate(h, off) \/ Seek(h, off, "SET")
           \/ \E off \in {0, 1} : Seek(h, off, "END")
           \/ \E off \in 0 .. MaxSize - 1 :
                 \/ \E n \in Lengths : SaveOffset(h, "pread", off, n)
                 \/ \E b \in Bytes : SaveOffset(h, "pwrite", off, b)
    BY <1>11 DEF FileNext
  <2>r. CASE Restore(h)
    BY <2>r, <1>10 DEF Posix!PosixNext
  <2>2. CASE CallFails(h) \/ SeekTo(h) \/ Transfer(h)
    <3>1. Posix!PosixCall(h) \/ UNCHANGED <<file, SeenOffset, SeenResult>>
      BY <2>2, <1>6, <1>8, <1>9 DEF Posix!PosixCall
    <3> QED BY <2>2, <3>1, <1>m DEF Posix!PosixNext, Posix!PosixGoesOn
  <2>3. CASE \/ \E b \in Bytes : Write(h, b)
             \/ \E n \in Lengths : Read(h, n)
    <3>1. Posix!PosixCall(h)
      BY <2>3, <1>1, <1>2 DEF Posix!PosixCall
    <3> QED BY <2>3, <3>1, <1>m DEF Posix!PosixNext
  <2>4. CASE \E off \in 0 .. MaxSize : Ftruncate(h, off) \/ Seek(h, off, "SET")
    <3>1. PICK off \in 0 .. MaxSize : Ftruncate(h, off) \/ Seek(h, off, "SET")
      BY <2>4
    <3>2. off \in Nat /\ off <= MaxSize
      OBVIOUS
    <3>3. Posix!PosixCall(h)
      BY <3>1, <3>2, <1>4, <1>5 DEF Posix!PosixCall
    <3> QED BY <2>4, <3>3, <1>m DEF Posix!PosixNext
  <2>5. CASE \E off \in {0, 1} : Seek(h, off, "END")
    <3>1. PICK off \in Nat : Seek(h, off, "END")
      BY <2>5
    <3>2. Posix!PosixCall(h)
      BY <3>1, <1>4 DEF Posix!PosixCall
    <3> QED BY <2>5, <3>2, <1>m DEF Posix!PosixNext
  <2>6. CASE \E off \in 0 .. MaxSize - 1 :
                \/ \E n \in Lengths : SaveOffset(h, "pread", off, n)
                \/ \E b \in Bytes : SaveOffset(h, "pwrite", off, b)
    BY <2>6, <1>7, <1>m DEF Posix!PosixNext, Posix!PosixGoesOn
  <2> QED BY <2>1, <2>r, <2>2, <2>3, <2>4, <2>5, <2>6
<1> QED BY <1>0, <1>11

\* sysdeps.cpp:1859, for files, reads and offsets of any size and any number of
\* open files: calls that seek and come back are seen as calls that do not move.
THEOREM FilesImplementPosix == FileSpec => ImplementsPosix
<1>1. FileSpec => []FileInv
  BY FileInitInv, FileNextInv, PTL DEF FileSpec
<1> QED BY <1>1, FileInitRefines, FileNextRefines, PTL DEF FileSpec, ImplementsPosix, Posix!PosixSpec

(***************************************************************************)
(* Calls on a directory fd act in that directory                           *)
(***************************************************************************)

Kinds == {"none", "use", "create", "remove", "utime", "rename", "link", "chdir"}

PathsTypeOK ==
    /\ where \in [Dirs -> Places]
    /\ pathCall \in [pc : {"done", "resolve", "stat", "act"}, kind : Kinds,
                     want : Seq(Dirs \X Nat), paths : Seq(Nat \X Nat),
                     moved : BOOLEAN, cut : BOOLEAN, acted : SUBSET (Dirs \X Nat)]

PlacesDiffer == \A d, e \in Dirs : d # e => where[d] # where[e]

\* How many names a call has, and how many of them are resolved.
NamesCounted ==
    /\ pathCall.pc # "done" => Len(pathCall.want) = IF pathCall.kind \in {"rename", "link"} THEN 2 ELSE 1
    /\ pathCall.pc = "resolve" => Len(pathCall.paths) < Len(pathCall.want)
    /\ pathCall.pc \in {"stat", "act"} => Len(pathCall.paths) = Len(pathCall.want)
    /\ pathCall.pc = "stat" => pathCall.kind = "utime"

\* A path says where the directory is, as long as nothing was moved since.
PathsLead ==
    pathCall.pc # "done" /\ ~pathCall.moved /\ ~pathCall.cut =>
        \A i \in 1 .. Len(pathCall.paths) :
            pathCall.paths[i] = <<where[pathCall.want[i][1]], pathCall.want[i][2]>>

\* Only the times of the file itself are read before the call.
ActedPart ==
    /\ pathCall.pc \in {"resolve", "stat"} => pathCall.acted = {}
    /\ pathCall.pc = "act" /\ pathCall.kind # "utime" => pathCall.acted = {}
    /\ pathCall.pc = "act" /\ ~pathCall.moved /\ ~pathCall.cut => pathCall.acted \subseteq {pathCall.want[1]}

PathsInv == PathsTypeOK /\ PlacesDiffer /\ NamesCounted /\ PathsLead /\ ActedPart /\ AtFindsItsFile

-----------------------------------------------------------------------------
\* A path leads to one directory.
LEMMA PathLeads ==
    ASSUME PlacesDiffer, NEW d \in Dirs, NEW n
    PROVE  Found(<<where[d], n>>) = {<<d, n>>}
BY DEF PlacesDiffer, Found

LEMMA PathFound ==
    ASSUME PathsTypeOK, NEW path \in Nat \X Nat
    PROVE  Found(path) \in SUBSET (Dirs \X Nat)
BY DEF PathsTypeOK, Found

LEMMA PathsInitInv == PathsInit => PathsInv
<1> SUFFICES ASSUME PathsInit PROVE PathsInv
  OBVIOUS
<1>1. pathCall = NoCall /\ where \in [Dirs -> Places] /\ PlacesDiffer
  BY DEF PathsInit, PlacesDiffer
<1>2. PathsTypeOK
  BY <1>1, EmptyIsSeq DEF PathsTypeOK, NoCall, Kinds
<1>3. pathCall.pc = "done" /\ pathCall.acted = {}
  BY <1>1 DEF NoCall
<1> QED BY <1>1, <1>2, <1>3 DEF PathsInv, NamesCounted, PathsLead, ActedPart, AtFindsItsFile

\* A call begins.
LEMMA BeginKeeps ==
    ASSUME PathsInv, NEW kind \in Kinds, NEW want \in Seq(Dirs \X Nat), Begin(kind, want),
           Len(want) = IF kind \in {"rename", "link"} THEN 2 ELSE 1
    PROVE  PathsInv'
<1>1. PICK c : c = [NoCall EXCEPT !.pc = "resolve", !.kind = kind, !.want = want]
  OBVIOUS
<1>2. pathCall' = c /\ where' = where
  BY <1>1 DEF Begin
<1>3. /\ c \in [pc : {"done", "resolve", "stat", "act"}, kind : Kinds,
                want : Seq(Dirs \X Nat), paths : Seq(Nat \X Nat),
                moved : BOOLEAN, cut : BOOLEAN, acted : SUBSET (Dirs \X Nat)]
      /\ c.pc = "resolve" /\ c.kind = kind /\ c.want = want /\ c.paths = <<>> /\ Len(c.paths) = 0 /\ c.acted = {}
  BY <1>1, EmptyIsSeq DEF NoCall
<1>4. PathsTypeOK' /\ PlacesDiffer'
  BY <1>2, <1>3 DEF PathsInv, PathsTypeOK, PlacesDiffer
<1>5. NamesCounted'
  BY <1>2, <1>3 DEF NamesCounted
<1>6. PathsLead' /\ ActedPart' /\ AtFindsItsFile'
  BY <1>2, <1>3 DEF PathsLead, ActedPart, AtFindsItsFile
<1> QED BY <1>4, <1>5, <1>6 DEF PathsInv

\* A call ends: on what it acted is known when nothing was moved.
LEMMA EndsKeeps ==
    ASSUME PathsInv, UNCHANGED where, NEW on \in SUBSET (Dirs \X Nat), Ends(on),
           ~pathCall.moved /\ ~pathCall.cut =>
               on \in {{}, {pathCall.want[i] : i \in 1 .. Len(pathCall.want)}}
    PROVE  PathsInv'
<1>1. PICK c : c = [pathCall EXCEPT !.pc = "done", !.kind = "none", !.paths = <<>>, !.acted = on]
  OBVIOUS
<1>2. pathCall' = c /\ where' = where
  BY <1>1 DEF Ends
<1>3. /\ c \in [pc : {"done", "resolve", "stat", "act"}, kind : Kinds,
                want : Seq(Dirs \X Nat), paths : Seq(Nat \X Nat),
                moved : BOOLEAN, cut : BOOLEAN, acted : SUBSET (Dirs \X Nat)]
      /\ c.pc = "done" /\ c.want = pathCall.want /\ c.acted = on
      /\ c.moved = pathCall.moved /\ c.cut = pathCall.cut
  BY <1>1, EmptyIsSeq DEF PathsInv, PathsTypeOK, Kinds
<1>4. PathsTypeOK' /\ PlacesDiffer'
  BY <1>2, <1>3 DEF PathsInv, PathsTypeOK, PlacesDiffer
<1>5. NamesCounted' /\ PathsLead' /\ ActedPart'
  BY <1>2, <1>3 DEF NamesCounted, PathsLead, ActedPart
<1>6. AtFindsItsFile'
  BY <1>2, <1>3 DEF AtFindsItsFile
<1> QED BY <1>4, <1>5, <1>6 DEF PathsInv

\* The call itself.
LEMMA ActKeeps == ASSUME PathsInv, Act PROVE PathsInv'
<1> DEFINE c   == pathCall
           one == Found(c.paths[1])
           two == Found(c.paths[Resolved])
<1>1. /\ c.pc = "act" /\ where' = where /\ c.kind \in Kinds /\ c.acted \in SUBSET (Dirs \X Nat)
      /\ c.want \in Seq(Dirs \X Nat) /\ c.paths \in Seq(Nat \X Nat) /\ Len(c.paths) = Len(c.want)
      /\ Len(c.want) = IF c.kind \in {"rename", "link"} THEN 2 ELSE 1
  BY DEF Act, PathsInv, PathsTypeOK, NamesCounted
<1>2. c.paths[1] \in Nat \X Nat /\ c.paths[Resolved] \in Nat \X Nat
  BY <1>1 DEF Resolved
<1>3. one \in SUBSET (Dirs \X Nat) /\ two \in SUBSET (Dirs \X Nat)
  BY <1>2, PathFound DEF PathsInv
<1>4. ASSUME ~c.moved, ~c.cut, NEW i \in 1 .. Len(c.paths)
      PROVE  Found(c.paths[i]) = {c.want[i]}
  <2>1. c.want[i] \in Dirs \X Nat
    BY <1>1
  <2>2. PICK d \in Dirs, n \in Nat : c.want[i] = <<d, n>>
    BY <2>1
  <2>3. c.paths[i] = <<where[d], n>>
    BY <1>1, <1>4, <2>2, SMTT(20) DEF PathsInv, PathsLead
  <2> QED BY <2>2, <2>3, PathLeads DEF PathsInv
<1>5. ASSUME ~c.moved, ~c.cut
      PROVE  /\ one = {c.want[1]} /\ two = {c.want[Len(c.want)]}
             /\ c.acted \subseteq {c.want[1]} /\ (c.kind # "utime" => c.acted = {})
             /\ c.kind \notin {"rename", "link"} => {c.want[i] : i \in 1 .. Len(c.want)} = {c.want[1]}
             /\ c.kind \in {"rename", "link"} => {c.want[i] : i \in 1 .. Len(c.want)} = {c.want[1], c.want[2]}
  <2>1. 1 \in 1 .. Len(c.paths) /\ Resolved \in 1 .. Len(c.paths) /\ Resolved = Len(c.want)
    BY <1>1 DEF Resolved
  <2>2. one = {c.want[1]} /\ two = {c.want[Len(c.want)]}
    BY <1>4, <1>5, <2>1
  <2>3. c.acted \subseteq {c.want[1]} /\ (c.kind # "utime" => c.acted = {})
    BY <1>1, <1>5 DEF PathsInv, ActedPart
  <2>4. c.kind \notin {"rename", "link"} => 1 .. Len(c.want) = {1}
    BY <1>1
  <2>5. c.kind \in {"rename", "link"} => 1 .. Len(c.want) = {1, 2}
    BY <1>1
  <2>6. c.kind \notin {"rename", "link"} => {c.want[i] : i \in 1 .. Len(c.want)} = {c.want[1]}
    BY <2>4
  <2>7. c.kind \in {"rename", "link"} => {c.want[i] : i \in 1 .. Len(c.want)} = {c.want[1], c.want[2]}
    BY <2>5
  <2> QED BY <2>2, <2>3, <2>6, <2>7
<1>6. ASSUME Fails PROVE PathsInv'
  BY <1>1, <1>6, EndsKeeps DEF Fails
<1>7. ASSUME NEW on \in SUBSET (Dirs \X Nat), Ends(on), on \subseteq one, c.kind \notin {"rename", "link"}
      PROVE  PathsInv'
  <2>1. ~c.moved /\ ~c.cut => on \in {{}, {c.want[i] : i \in 1 .. Len(c.want)}}
    BY <1>5, <1>7
  <2> QED BY <1>1, <1>7, <2>1, EndsKeeps
<1>8. CASE c.kind \in {"use", "utime"} /\ IF one \cap files # {} THEN Ends(one \cup c.acted) ELSE Fails
  <2>1. CASE Ends(one \cup c.acted) /\ one \cap files # {}
    <3>1. one \cup c.acted \in SUBSET (Dirs \X Nat)
      BY <1>1, <1>3
    <3>2. ~c.moved /\ ~c.cut => one \cup c.acted = {c.want[1]}
      BY <1>5
    <3>3. ~c.moved /\ ~c.cut => one \cup c.acted \in {{}, {c.want[i] : i \in 1 .. Len(c.want)}}
      BY <1>5, <1>8, <3>2
    <3> QED BY <1>1, <2>1, <3>1, <3>3, EndsKeeps
  <2> QED BY <1>6, <1>8, <2>1
<1>9. CASE c.kind = "create" /\ IF one \cap files = {} THEN Ends(one) ELSE Fails
  BY <1>3, <1>6, <1>7, <1>9
<1>10. CASE c.kind = "remove" /\ Ends(one \cap files)
  <2>1. one \cap files \in SUBSET (Dirs \X Nat) /\ one \cap files \subseteq one
    BY <1>3
  <2> QED BY <1>7, <1>10, <2>1
<1>11. CASE c.kind \in {"rename", "link"} /\ Ends(one \cup two)
  <2>1. one \cup two \in SUBSET (Dirs \X Nat)
    BY <1>3
  <2>2. ~c.moved /\ ~c.cut => one \cup two \in {{}, {c.want[i] : i \in 1 .. Len(c.want)}}
    BY <1>1, <1>5, <1>11
  <2> QED BY <1>1, <1>11, <2>1, <2>2, EndsKeeps
<1>12. CASE c.kind = "chdir" /\ Ends(one)
  BY <1>3, <1>7, <1>12
<1> QED BY <1>6, <1>8, <1>9, <1>10, <1>11, <1>12 DEF Act

\* One more path.
LEMMA ResolveKeeps == ASSUME PathsInv, ResolveNext PROVE PathsInv'
<1> DEFINE k    == Resolved + 1
           want == pathCall.want[k]
<1>1. PICK path : path = at_resolve(want[1], want[2])
  OBVIOUS
<1>2. PICK pc \in {"resolve", "stat", "act"} :
         pc = IF k < Len(pathCall.want) THEN "resolve" ELSE IF pathCall.kind = "utime" THEN "stat" ELSE "act"
  OBVIOUS
<1>3. PICK cut \in BOOLEAN : cut = (pathCall.cut \/ path[2] # want[2])
  OBVIOUS
<1>4. PICK moved \in BOOLEAN : moved = (pathCall.moved /\ Resolved > 0)
  OBVIOUS
<1>5. PICK paths : paths = Append(pathCall.paths, path)
  OBVIOUS
<1>6. /\ pathCall' = [pathCall EXCEPT !.paths = paths, !.cut = cut, !.moved = moved, !.pc = pc]
      /\ pathCall.pc = "resolve" /\ where' = where
  BY <1>1, <1>2, <1>3, <1>4, <1>5 DEF ResolveNext
<1>7. /\ pathCall.paths \in Seq(Nat \X Nat) /\ pathCall.want \in Seq(Dirs \X Nat)
      /\ pathCall.kind \in Kinds /\ pathCall.acted = {}
      /\ Len(pathCall.want) = IF pathCall.kind \in {"rename", "link"} THEN 2 ELSE 1
      /\ k \in 1 .. Len(pathCall.want)
  BY <1>6 DEF PathsInv, PathsTypeOK, NamesCounted, ActedPart, Resolved
<1>8. PICK d \in Dirs, n \in Nat : want = <<d, n>>
  <2>1. want \in Dirs \X Nat
    BY <1>7
  <2> QED BY <2>1
<1>9. /\ path \in Nat \X Nat /\ path[1] = where[d]
      /\ ~cut => path = <<where[d], n>> /\ ~pathCall.cut
  <2>1. where[d] \in Nat /\ where[d] + 1 < Room /\ Room \in Nat
    BY PathsAssumption DEF PathsInv, PathsTypeOK
  <2>2. PICK m : m = IF where[d] + 1 + n > Room THEN Room - where[d] - 1 ELSE n
    OBVIOUS
  <2>3. m \in Nat
    BY <2>1, <2>2
  <2>4. path = <<where[d], m>>
    BY <1>1, <1>8, <2>2 DEF at_resolve, FdPath
  <2>5. path \in Nat \X Nat /\ path[1] = where[d] /\ path[2] = m
    BY <2>1, <2>3, <2>4
  <2>6. want[2] = n
    BY <1>8
  <2>7. ~cut => ~pathCall.cut /\ path[2] = want[2]
    BY <1>3, Zenon
  <2> QED BY <2>4, <2>5, <2>6, <2>7
<1>10. /\ paths \in Seq(Nat \X Nat) /\ Len(paths) = k /\ paths[k] = path
       /\ \A i \in 1 .. Len(pathCall.paths) : paths[i] = pathCall.paths[i]
       /\ Resolved = k - 1 /\ Len(pathCall.paths) = k - 1 /\ k \in Nat
  BY <1>5, <1>7, <1>9 DEF Resolved
<1> HIDE DEF k, want
<1>11. PICK c : c = pathCall'
  OBVIOUS
<1>12. /\ c \in [pc : {"done", "resolve", "stat", "act"}, kind : Kinds,
                 want : Seq(Dirs \X Nat), paths : Seq(Nat \X Nat),
                 moved : BOOLEAN, cut : BOOLEAN, acted : SUBSET (Dirs \X Nat)]
       /\ c.pc = pc /\ c.kind = pathCall.kind /\ c.want = pathCall.want /\ c.paths = paths
       /\ c.moved = moved /\ c.cut = cut /\ c.acted = {}
  BY <1>6, <1>7, <1>10, <1>11 DEF PathsInv, PathsTypeOK
<1>13. PathsTypeOK' /\ PlacesDiffer'
  BY <1>6, <1>11, <1>12 DEF PathsInv, PathsTypeOK, PlacesDiffer
<1>14. NamesCounted'
  BY <1>2, <1>7, <1>10, <1>11, <1>12 DEF NamesCounted
<1>15. PathsLead'
  <2> SUFFICES ASSUME ~moved, ~cut, NEW i \in 1 .. Len(paths)
               PROVE  paths[i] = <<where[pathCall.want[i][1]], pathCall.want[i][2]>>
    BY <1>6, <1>11, <1>12 DEF PathsLead
  <2>1. CASE i = k
    BY <1>8, <1>9, <1>10, <2>1 DEF want
  <2>2. CASE i # k
    <3>1. i \in 1 .. Len(pathCall.paths) /\ Resolved > 0
      BY <1>10, <2>2, SMTT(20)
    <3>2. ~pathCall.moved /\ ~pathCall.cut
      BY <1>4, <1>9, <3>1
    <3> QED BY <1>6, <1>10, <3>1, <3>2 DEF PathsInv, PathsLead
  <2> QED BY <2>1, <2>2
<1>16. ActedPart' /\ AtFindsItsFile'
  BY <1>11, <1>12 DEF ActedPart, AtFindsItsFile
<1> QED BY <1>13, <1>14, <1>15, <1>16 DEF PathsInv

LEMMA PathsNextInv == PathsInv /\ [PathsNext]_pathVars => PathsInv'
<1> SUFFICES ASSUME PathsInv, [PathsNext]_pathVars PROVE PathsInv'
  OBVIOUS
<1>0. ASSUME UNCHANGED <<where, pathCall>> PROVE PathsInv'
  BY <1>0, SMTT(20) DEF PathsInv, PathsTypeOK, PlacesDiffer, NamesCounted, PathsLead, ActedPart, AtFindsItsFile
<1>1. ASSUME NEW d \in Dirs, NEW place \in Places, DirMoves(d, place) PROVE PathsInv'
  <2>1. PICK moved \in BOOLEAN : moved = (pathCall.moved \/ pathCall.pc # "done")
    OBVIOUS
  <2>2. PICK c : c = [pathCall EXCEPT !.moved = moved]
    OBVIOUS
  <2>3. pathCall' = c /\ where' = [where EXCEPT ![d] = place]
    BY <1>1, <2>1, <2>2 DEF DirMoves
  <2>4. /\ c \in [pc : {"done", "resolve", "stat", "act"}, kind : Kinds,
                  want : Seq(Dirs \X Nat), paths : Seq(Nat \X Nat),
                  moved : BOOLEAN, cut : BOOLEAN, acted : SUBSET (Dirs \X Nat)]
        /\ c.pc = pathCall.pc /\ c.kind = pathCall.kind /\ c.want = pathCall.want /\ c.paths = pathCall.paths
        /\ c.moved = moved /\ c.cut = pathCall.cut /\ c.acted = pathCall.acted
    BY <2>2 DEF PathsInv, PathsTypeOK
  <2>5. PathsTypeOK'
    BY <2>3, <2>4 DEF PathsInv, PathsTypeOK
  <2>6. PlacesDiffer'
    BY <1>1, <2>3 DEF DirMoves, PathsInv, PathsTypeOK, PlacesDiffer
  <2>7. NamesCounted'
    BY <2>3, <2>4 DEF PathsInv, NamesCounted
  <2>8. ~moved => pathCall.pc = "done" /\ ~pathCall.moved
    BY <2>1
  <2>9. PathsLead' /\ ActedPart'
    BY <2>3, <2>4, <2>8 DEF PathsInv, PathsLead, ActedPart
  <2>10. AtFindsItsFile'
    BY <2>3, <2>4, <2>8 DEF PathsInv, AtFindsItsFile
  <2> QED BY <2>5, <2>6, <2>7, <2>9, <2>10 DEF PathsInv
<1>2. ASSUME NEW d \in Dirs, NEW n \in Nat, NEW kind \in Kinds \ {"rename", "link"}, Begin(kind, << <<d, n>> >>)
      PROVE PathsInv'
  <2> DEFINE want == << <<d, n>> >>
  <2>1. want \in Seq(Dirs \X Nat) /\ Len(want) = 1
    OBVIOUS
  <2>2. Len(want) = IF kind \in {"rename", "link"} THEN 2 ELSE 1
    BY <1>2, <2>1
  <2> QED BY <1>2, <2>1, <2>2, BeginKeeps
<1>3. ASSUME NEW d \in Dirs, NEW n \in Nat, NEW e \in Dirs, NEW m \in Nat, NEW kind \in {"rename", "link"},
             Begin(kind, << <<d, n>>, <<e, m>> >>)
      PROVE PathsInv'
  <2> DEFINE want == << <<d, n>>, <<e, m>> >>
  <2>1. want \in Seq(Dirs \X Nat) /\ Len(want) = 2 /\ kind \in Kinds
    BY DEF Kinds
  <2>2. Len(want) = IF kind \in {"rename", "link"} THEN 2 ELSE 1
    BY <1>3, <2>1
  <2> QED BY <1>3, <2>1, <2>2, BeginKeeps
<1>4. ASSUME ResolveFails PROVE PathsInv'
  <2>1. {} \in SUBSET (Dirs \X Nat)
    OBVIOUS
  <2>2. Ends({}) /\ UNCHANGED where
    BY <1>4 DEF ResolveFails, Fails
  <2> QED BY <2>1, <2>2, EndsKeeps
<1>5. ASSUME StatForOmit PROVE PathsInv'
  <2> DEFINE on == Found(pathCall.paths[1]) \cap files
  <2>1. /\ pathCall.pc = "stat" /\ where' = where /\ pathCall.kind = "utime"
        /\ pathCall.want \in Seq(Dirs \X Nat) /\ pathCall.paths \in Seq(Nat \X Nat)
        /\ Len(pathCall.paths) = 1 /\ Len(pathCall.want) = 1
    BY <1>5 DEF StatForOmit, PathsInv, PathsTypeOK, NamesCounted
  <2>2. pathCall.paths[1] \in Nat \X Nat /\ pathCall.want[1] \in Dirs \X Nat
    BY <2>1
  <2>3. on \in SUBSET (Dirs \X Nat)
    BY <2>2, PathFound DEF PathsInv
  <2>4. ASSUME ~pathCall.moved, ~pathCall.cut PROVE on \subseteq {pathCall.want[1]}
    <3>1. PICK d \in Dirs, n \in Nat : pathCall.want[1] = <<d, n>>
      BY <2>2
    <3>2. pathCall.paths[1] = <<where[d], n>>
      BY <2>1, <2>4, <3>1 DEF PathsInv, PathsLead
    <3> QED BY <3>1, <3>2, PathLeads DEF PathsInv
  <2>5. PICK c : c = [pathCall EXCEPT !.pc = "act", !.acted = on]
    OBVIOUS
  <2>6. pathCall' = c
    BY <1>5, <2>5 DEF StatForOmit
  <2> HIDE DEF on
  <2>7. /\ c \in [pc : {"done", "resolve", "stat", "act"}, kind : Kinds,
                  want : Seq(Dirs \X Nat), paths : Seq(Nat \X Nat),
                  moved : BOOLEAN, cut : BOOLEAN, acted : SUBSET (Dirs \X Nat)]
        /\ c.pc = "act" /\ c.kind = "utime" /\ c.want = pathCall.want /\ c.paths = pathCall.paths
        /\ c.moved = pathCall.moved /\ c.cut = pathCall.cut /\ c.acted = on
    BY <2>1, <2>3, <2>5 DEF PathsInv, PathsTypeOK
  <2>8. PathsTypeOK' /\ PlacesDiffer'
    BY <2>1, <2>6, <2>7 DEF PathsInv, PathsTypeOK, PlacesDiffer
  <2>9. NamesCounted'
    BY <2>1, <2>6, <2>7 DEF NamesCounted
  <2>10. PathsLead'
    BY <2>1, <2>6, <2>7 DEF PathsInv, PathsLead
  <2>11. ActedPart' /\ AtFindsItsFile'
    BY <2>4, <2>6, <2>7 DEF ActedPart, AtFindsItsFile
  <2> QED BY <2>8, <2>9, <2>10, <2>11 DEF PathsInv
<1>6. ASSUME NEW d \in Dirs, NEW n \in Names,
             \/ Openat(d, n) \/ Mkdirat(d, n) \/ Mknodat(d, n) \/ Mkfifoat(d, n) \/ Symlinkat(d, n)
             \/ Unlinkat(d, n) \/ Fchmodat(d, n) \/ Fchownat(d, n) \/ Readlinkat(d, n)
             \/ Faccessat(d, n) \/ Fstatat(d, n) \/ Utimensat(d, n)
      PROVE PathsInv'
  <2>1. \E kind \in {"use", "create", "remove", "utime"} : Begin(kind, << <<d, n>> >>)
    BY <1>6 DEF Openat, Mkdirat, Mknodat, Mkfifoat, Symlinkat, Unlinkat, Fchmodat, Fchownat, Readlinkat,
                Faccessat, Fstatat, Utimensat
  <2>2. PICK kind \in Kinds \ {"rename", "link"} : Begin(kind, << <<d, n>> >>)
    BY <2>1 DEF Kinds
  <2>3. n \in Nat
    BY PathsAssumption
  <2> QED BY <1>2, <2>2, <2>3
<1>7. ASSUME NEW d \in Dirs, NEW n \in Names, NEW e \in Dirs, NEW m \in Names,
             Renameat(d, n, e, m) \/ Linkat(d, n, e, m)
      PROVE PathsInv'
  <2>1. n \in Nat /\ m \in Nat
    BY PathsAssumption
  <2>2. PICK kind \in {"rename", "link"} : Begin(kind, << <<d, n>>, <<e, m>> >>)
    BY <1>7 DEF Renameat, Linkat
  <2> QED BY <1>3, <2>1, <2>2
<1>8. ASSUME NEW d \in Dirs, Fchdir(d) PROVE PathsInv'
  <2>1. "chdir" \in Kinds \ {"rename", "link"} /\ NoName \in Nat
    BY DEF Kinds, NoName
  <2> QED BY <1>2, <1>8, <2>1 DEF Fchdir
<1>9. ASSUME NEW d \in Dirs, NEW n \in Names, OthersCreate(d, n) \/ OthersRemove(d, n) PROVE PathsInv'
  BY <1>0, <1>9 DEF OthersCreate, OthersRemove
<1>10. CASE UNCHANGED pathVars
  BY <1>0, <1>10 DEF pathVars
<1>11. CASE ResolveNext \/ ResolveFails \/ StatForOmit \/ Act
  BY <1>4, <1>5, <1>11, ResolveKeeps, ActKeeps
<1>12. ASSUME NEW d \in Dirs,
              \/ Fchdir(d)
              \/ \E place \in Places : DirMoves(d, place)
              \/ \E n \in Names :
                    \/ OthersCreate(d, n) \/ OthersRemove(d, n)
                    \/ Openat(d, n) \/ Mkdirat(d, n) \/ Mknodat(d, n) \/ Mkfifoat(d, n) \/ Symlinkat(d, n)
                    \/ Unlinkat(d, n) \/ Fchmodat(d, n) \/ Fchownat(d, n) \/ Readlinkat(d, n)
                    \/ Faccessat(d, n) \/ Fstatat(d, n) \/ Utimensat(d, n)
                    \/ \E e \in Dirs, m \in Names : Renameat(d, n, e, m) \/ Linkat(d, n, e, m)
       PROVE PathsInv'
  BY <1>1, <1>6, <1>7, <1>8, <1>9, <1>12
<1> QED BY <1>10, <1>11, <1>12 DEF PathsNext

\* sysdeps.cpp:213, for any number of directories, places and names, and any
\* room for a path: a call on a directory fd acts in that directory.
THEOREM AtCallsFindTheirFile == PathsSpec => []AtFindsItsFile
<1>1. PathsSpec => []PathsInv
  BY PathsInitInv, PathsNextInv, PTL DEF PathsSpec
<1>2. PathsInv => AtFindsItsFile
  BY DEF PathsInv
<1> QED BY <1>1, <1>2, PTL

(***************************************************************************)
(* Fds keep their handles                                                  *)
(***************************************************************************)

\* The handles a call has and has not put into the table yet, the fd of the one
\* it has put there, and the fd it is closing.
InHand(c)  == {h \in Handles :
                  \/ c.op = "one" /\ h = c.a
                  \/ c.op \in Pairs /\ (~c.onB \/ (c.op = "pipe" /\ c.r = None)) /\ h = c.a
                  \/ c.op \in Pairs /\ h = c.b}
Entered(c) == {fd \in Fds : c.op \in Pairs /\ c.onB /\ fd = c.r}
Closing(c) == {fd \in Fds : c.op = "close" /\ fd = c.fd}
Taken(c)   == InHand(c) \cup {fdTable[fd] : fd \in Entered(c)}

\* What the other threads have taken, and the entries they are using.
OthersTake(t) == UNION {Taken(call[u]) : u \in Threads \ {t}}
OthersUse(t)  == UNION {Entered(call[u]) \cup Closing(call[u]) : u \in Threads \ {t}}

\* The entries of standard output and error are theirs for ever; F_DUPFD may
\* take standard input's.
StandardStay ==
    \A fd \in Fds :
        /\ fd \in {1, 2} => fdTable[fd] = fd /\ given[fd] = fd
        /\ fd = 0 /\ fdTable[fd] = 0 => given[fd] = 0
        /\ fd \notin {1, 2} => fdTable[fd] \in Handles \cup {0}
        /\ fd >= 3 => given[fd] \in Handles \cup {None}

GivenHeld ==
    \A fd \in Fds : given[fd] # None =>
        /\ fdTable[fd] = given[fd]
        /\ given[fd] \in live \cup {0, 1, 2}
        /\ \A other \in Fds \ {fd} : given[fd] # given[other]

\* What a call has taken nobody else has.
TakenApart(c) ==
    /\ \A h \in Taken(c) : h \in live \ cloexec /\ \A fd \in Fds : given[fd] # h
    /\ \A fd \in Entered(c) : fd >= 3 /\ fdTable[fd] = c.a /\ given[fd] = None
    /\ \A fd \in Closing(c) : fd >= 3 /\ fdTable[fd] # 0 /\ given[fd] = None
    /\ c.op \in Pairs => c.a # c.b /\ (c.op = "socketpair" /\ c.onB => c.r # None)
    /\ c.op \in Pairs /\ c.slot # None => c.slot >= 3

\* The other threads' calls and this one's, t's, have nothing in common.
Apart(t) ==
    /\ \A h \in OthersTake(t) : h \in live \ cloexec /\ h \notin Taken(call[t]) /\ \A fd \in Fds : given[fd] # h
    /\ \A fd \in OthersUse(t) : /\ fd \in Fds /\ fd >= 3 /\ fdTable[fd] # 0 /\ given[fd] = None
                                 /\ fd \notin Entered(call[t]) \cup Closing(call[t])

\* Who has an open handle, and why an entry is in use.
HandlesKnown(t) == \A h \in live : (\E fd \in Fds : given[fd] = h) \/ h \in lost \cup Taken(call[t]) \cup OthersTake(t)
EntriesKnown(t) == \A fd \in Fds : fdTable[fd] # 0 /\ given[fd] = None =>
                       fd \in stale \cup Entered(call[t]) \cup Closing(call[t]) \cup OthersUse(t)

\* What an exec left is no fd of the program.
StaleApart(t) ==
    \A fd \in stale : /\ fdTable[fd] # 0 /\ given[fd] = None
                      /\ fd \notin Entered(call[t]) \cup Closing(call[t]) \cup OthersUse(t)

StreamsOfFds == \A fd \in streams : given[fd] # None

\* The invariant, as thread t sees it.
FdInv(t) ==
    /\ FdTypeOK
    /\ ~clobbered => /\ StandardStay /\ GivenHeld
                     /\ TakenApart(call[t]) /\ Apart(t) /\ HandlesKnown(t) /\ EntriesKnown(t)
                     /\ StaleApart(t) /\ StreamsOfFds

\* An entry that a call has found stays free until the call stores into it.
FoundFree == \A t \in Threads : \A fd \in FoundBy(call[t]) : fdTable[fd] = 0

FdsInv == (\A t \in Threads : FdInv(t)) /\ (~clobbered => FoundFree)

\* A step of t that leaves alone what the other threads have taken.
Leaves(t) ==
    /\ \A u \in Threads \ {t} : call'[u] = call[u]
    /\ \A fd \in OthersUse(t) : fdTable'[fd] = fdTable[fd] /\ given'[fd] = None
    /\ \A h \in OthersTake(t) : h \in live' \ cloexec' /\ \A fd \in Fds : given'[fd] # h

-----------------------------------------------------------------------------
\* A set of numbers that is not empty has a least one.
LEMMA LeastExists ==
    ASSUME NEW S, S \subseteq Nat, S # {}
    PROVE  \E i \in S : \A j \in S : i <= j
<1> DEFINE R == {ss \in Nat \X Nat : ss[1] < ss[2]}
<1>1. IsWellFoundedOn(R, Nat)
  BY NatLessThanWellFounded DEF OpToRel
<1> HIDE DEF R
<1>2. \E i \in S : \A j \in S : ~ (<<j, i>> \in R)
  BY <1>1, WFMin, Zenon
<1>3. PICK i \in S : \A j \in S : ~ (<<j, i>> \in R)
  BY <1>2
<1>4. ASSUME NEW j \in S PROVE i <= j
  <2>1. i \in Nat /\ j \in Nat
    OBVIOUS
  <2>2. j < i => <<j, i>> \in R
    BY <2>1 DEF R
  <2> QED BY <1>3, <2>1, <2>2
<1> QED BY <1>4

\* register_fd_min() finds an entry that is free.
LEMMA LowestIsFree ==
    ASSUME NEW min \in Nat, Free(min) # {}
    PROVE  Lowest(Free(min)) \in Fds /\ Lowest(Free(min)) >= min /\ fdTable[Lowest(Free(min))] = 0
<1>1. Free(min) \subseteq Nat
  BY FdTableAssumption DEF Free
<1>2. \E i \in Free(min) : \A j \in Free(min) : i <= j
  BY <1>1, LeastExists
<1>3. Lowest(Free(min)) \in Free(min)
  BY <1>2 DEF Lowest
<1> QED BY <1>3, FdTableAssumption DEF Free, Fds

\* What the fields of a call are.
LEMMA CallFields ==
    ASSUME NEW c \in Calls, FdTableAssumption
    PROVE  /\ c.op = "one" => /\ c.min \in Minimums \cup {3} /\ c.a \in Handles /\ c.slot \in Fds \cup {None}
           /\ c.op \in Pairs => /\ c.a \in Handles /\ c.b \in Handles /\ c.onB \in BOOLEAN
                                /\ c.r \in Fds \cup {None} /\ c.slot \in Fds \cup {None}
           /\ c.op = "close" => c.fd \in Fds
           /\ c.op \in Pairs \cup {"one", "close", "idle"}
BY DEF Calls, Idle, Pairs

\* Fds and handles are numbers; none is None, and 0 is free.
LEMMA FdNumbers ==
    /\ Fds \subseteq Nat /\ None \notin Fds /\ None \notin Handles /\ None \notin {0, 1, 2}
    /\ \A h \in Handles : h \in Nat /\ h >= 3
    /\ \A fd \in Fds : fd \in Nat /\ fd < MaxFd
BY FdTableAssumption DEF Fds, None

\* A thread that is in no call has taken nothing.
LEMMA IdleTakesNothing ==
    ASSUME NEW c, c.op = "idle"
    PROVE  InHand(c) = {} /\ Entered(c) = {} /\ Closing(c) = {} /\ Taken(c) = {}
BY DEF InHand, Entered, Closing, Taken, Pairs

LEMMA AllIdle ==
    ASSUME NEW t, \A u \in Threads : call[u] = Idle
    PROVE  OthersTake(t) = {} /\ OthersUse(t) = {}
<1>1. Idle.op = "idle"
  BY DEF Idle
<1>2. Taken(Idle) = {} /\ Entered(Idle) = {} /\ Closing(Idle) = {}
  BY <1>1, IdleTakesNothing
<1> QED BY <1>2 DEF OthersTake, OthersUse

\* What a step leaves alone stays what the other threads have.
LEMMA OthersSame ==
    ASSUME NEW t, Leaves(t)
    PROVE  /\ OthersTake(t)' = OthersTake(t) /\ OthersUse(t)' = OthersUse(t)
           /\ \A u \in Threads \ {t} :
                 /\ call'[u] = call[u] /\ Taken(call[u])' = Taken(call[u])
                 /\ Entered(call[u])' = Entered(call[u]) /\ Closing(call[u])' = Closing(call[u])
<1>1. ASSUME NEW u \in Threads \ {t}
      PROVE  /\ call'[u] = call[u] /\ Taken(call[u])' = Taken(call[u])
             /\ Entered(call[u])' = Entered(call[u]) /\ Closing(call[u])' = Closing(call[u])
  <2>1. call'[u] = call[u]
    BY DEF Leaves
  <2>2. /\ InHand(call[u])' = InHand(call[u])
        /\ Entered(call[u])' = Entered(call[u]) /\ Closing(call[u])' = Closing(call[u])
    BY <2>1 DEF InHand, Entered, Closing
  <2>3. \A fd \in Entered(call[u]) : fdTable'[fd] = fdTable[fd]
    BY DEF Leaves, OthersUse
  <2> QED BY <2>1, <2>2, <2>3 DEF Taken
<1>2. OthersTake(t)' = OthersTake(t)
  BY <1>1 DEF OthersTake
<1>3. OthersUse(t)' = OthersUse(t)
  BY <1>1 DEF OthersUse
<1> QED BY <1>1, <1>2, <1>3

LEMMA OthersKeep ==
    ASSUME NEW t \in Threads, FdsInv, ~clobbered, Leaves(t), FdInv(t)'
    PROVE  \A u \in Threads : FdInv(u)'
<1> SUFFICES ASSUME NEW u \in Threads \ {t}, ~clobbered' PROVE FdInv(u)'
  BY DEF FdInv
<1>1. /\ OthersTake(t)' = OthersTake(t) /\ OthersUse(t)' = OthersUse(t)
      /\ \A v \in Threads \ {t} :
            /\ call'[v] = call[v] /\ Taken(call[v])' = Taken(call[v])
            /\ Entered(call[v])' = Entered(call[v]) /\ Closing(call[v])' = Closing(call[v])
  BY OthersSame
<1>2. /\ FdTypeOK' /\ StandardStay' /\ GivenHeld' /\ StreamsOfFds'
      /\ TakenApart(call[t])' /\ Apart(t)' /\ HandlesKnown(t)' /\ EntriesKnown(t)' /\ StaleApart(t)'
  BY DEF FdInv
<1>3. TakenApart(call[u]) /\ Apart(u)
  BY DEF FdsInv, FdInv
<1>4. TakenApart(call[u])'
  <2>1. Taken(call[u]) \subseteq OthersTake(t) /\ Entered(call[u]) \cup Closing(call[u]) \subseteq OthersUse(t)
    BY DEF OthersTake, OthersUse
  <2>2. call'[u] = call[u]
    BY <1>1
  <2>3. \A h \in Taken(call[u])' : h \in live' \ cloexec' /\ \A fd \in Fds : given'[fd] # h
    BY <1>1, <2>1 DEF Leaves
  <2>4. \A fd \in Entered(call[u])' : fd >= 3 /\ fdTable'[fd] = call'[u].a /\ given'[fd] = None
    BY <1>1, <1>3, <2>1, <2>2 DEF Leaves, TakenApart
  <2>5. \A fd \in Closing(call[u])' : fd >= 3 /\ fdTable'[fd] # 0 /\ given'[fd] = None
    BY <1>1, <1>3, <2>1 DEF Leaves, TakenApart
  <2> QED BY <1>3, <2>2, <2>3, <2>4, <2>5 DEF TakenApart
<1>5. /\ Taken(call[u])' \cup OthersTake(u)' = Taken(call[t])' \cup OthersTake(t)'
      /\ Entered(call[u])' \cup Closing(call[u])' \cup OthersUse(u)'
            = Entered(call[t])' \cup Closing(call[t])' \cup OthersUse(t)'
  BY DEF OthersTake, OthersUse
<1>6. Apart(u)'
  <2>1. ASSUME NEW h \in OthersTake(u)'
        PROVE  h \in live' \ cloexec' /\ h \notin Taken(call[u])' /\ \A fd \in Fds : given'[fd] # h
    <3>1. h \in live' \ cloexec' /\ \A fd \in Fds : given'[fd] # h
      BY <1>2, <1>5, <2>1 DEF TakenApart, Apart
    <3>2. PICK v \in Threads \ {u} : h \in Taken(call[v])'
      BY <2>1 DEF OthersTake
    <3>3. CASE v = t
      <4>1. Taken(call[u])' \subseteq OthersTake(t)'
        BY DEF OthersTake
      <4> QED BY <1>2, <3>1, <3>2, <3>3, <4>1 DEF Apart
    <3>4. CASE v # t
      <4>1. h \in OthersTake(u)
        BY <1>1, <3>2, <3>4 DEF OthersTake
      <4> QED BY <1>1, <1>3, <3>1, <4>1 DEF Apart
    <3> QED BY <3>3, <3>4
  <2>2. ASSUME NEW fd \in OthersUse(u)'
        PROVE  /\ fd \in Fds /\ fd >= 3 /\ fdTable'[fd] # 0 /\ given'[fd] = None
               /\ fd \notin Entered(call[u])' \cup Closing(call[u])'
    <3>1. PICK v \in Threads \ {u} : fd \in Entered(call[v])' \cup Closing(call[v])'
      BY <2>2 DEF OthersUse
    <3>2. fd \in Fds
      BY <3>1 DEF Entered, Closing
    <3>3. CASE v = t
      <4>1. Entered(call[u])' \cup Closing(call[u])' \subseteq OthersUse(t)'
        BY DEF OthersUse
      <4>2. fdTable'[fd] # 0
        <5>1. CASE fd \in Closing(call[t])'
          BY <1>2, <5>1 DEF TakenApart
        <5>2. CASE fd \in Entered(call[t])'
          <6>1. fdTable'[fd] \in Taken(call[t])'
            BY <5>2 DEF Taken
          <6>2. fdTable'[fd] \in Handles
            BY <1>2, <6>1 DEF TakenApart, FdTypeOK
          <6> QED BY <6>2, FdNumbers
        <5> QED BY <3>1, <3>3, <5>1, <5>2
      <4> QED BY <1>2, <3>1, <3>2, <3>3, <4>1, <4>2 DEF Apart, TakenApart
    <3>4. CASE v # t
      <4>1. fd \in OthersUse(u) /\ fd \in OthersUse(t)'
        BY <1>1, <3>1, <3>4 DEF OthersUse
      <4>2. fd \notin Entered(call[u])' \cup Closing(call[u])'
        BY <1>1, <1>3, <4>1 DEF Apart
      <4> QED BY <1>2, <3>2, <4>1, <4>2 DEF Apart
    <3> QED BY <3>3, <3>4
  <2> QED BY <2>1, <2>2 DEF Apart
<1>7. HandlesKnown(u)' /\ EntriesKnown(u)' /\ StaleApart(u)'
  <2>1. HandlesKnown(u)'
    BY <1>2, <1>5 DEF HandlesKnown
  <2>2. EntriesKnown(u)'
    BY <1>2, <1>5 DEF EntriesKnown
  <2>3. StaleApart(u)'
    BY <1>2, <1>5 DEF StaleApart
  <2> QED BY <2>1, <2>2, <2>3
<1> QED BY <1>2, <1>4, <1>6, <1>7 DEF FdInv

\* What the other threads have stays apart from what t takes in such a step.
LEMMA ApartStays ==
    ASSUME NEW t \in Threads, FdInv(t), ~clobbered, Leaves(t),
           \A h \in Taken(call[t])' : h \notin OthersTake(t),
           \A fd \in Entered(call[t])' \cup Closing(call[t])' : fd \notin OthersUse(t)
    PROVE  Apart(t)' /\ OthersTake(t)' = OthersTake(t) /\ OthersUse(t)' = OthersUse(t)
<1>1. OthersTake(t)' = OthersTake(t) /\ OthersUse(t)' = OthersUse(t)
  BY OthersSame
<1>2. \A h \in OthersTake(t) : h \in live' \ cloexec' /\ \A fd \in Fds : given'[fd] # h
  BY DEF Leaves
<1>3. \A fd \in OthersUse(t) : fd \in Fds /\ fd >= 3 /\ fdTable'[fd] # 0 /\ given'[fd] = None
  BY DEF FdInv, Apart, Leaves
<1>4. Apart(t)'
  BY <1>1, <1>2, <1>3 DEF Apart
<1> QED BY <1>1, <1>4

LEMMA FdInitInv == ASSUME NEW t \in Threads PROVE FdInit => FdInv(t)
<1> SUFFICES ASSUME FdInit PROVE FdInv(t)
  OBVIOUS
<1> USE FdNumbers
<1>1. call[t] = Idle /\ Idle.op = "idle"
  BY DEF FdInit, Idle
<1>2. InHand(call[t]) = {} /\ Entered(call[t]) = {} /\ Closing(call[t]) = {} /\ Taken(call[t]) = {}
  BY <1>1 DEF InHand, Entered, Closing, Taken, Pairs
<1>3. FdTypeOK
  <2>1. fdTable \in [Fds -> Handles \cup {0, 1, 2}]
    BY DEF FdInit
  <2>2. given \in [Fds -> Handles \cup {0, 1, 2, None}]
    BY DEF FdInit
  <2>3. call \in [Threads -> Calls]
    BY DEF FdInit, Calls
  <2> QED BY <2>1, <2>2, <2>3 DEF FdInit, FdTypeOK
<1>o. OthersTake(t) = {} /\ OthersUse(t) = {}
  BY AllIdle DEF FdInit
<1>4. StandardStay /\ GivenHeld
  <2>1. ASSUME NEW fd \in Fds
        PROVE  /\ fd \in Nat
               /\ fdTable[fd] = IF fd < 3 THEN fd ELSE 0
               /\ given[fd] = IF fd < 3 THEN fd ELSE None
    BY DEF FdInit
  <2>2. StandardStay
    BY <2>1 DEF StandardStay
  <2>3. ASSUME NEW fd \in Fds, given[fd] # None
        PROVE  fd < 3 /\ fdTable[fd] = fd /\ given[fd] = fd /\ fd \in {0, 1, 2}
    <3>1. fd < 3
      BY <2>1, <2>3
    <3> QED BY <2>1, <3>1
  <2>4. GivenHeld
    BY <2>3 DEF GivenHeld
  <2> QED BY <2>2, <2>4
<1>5. TakenApart(call[t]) /\ Apart(t) /\ HandlesKnown(t) /\ StaleApart(t) /\ StreamsOfFds
  BY <1>1, <1>2, <1>o DEF FdInit, TakenApart, Apart, HandlesKnown, StaleApart, StreamsOfFds, Pairs
<1>6. EntriesKnown(t)
  BY DEF FdInit, EntriesKnown
<1> QED BY <1>3, <1>4, <1>5, <1>6 DEF FdInv

-----------------------------------------------------------------------------
(* The end of a call.                                                      *)

\* A call ends with every handle it took in an fd of the program's, closed or
\* left, and with no entry of its own in the table.
LEMMA EndKeeps ==
    ASSUME NEW t \in Threads, FdInv(t), ~clobbered,
           NEW table \in [Fds -> Handles \cup {0, 1, 2}],
           NEW new \in SUBSET Fds, NEW cleared \in SUBSET Fds,
           NEW closed \in SUBSET Taken(call[t]), NEW left \in SUBSET Handles,
           \A fd \in Fds \ (new \cup cleared) : table[fd] = fdTable[fd],
           \A fd \in new \cup cleared : fd \notin {1, 2} /\ given[fd] \notin Handles /\ fd \notin stale \cup OthersUse(t),
           \A fd \in cleared : fd >= 3 /\ given[fd] = None,
           new \cap cleared = {},
           \A fd \in new : table[fd] \in Taken(call[t]) \ closed,
           \A fd, other \in new : fd # other => table[fd] # table[other],
           \A h \in Taken(call[t]) : h \in closed \cup left \/ \E fd \in new : table[fd] = h,
           Entered(call[t]) \subseteq new \cup cleared, Closing(call[t]) = {},
           End(t, table, cleared, closed, left, new), UNCHANGED <<streams, stale, clobbered>>
    PROVE  FdInv(t)' /\ Leaves(t)
<1> USE FdNumbers
<1>c. call[t] \in Calls
  BY DEF FdInv, FdTypeOK
<1>t. Taken(call[t]) \subseteq Handles
  <2>1. \A fd \in Entered(call[t]) : fd \in Fds /\ fd >= 3
    BY DEF FdInv, TakenApart, Entered
  <2>2. \A fd \in Entered(call[t]) : fdTable[fd] \in Handles
    BY <1>c, <2>1, CallFields, FdTableAssumption DEF FdInv, TakenApart, Entered
  <2> QED BY <2>2 DEF Taken, InHand
<1>1. /\ fdTable' = [fd \in Fds |-> IF fd \in cleared THEN 0 ELSE table[fd]]
      /\ live' = live \ closed
      /\ lost' = lost \cup left
      /\ cloexec' = cloexec \ closed
      /\ given' = [fd \in Fds |-> IF fd \in new THEN fdTable'[fd] ELSE given[fd]]
      /\ call' = [call EXCEPT ![t] = Idle]
  BY DEF End, Does
<1>2. call'[t] = Idle /\ Idle.op = "idle"
  BY <1>1 DEF FdInv, FdTypeOK, Idle
<1>3. InHand(call[t])' = {} /\ Entered(call[t])' = {} /\ Closing(call[t])' = {} /\ Taken(call[t])' = {}
  BY <1>2 DEF InHand, Entered, Closing, Taken, Pairs
<1>4. ASSUME NEW fd \in Fds
      PROVE  /\ fd \in new => fdTable'[fd] = table[fd] /\ given'[fd] = table[fd]
             /\ fd \in cleared => fdTable'[fd] = 0 /\ given'[fd] = None
             /\ fd \notin new \cup cleared => fdTable'[fd] = fdTable[fd] /\ given'[fd] = given[fd]
  BY <1>1
<1>5. \A fd \in new : table[fd] \in Handles /\ table[fd] \in live \ (cloexec \cup closed)
                      /\ \A other \in Fds : given[other] # table[fd]
  BY <1>t DEF FdInv, TakenApart
<1>6. \A fd \in Fds : given[fd] \notin closed
  BY DEF FdInv, TakenApart
<1>o. Leaves(t)
  <2>1. \A u \in Threads \ {t} : call'[u] = call[u]
    BY <1>1 DEF FdInv, FdTypeOK
  <2>2. ASSUME NEW fd \in OthersUse(t) PROVE fdTable'[fd] = fdTable[fd] /\ given'[fd] = None
    <3>1. fd \in Fds /\ given[fd] = None /\ fd \notin new \cup cleared
      BY <2>2 DEF FdInv, Apart
    <3> QED BY <1>4, <3>1
  <2>3. ASSUME NEW h \in OthersTake(t) PROVE h \in live' \ cloexec' /\ \A fd \in Fds : given'[fd] # h
    <3>1. h \in live \ cloexec /\ h \notin Taken(call[t]) /\ \A fd \in Fds : given[fd] # h
      BY <2>3 DEF FdInv, Apart
    <3>2. h \in live' \ cloexec'
      BY <1>1, <3>1
    <3>3. h # None
      BY <3>1 DEF FdInv, FdTypeOK
    <3>4. \A fd \in Fds : given'[fd] # h
      BY <1>4, <3>1, <3>3
    <3> QED BY <3>2, <3>4
  <2> QED BY <2>1, <2>2, <2>3 DEF Leaves
<1>p. Apart(t)' /\ OthersTake(t)' = OthersTake(t) /\ OthersUse(t)' = OthersUse(t)
  BY <1>3, <1>o, ApartStays
<1>7. FdTypeOK'
  <2>1. fdTable' \in [Fds -> Handles \cup {0, 1, 2}]
    BY <1>1
  <2>2. given' \in [Fds -> Handles \cup {0, 1, 2, None}]
    BY <1>1, <2>1 DEF FdInv, FdTypeOK
  <2>3. call' \in [Threads -> Calls]
    BY <1>1 DEF FdInv, FdTypeOK, Calls
  <2> QED BY <1>1, <2>1, <2>2, <2>3 DEF FdInv, FdTypeOK
<1>8. StandardStay'
  BY <1>4, <1>5 DEF FdInv, StandardStay
<1>9. GivenHeld'
  <2> SUFFICES ASSUME NEW fd \in Fds, given'[fd] # None
               PROVE  /\ fdTable'[fd] = given'[fd]
                      /\ given'[fd] \in live' \cup {0, 1, 2}
                      /\ \A other \in Fds \ {fd} : given'[fd] # given'[other]
    BY DEF GivenHeld
  <2>1. fd \notin cleared
    BY <1>4
  <2>2. CASE fd \in new
    <3>1. given'[fd] = table[fd] /\ fdTable'[fd] = table[fd]
      BY <1>4, <2>2
    <3>2. ASSUME NEW other \in Fds \ {fd} PROVE given'[other] # table[fd]
      BY <1>4, <1>5, <2>2
    <3> QED BY <1>1, <1>5, <2>2, <3>1, <3>2
  <2>3. CASE fd \notin new
    <3>1. given'[fd] = given[fd] /\ fdTable'[fd] = fdTable[fd]
      BY <1>4, <2>1, <2>3
    <3>2. ASSUME NEW other \in Fds \ {fd} PROVE given'[other] # given[fd]
      BY <1>4, <1>5, <3>1 DEF FdInv, GivenHeld
    <3> QED BY <1>1, <1>6, <3>1, <3>2 DEF FdInv, GivenHeld
  <2> QED BY <2>2, <2>3
<1>10. TakenApart(call[t])'
  BY <1>2, <1>3 DEF TakenApart, Pairs
<1>11. HandlesKnown(t)'
  <2> SUFFICES ASSUME NEW h \in live' PROVE (\E fd \in Fds : given'[fd] = h) \/ h \in lost' \cup OthersTake(t)
    BY <1>p DEF HandlesKnown
  <2>1. h \in live /\ h \notin closed
    BY <1>1
  <2>2. CASE h \in lost \cup left
    BY <1>1, <2>2
  <2>3. CASE h \in Taken(call[t]) /\ h \notin left
    <3>1. PICK fd \in new : table[fd] = h
      BY <2>1, <2>3
    <3> QED BY <1>4, <3>1
  <2>4. CASE \E fd \in Fds : given[fd] = h
    <3>1. PICK fd \in Fds : given[fd] = h
      BY <2>4
    <3>2. h # None /\ h \in Handles
      BY <2>1 DEF FdInv, FdTypeOK
    <3>3. given'[fd] = h
      BY <1>4, <3>1, <3>2
    <3> QED BY <3>3
  <2> QED BY <2>1, <2>2, <2>3, <2>4 DEF FdInv, HandlesKnown
<1>12. EntriesKnown(t)'
  <2>1. ASSUME NEW fd \in Fds, fdTable'[fd] # 0, given'[fd] = None PROVE fd \in stale \cup OthersUse(t)
    <3>1. fd \notin new
      BY <1>4, <1>5, <2>1
    <3>2. fd \notin cleared
      BY <1>4, <2>1
    <3>3. fdTable[fd] # 0 /\ given[fd] = None /\ fd \notin Entered(call[t]) /\ fd \notin Closing(call[t])
      BY <1>4, <2>1, <3>1, <3>2
    <3> QED BY <3>3 DEF FdInv, EntriesKnown
  <2>2. stale' = stale /\ OthersUse(t)' = OthersUse(t)
    BY <1>p
  <2> QED BY <2>1, <2>2 DEF EntriesKnown
<1>13. StaleApart(t)'
  BY <1>3, <1>4, <1>p DEF FdInv, FdTypeOK, StaleApart
<1>14. StreamsOfFds'
  BY <1>4, <1>5 DEF FdInv, FdTypeOK, StreamsOfFds
<1> QED BY <1>7, <1>8, <1>9, <1>10, <1>11, <1>12, <1>13, <1>14, <1>o, <1>p DEF FdInv

-----------------------------------------------------------------------------
(* The handles of a call are registered.                                   *)

\* The first of two has found an entry, or was left or closed.
LEMMA FirstKeeps ==
    ASSUME NEW t \in Threads, FdInv(t), ~clobbered,
           NEW c \in Calls, c = call[t], c.op \in Pairs, ~c.onB,
           NEW fd \in Fds \cup {None}, NEW closed \in SUBSET {c.a},
           fd # None => fd >= 3 /\ fdTable[fd] = 0,
           fdTable' = IF fd = None THEN fdTable ELSE [fdTable EXCEPT ![fd] = c.a],
           live' = live \ closed,
           c.op = "socketpair" => fd # None,
           closed # {} <=> fd = None /\ c.op = "recv",
           UNCHANGED <<given, lost, cloexec, streams, stale, clobbered>>,
           Does(t, [c EXCEPT !.onB = TRUE, !.r = fd, !.slot = None])
    PROVE  FdInv(t)' /\ Leaves(t)
<1> USE FdNumbers
<1>f. /\ c.a \in Handles /\ c.b \in Handles /\ c.r \in Fds \cup {None}
      /\ c.op \in {"pipe", "socketpair", "recv"}
  BY CallFields, FdTableAssumption DEF Pairs
<1>1. PICK d : d = [c EXCEPT !.onB = TRUE, !.r = fd, !.slot = None]
  OBVIOUS
<1>2. /\ d \in Calls /\ d.op = c.op /\ d.a = c.a /\ d.b = c.b /\ d.onB = TRUE /\ d.r = fd /\ d.slot = None
  <2>1. c \in [op : Pairs, a : Handles, b : Handles, onB : BOOLEAN,
               r : Fds \cup {None}, slot : Fds \cup {None}]
    BY DEF Calls, Idle, Pairs
  <2>2. /\ d \in [op : Pairs, a : Handles, b : Handles, onB : BOOLEAN,
                  r : Fds \cup {None}, slot : Fds \cup {None}]
        /\ d.op = c.op /\ d.a = c.a /\ d.b = c.b /\ d.onB = TRUE /\ d.r = fd /\ d.slot = None
    BY <1>1, <2>1
  <2> QED BY <2>2 DEF Calls
<1>3. call' = [call EXCEPT ![t] = d] /\ call'[t] = d
  BY <1>1 DEF Does, FdInv, FdTypeOK
<1>4. /\ InHand(c) = {c.a, c.b} /\ Entered(c) = {} /\ Closing(c) = {} /\ Taken(c) = {c.a, c.b}
  <2>1. c.op # "close" /\ c.op # "one"
    BY <1>f
  <2> QED BY <1>f, <2>1 DEF InHand, Entered, Closing, Taken
<1>5. Entered(call[t])' = {fd} \cap Fds /\ Closing(call[t])' = {}
  <2>1. d.op \in Pairs /\ d.op # "close"
    BY <1>2, <1>f
  <2> QED BY <1>2, <1>3, <2>1 DEF Entered, Closing
<1>6. ASSUME NEW g \in Fds PROVE fdTable'[g] = IF g = fd THEN c.a ELSE fdTable[g]
  BY DEF FdInv, FdTypeOK
<1>7. Taken(call[t])' = {c.a, c.b} \ closed
  <2>1. c.a # c.b
    BY <1>f DEF FdInv, TakenApart
  <2>2. InHand(call[t])' = {h \in Handles : (d.op = "pipe" /\ fd = None /\ h = c.a) \/ h = c.b}
    BY <1>2, <1>3, <1>f DEF InHand, Pairs
  <2>3. {fdTable'[g] : g \in Entered(call[t])'} = IF fd = None THEN {} ELSE {c.a}
    BY <1>5, <1>6
  <2>4. Taken(call[t])' = InHand(call[t])' \cup {fdTable'[g] : g \in Entered(call[t])'}
    BY DEF Taken
  <2>5. CASE fd # None
    BY <1>f, <1>2, <2>1, <2>2, <2>3, <2>4, <2>5
  <2>6. CASE fd = None /\ c.op = "pipe"
    BY <1>f, <1>2, <2>1, <2>2, <2>3, <2>4, <2>6
  <2>7. CASE fd = None /\ c.op = "recv"
    <3>1. closed = {c.a}
      BY <2>7
    <3> QED BY <1>f, <1>2, <2>1, <2>2, <2>3, <2>4, <2>7, <3>1
  <2> QED BY <1>f, <2>5, <2>6, <2>7
<1>8. /\ \A h \in {c.a, c.b} : h \in live \ cloexec /\ \A g \in Fds : given[g] # h
      /\ c.a # c.b
  BY <1>4, <1>f DEF FdInv, TakenApart
<1>9. fd # None => given[fd] = None /\ fd \notin stale \cup OthersUse(t)
  <2>1. ASSUME fd # None PROVE given[fd] = None
    BY <2>1 DEF FdInv, StandardStay, GivenHeld
  <2> QED BY <2>1 DEF FdInv, StaleApart, Apart
<1>o. Leaves(t)
  <2>1. \A u \in Threads \ {t} : call'[u] = call[u]
    BY <1>3 DEF FdInv, FdTypeOK
  <2>2. \A g \in OthersUse(t) : fdTable'[g] = fdTable[g] /\ given'[g] = None
    <3> SUFFICES ASSUME NEW g \in OthersUse(t) PROVE fdTable'[g] = fdTable[g] /\ given[g] = None
      OBVIOUS
    <3>1. g \in Fds /\ given[g] = None /\ fdTable[g] # 0
      BY DEF FdInv, Apart
    <3>2. g # fd
      BY <1>9, <3>1
    <3> QED BY <1>6, <3>1, <3>2
  <2>3. \A h \in OthersTake(t) : h \in live' \ cloexec' /\ \A g \in Fds : given'[g] # h
    BY <1>4 DEF FdInv, Apart
  <2> QED BY <2>1, <2>2, <2>3 DEF Leaves
<1>p. Apart(t)' /\ OthersTake(t)' = OthersTake(t) /\ OthersUse(t)' = OthersUse(t)
  <2>1. \A h \in Taken(call[t])' : h \notin OthersTake(t)
    BY <1>4, <1>7 DEF FdInv, Apart
  <2>2. \A g \in Entered(call[t])' \cup Closing(call[t])' : g \notin OthersUse(t)
    BY <1>5, <1>9
  <2> QED BY <1>o, <2>1, <2>2, ApartStays
<1>10. FdTypeOK'
  <2>1. fdTable' \in [Fds -> Handles \cup {0, 1, 2}]
    BY <1>f DEF FdInv, FdTypeOK
  <2>2. call' \in [Threads -> Calls]
    BY <1>2, <1>3 DEF FdInv, FdTypeOK
  <2>3. cloexec \subseteq live'
    BY <1>8 DEF FdInv, FdTypeOK
  <2> QED BY <2>1, <2>2, <2>3 DEF FdInv, FdTypeOK
<1>11. StandardStay'
  BY <1>6, <1>f DEF FdInv, StandardStay
<1>12. GivenHeld'
  <2> SUFFICES ASSUME NEW g \in Fds, given[g] # None
               PROVE  fdTable'[g] = given[g] /\ given[g] \in live' \cup {0, 1, 2}
    BY DEF FdInv, GivenHeld
  <2>1. g # fd
    <3>1. CASE fd = None
      BY <3>1
    <3>2. CASE fd # None
      <4>1. given[fd] = None
        BY <1>9, <3>2
      <4> QED BY <4>1
    <3> QED BY <3>1, <3>2
  <2> QED BY <1>6, <1>8, <2>1 DEF FdInv, GivenHeld
<1>13. TakenApart(call[t])'
  <2>1. \A h \in Taken(call[t])' : h \in live' \ cloexec' /\ \A g \in Fds : given'[g] # h
    BY <1>7, <1>8
  <2>2. \A g \in Entered(call[t])' : g >= 3 /\ fdTable'[g] = d.a /\ given'[g] = None
    BY <1>2, <1>5, <1>6, <1>9
  <2>3. d.op \in Pairs => d.a # d.b /\ (d.op = "socketpair" /\ d.onB => d.r # None)
    BY <1>2, <1>8
  <2> QED BY <1>2, <1>3, <1>5, <2>1, <2>2, <2>3 DEF TakenApart
<1>14. HandlesKnown(t)'
  BY <1>4, <1>7, <1>p DEF FdInv, HandlesKnown
<1>15. EntriesKnown(t)'
  BY <1>4, <1>5, <1>6, <1>p DEF FdInv, EntriesKnown
<1>16. StaleApart(t)'
  <2>1. ASSUME NEW g \in stale PROVE fdTable'[g] # 0 /\ given[g] = None /\ g # fd /\ g \notin OthersUse(t)
    <3>1. g \in Fds /\ fdTable[g] # 0 /\ given[g] = None /\ g \notin OthersUse(t)
      BY DEF FdInv, FdTypeOK, StaleApart
    <3>2. g # fd
      BY <1>9, <3>1
    <3> QED BY <1>6, <3>1, <3>2
  <2> QED BY <1>5, <1>p, <2>1 DEF StaleApart
<1>17. StreamsOfFds'
  BY DEF FdInv, StreamsOfFds
<1> QED BY <1>10, <1>11, <1>12, <1>13, <1>14, <1>15, <1>16, <1>17, <1>o, <1>p DEF FdInv

\* Each kind of call, with room in the table or without.
LEMMA RegisteredKeeps ==
    ASSUME NEW t \in Threads, FdInv(t), ~clobbered,
           NEW c \in Calls, c = call[t], c.op \in Pairs \cup {"one"},
           NEW fd \in Fds \cup {None}, fd # None => fdTable[fd] = 0 /\ (c.op \in Pairs => fd >= 3),
           NEW table, table = IF fd = None THEN fdTable ELSE [fdTable EXCEPT ![fd] = HandleOf(c)],
           Registered(t, table, fd), UNCHANGED <<streams, stale, clobbered>>
    PROVE  FdInv(t)' /\ Leaves(t)
<1> USE FdNumbers
<1>f. /\ c.a \in Handles /\ c.op \in {"one", "pipe", "socketpair", "recv"}
      /\ c.op # "one" => c.b \in Handles /\ c.onB \in BOOLEAN /\ c.r \in Fds \cup {None} /\ c.op \in Pairs
  BY CallFields, FdTableAssumption DEF Pairs
<1>h. /\ HandleOf(c) \in Handles
      /\ c.op = "one" \/ ~c.onB => HandleOf(c) = c.a
      /\ c.op # "one" /\ c.onB => HandleOf(c) = c.b
  BY <1>f DEF HandleOf
<1>1. /\ table \in [Fds -> Handles \cup {0, 1, 2}]
      /\ \A g \in Fds : table[g] = IF g = fd THEN HandleOf(c) ELSE fdTable[g]
  BY <1>h DEF FdInv, FdTypeOK
<1>2. fd # None => /\ fd \notin {1, 2} /\ given[fd] \notin Handles /\ fd \notin stale \cup OthersUse(t)
                   /\ fd >= 3 => given[fd] = None
  <2> SUFFICES ASSUME fd # None
               PROVE  /\ fd \notin {1, 2} /\ given[fd] \notin Handles /\ fd \notin stale \cup OthersUse(t)
                      /\ fd >= 3 => given[fd] = None
    OBVIOUS
  <2>1. fdTable[fd] = 0 /\ fd \in Fds /\ fd \notin stale \cup OthersUse(t)
    BY DEF FdInv, StaleApart, Apart
  <2>2. fd \notin {1, 2}
    BY <2>1 DEF FdInv, StandardStay
  <2>3. given[fd] = None \/ given[fd] = 0
    BY <2>1 DEF FdInv, GivenHeld
  <2>4. fd >= 3 => given[fd] = None
    BY <2>1, <2>3 DEF FdInv, StandardStay
  <2> QED BY <2>1, <2>2, <2>3, <2>4
<1>3. /\ Closing(c) = {} /\ Entered(c) = IF c.op # "one" /\ c.onB THEN {c.r} \cap Fds ELSE {}
      /\ \A g \in Entered(c) : g >= 3 /\ fdTable[g] = c.a /\ given[g] = None /\ g \notin stale \cup OthersUse(t) /\ g # fd
  <2>1. c.op # "close"
    BY <1>f
  <2>2. Closing(c) = {} /\ Entered(c) = IF c.op # "one" /\ c.onB THEN {c.r} \cap Fds ELSE {}
    BY <1>f, <2>1 DEF Closing, Entered, Pairs
  <2>3. \A g \in Entered(c) : /\ g \in Fds /\ g >= 3 /\ fdTable[g] = c.a /\ given[g] = None
                              /\ g \notin stale \cup OthersUse(t)
    BY <2>2 DEF FdInv, TakenApart, StaleApart, Apart
  <2>4. c.a # 0
    BY <1>f
  <2> QED BY <2>2, <2>3, <2>4
<1>4. Got(fd) = {fd} \cap Fds
  BY DEF Got
<1>5. ASSUME c.op = "one", OneRegistered(t, table, fd) PROVE FdInv(t)' /\ Leaves(t)
  <2>1. Taken(c) = {c.a}
    BY <1>f, <1>3, <1>5 DEF Taken, InHand, Pairs
  <2>2. PICK none, new, closed : none = {} /\ new = Got(fd) /\ closed = IF fd = None THEN {c.a} ELSE {}
    OBVIOUS
  <2>3. End(t, table, none, closed, none, new)
    BY <1>5, <2>2 DEF OneRegistered
  <2>4. /\ new \in SUBSET Fds /\ none \in SUBSET Fds /\ closed \in SUBSET Taken(c) /\ none \in SUBSET Handles
        /\ new \cap none = {} /\ Entered(c) \subseteq new \cup none
    BY <1>3, <1>4, <1>5, <2>1, <2>2
  <2>5. \A g \in Fds \ (new \cup none) : table[g] = fdTable[g]
    BY <1>1, <1>4, <2>2
  <2>6. /\ \A g \in new \cup none : g \notin {1, 2} /\ given[g] \notin Handles /\ g \notin stale \cup OthersUse(t)
        /\ \A g \in none : g >= 3 /\ given[g] = None
    BY <1>2, <1>4, <2>2
  <2>7. fd # None => table[fd] = c.a
    BY <1>1, <1>5, <1>h
  <2>8. \A g \in new : table[g] \in Taken(c) \ closed
    BY <1>4, <2>1, <2>2, <2>7
  <2>9. \A g, other \in new : g # other => table[g] # table[other]
    BY <1>4, <2>2
  <2>10. \A h \in Taken(c) : h \in closed \cup none \/ \E g \in new : table[g] = h
    BY <1>4, <2>1, <2>2, <2>7
  <2> QED BY <1>1, <1>3, <2>3, <2>4, <2>5, <2>6, <2>8, <2>9, <2>10, EndKeeps
<1>6. /\ c.op # "one" /\ ~c.onB => Taken(c) = {c.a, c.b}
      /\ c.op # "one" /\ c.onB => Taken(c) = {c.b} \cup IF c.r # None \/ c.op = "pipe" THEN {c.a} ELSE {}
      /\ c.op # "one" => c.a # c.b /\ (c.op = "socketpair" /\ c.onB => c.r # None)
  <2>1. c.op # "one" => c.a # c.b /\ (c.op = "socketpair" /\ c.onB => c.r # None)
    BY <1>f DEF FdInv, TakenApart
  <2>2. c.op # "one" => InHand(c) = {h \in Handles : ((~c.onB \/ (c.op = "pipe" /\ c.r = None)) /\ h = c.a) \/ h = c.b}
    BY <1>f DEF InHand
  <2>3. {fdTable[g] : g \in Entered(c)} = IF Entered(c) = {} THEN {} ELSE {c.a}
    BY <1>3
  <2>4. Taken(c) = InHand(c) \cup {fdTable[g] : g \in Entered(c)}
    BY DEF Taken
  <2>5. ASSUME c.op # "one", ~c.onB PROVE Taken(c) = {c.a, c.b}
    BY <1>f, <1>3, <2>2, <2>3, <2>4, <2>5
  <2>6. ASSUME c.op # "one", c.onB, c.r # None PROVE Taken(c) = {c.a, c.b}
    <3>1. Entered(c) = {c.r}
      BY <1>f, <1>3, <2>6
    <3> QED BY <1>f, <2>2, <2>3, <2>4, <2>6, <3>1
  <2>7. ASSUME c.op # "one", c.onB, c.r = None
        PROVE  Taken(c) = {c.b} \cup IF c.op = "pipe" THEN {c.a} ELSE {}
    <3>1. Entered(c) = {}
      BY <1>f, <1>3, <2>7
    <3> QED BY <1>f, <2>2, <2>3, <2>4, <2>7, <3>1
  <2> QED BY <1>f, <2>1, <2>5, <2>6, <2>7
\* The second half of a pair: both entries are the program's or cleared.
<1>7. ASSUME c.op # "one", c.onB,
             NEW new, NEW cleared, NEW closed, NEW left,
             new \cup cleared = Got(c.r) \cup Got(fd), new \cap cleared = {},
             closed \subseteq Taken(c), left \subseteq {c.a, c.b},
             \A g \in new : table[g] \notin closed,
             \A h \in Taken(c) : h \in closed \cup left \/ \E g \in new : table[g] = h,
             End(t, table, cleared, closed, left, new)
      PROVE FdInv(t)' /\ Leaves(t)
  <2>1. Got(c.r) = {c.r} \cap Fds /\ Entered(c) = {c.r} \cap Fds
    BY <1>3, <1>7, <1>f DEF Got
  <2>2. /\ new \in SUBSET Fds /\ cleared \in SUBSET Fds /\ Entered(c) \subseteq new \cup cleared
        /\ closed \in SUBSET Taken(c) /\ left \in SUBSET Handles
    BY <1>4, <1>7, <1>f, <2>1
  <2>3. \A g \in Fds \ (new \cup cleared) : table[g] = fdTable[g]
    BY <1>1, <1>4, <1>7
  <2>4. \A g \in new \cup cleared : g >= 3 /\ given[g] = None /\ g \notin stale \cup OthersUse(t)
    BY <1>2, <1>3, <1>4, <1>7, <1>f, <2>1
  <2>5. /\ fd # None => table[fd] = c.b
        /\ c.r # None => table[c.r] = c.a /\ c.r # fd
    BY <1>1, <1>3, <1>7, <1>f, <1>h, <2>1
  <2>6. \A g \in new : table[g] \in Taken(c) \ closed
    BY <1>4, <1>6, <1>7, <2>1, <2>5
  <2>7. \A g, other \in new : g # other => table[g] # table[other]
    BY <1>4, <1>6, <1>7, <2>1, <2>5
  <2> QED BY <1>1, <1>3, <1>7, <2>2, <2>3, <2>4, <2>6, <2>7, EndKeeps
<1>8. ASSUME c.op # "one", c.onB
      PROVE  /\ fd # None => table[fd] = c.b
             /\ c.r # None => table[c.r] = c.a /\ c.r # fd
             /\ Got(fd) = IF fd = None THEN {} ELSE {fd}
             /\ Got(c.r) = IF c.r = None THEN {} ELSE {c.r}
  BY <1>1, <1>3, <1>8, <1>f, <1>h DEF Got
\* The first half.
<1>9. ASSUME c.op # "one", ~c.onB, GoOn(t, table, [c EXCEPT !.onB = TRUE, !.r = fd, !.slot = None]),
             c.op = "recv" \/ c.op = "socketpair" => fd # None
      PROVE  FdInv(t)' /\ Leaves(t)
  <2>1. /\ fdTable' = IF fd = None THEN fdTable ELSE [fdTable EXCEPT ![fd] = c.a]
        /\ live' = live \ {} /\ UNCHANGED <<given, lost, cloexec>>
        /\ Does(t, [c EXCEPT !.onB = TRUE, !.r = fd, !.slot = None])
    BY <1>9, <1>h DEF GoOn
  <2>2. {} \in SUBSET {c.a} /\ ({} # {} <=> fd = None /\ c.op = "recv")
    BY <1>9
  <2> QED BY <1>9, <1>f, <2>1, <2>2, FirstKeeps
<1>10. ASSUME PipeRegistered(t, table, fd) PROVE FdInv(t)' /\ Leaves(t)
  <2>0. c.op = "pipe"
    BY <1>10 DEF PipeRegistered
  <2>1. CASE ~c.onB /\ GoOn(t, table, [c EXCEPT !.onB = TRUE, !.r = fd, !.slot = None])
    BY <1>9, <2>0, <2>1
  <2>2. CASE c.onB /\ c.r # None /\ fd # None /\ End(t, table, {}, {}, {}, {c.r, fd})
    <3>1. {c.r, fd} \cup {} = Got(c.r) \cup Got(fd) /\ {c.r, fd} \cap {} = {}
      BY <1>8, <2>0, <2>2
    <3>2. \A h \in Taken(c) : \E g \in {c.r, fd} : table[g] = h
      BY <1>6, <1>8, <2>0, <2>2
    <3>3. PICK cleared, closed, left, new : cleared = {} /\ closed = {} /\ left = {} /\ new = {c.r, fd}
      OBVIOUS
    <3>4. /\ new \cup cleared = Got(c.r) \cup Got(fd) /\ new \cap cleared = {}
          /\ closed \subseteq Taken(c) /\ left \subseteq {c.a, c.b} /\ \A g \in new : table[g] \notin closed
          /\ \A h \in Taken(c) : h \in closed \cup left \/ \E g \in new : table[g] = h
      BY <3>1, <3>2, <3>3
    <3>5. End(t, table, cleared, closed, left, new)
      BY <2>2, <3>3
    <3>6. c.op # "one" /\ c.onB
      BY <2>0, <2>2
    <3>7. \A g \in new : table[g] \notin closed
      BY <3>4
    <3>8. \A h \in Taken(c) : h \in closed \cup left \/ \E g \in new : table[g] = h
      BY <3>4
    <3>9. new \cup cleared = Got(c.r) \cup Got(fd)
      BY <3>4
    <3>10. new \cap cleared = {}
      BY <3>4
    <3>11. closed \subseteq Taken(c) /\ left \subseteq {c.a, c.b}
      BY <3>4
    <3> QED BY ONLY <1>7, <3>5, <3>6, <3>7, <3>8, <3>9, <3>10, <3>11
  <2>3. CASE /\ c.onB /\ (c.r = None \/ fd = None)
             /\ LET closed == (IF c.r # None THEN {c.a} ELSE {}) \cup (IF fd # None THEN {c.b} ELSE {})
                IN  End(t, table, Got(c.r) \cup Got(fd), closed, {c.a, c.b} \ closed, {})
    <3> DEFINE closed == (IF c.r # None THEN {c.a} ELSE {}) \cup (IF fd # None THEN {c.b} ELSE {})
    <3>1. End(t, table, Got(c.r) \cup Got(fd), closed, {c.a, c.b} \ closed, {})
      BY <2>3
    <3>2. Taken(c) = {c.a, c.b}
      BY <1>6, <2>0, <2>3
    <3>3. PICK left, none : left = {c.a, c.b} \ closed /\ none = {}
      OBVIOUS
    <3>4. closed \subseteq Taken(c) /\ left \subseteq {c.a, c.b} /\ \A h \in Taken(c) : h \in closed \cup left
      BY <3>2, <3>3
    <3> HIDE DEF closed
    <3>5. none \cup (Got(c.r) \cup Got(fd)) = Got(c.r) \cup Got(fd) /\ none \cap (Got(c.r) \cup Got(fd)) = {}
          /\ \A g \in none : table[g] \notin closed
      BY <3>3
    <3>6. End(t, table, Got(c.r) \cup Got(fd), closed, left, none)
      BY <3>1, <3>3
    <3> QED BY <1>7, <2>0, <2>3, <3>4, <3>5, <3>6
  <2> QED BY <1>10, <2>1, <2>2, <2>3 DEF PipeRegistered
<1>11. ASSUME SocketpairRegistered(t, table, fd) PROVE FdInv(t)' /\ Leaves(t)
  <2>0. c.op = "socketpair"
    BY <1>11 DEF SocketpairRegistered
  <2>1. CASE ~c.onB /\ fd # None /\ GoOn(t, table, [c EXCEPT !.onB = TRUE, !.r = fd, !.slot = None])
    BY <1>9, <2>0, <2>1
  <2>2. CASE ~c.onB /\ fd = None /\ End(t, table, {}, {c.a, c.b}, {}, {})
    <3>1. Entered(c) = {} /\ Taken(c) = {c.a, c.b} /\ \A g \in Fds : table[g] = fdTable[g]
      BY <1>1, <1>3, <1>6, <2>0, <2>2
    <3>2. {c.a, c.b} \in SUBSET Taken(c) /\ {} \in SUBSET Fds /\ {} \in SUBSET Handles
      BY <3>1
    <3> QED BY <1>1, <1>3, <2>2, <3>1, <3>2, EndKeeps
  <2>3. CASE c.onB /\ fd # None /\ End(t, table, {}, {}, {}, {c.r, fd})
    <3>1. {c.r, fd} \cup {} = Got(c.r) \cup Got(fd) /\ {c.r, fd} \cap {} = {}
      BY <1>6, <1>8, <2>0, <2>3
    <3>2. \A h \in Taken(c) : \E g \in {c.r, fd} : table[g] = h
      BY <1>6, <1>8, <2>0, <2>3
    <3>3. PICK cleared, closed, left, new : cleared = {} /\ closed = {} /\ left = {} /\ new = {c.r, fd}
      OBVIOUS
    <3>4. /\ new \cup cleared = Got(c.r) \cup Got(fd) /\ new \cap cleared = {}
          /\ closed \subseteq Taken(c) /\ left \subseteq {c.a, c.b} /\ \A g \in new : table[g] \notin closed
          /\ \A h \in Taken(c) : h \in closed \cup left \/ \E g \in new : table[g] = h
      BY <3>1, <3>2, <3>3
    <3>5. End(t, table, cleared, closed, left, new)
      BY <2>3, <3>3
    <3>6. c.op # "one" /\ c.onB
      BY <2>0, <2>3
    <3>7. \A g \in new : table[g] \notin closed
      BY <3>4
    <3>8. \A h \in Taken(c) : h \in closed \cup left \/ \E g \in new : table[g] = h
      BY <3>4
    <3>9. new \cup cleared = Got(c.r) \cup Got(fd)
      BY <3>4
    <3>10. new \cap cleared = {}
      BY <3>4
    <3>11. closed \subseteq Taken(c) /\ left \subseteq {c.a, c.b}
      BY <3>4
    <3> QED BY ONLY <1>7, <3>5, <3>6, <3>7, <3>8, <3>9, <3>10, <3>11
  <2>4. CASE c.onB /\ fd = None /\ End(t, table, {c.r}, {c.a, c.b}, {}, {})
    <3>1. {} \cup {c.r} = Got(c.r) \cup Got(fd)
      BY <1>6, <1>8, <2>0, <2>4
    <3>2. Taken(c) = {c.a, c.b}
      BY <1>6, <2>0, <2>4
    <3> QED BY <1>7, <2>0, <2>4, <3>1, <3>2
  <2> QED BY <1>11, <2>1, <2>2, <2>3, <2>4 DEF SocketpairRegistered
<1>12. ASSUME RecvRegistered(t, table, fd) PROVE FdInv(t)' /\ Leaves(t)
  <2>0. c.op = "recv"
    BY <1>12 DEF RecvRegistered
  <2>1. CASE ~c.onB
    <3> DEFINE closed == IF fd = None THEN {c.a} ELSE {}
    <3>1. /\ fdTable' = IF fd = None THEN fdTable ELSE [fdTable EXCEPT ![fd] = c.a]
          /\ live' = live \ closed /\ UNCHANGED <<given, lost, cloexec>>
          /\ Does(t, [c EXCEPT !.onB = TRUE, !.r = fd, !.slot = None])
      BY <1>12, <1>h, <2>0, <2>1 DEF RecvRegistered
    <3>2. closed \in SUBSET {c.a} /\ (closed # {} <=> fd = None /\ c.op = "recv")
      BY <2>0
    <3> HIDE DEF closed
    <3> QED BY <1>f, <2>0, <2>1, <3>1, <3>2, FirstKeeps
  <2>2. CASE c.onB
    <3> DEFINE closed == IF fd = None THEN {c.b} ELSE {}
               new    == Got(c.r) \cup Got(fd)
    <3>1. End(t, table, {}, closed, {}, new)
      BY <1>12, <1>h, <2>0, <2>2 DEF RecvRegistered
    <3>2. Taken(c) = {c.b} \cup IF c.r # None THEN {c.a} ELSE {}
      BY <1>6, <2>0, <2>2
    <3>3. closed \subseteq Taken(c) /\ new \cup {} = Got(c.r) \cup Got(fd) /\ new \cap {} = {}
      BY <3>2
    <3>4. \A g \in new : table[g] \notin closed
      BY <1>6, <1>8, <2>0, <2>2
    <3>5. \A h \in Taken(c) : h \in closed \cup {} \/ \E g \in new : table[g] = h
      BY <1>8, <2>0, <2>2, <3>2
    <3> HIDE DEF closed, new
    <3> QED BY <1>7, <2>0, <2>2, <3>1, <3>3, <3>4, <3>5
  <2> QED BY <1>f, <2>0, <2>1, <2>2
<1> QED BY <1>5, <1>10, <1>11, <1>12 DEF Registered, OneRegistered

-----------------------------------------------------------------------------
(* The other steps.                                                        *)

\* The kernel gives the handles of a call that begins.
LEMMA BeginKeepsFds ==
    ASSUME NEW t \in Threads, FdInv(t), ~clobbered, call[t] = Idle,
           NEW c \in Calls, c.op \in Pairs \cup {"one"}, c.slot = None,
           c.op \in Pairs => ~c.onB /\ c.a # c.b,
           NEW handles \in SUBSET (Handles \ live),
           handles = IF c.op = "one" THEN {c.a} ELSE {c.a, c.b},
           live' = live \cup handles, Does(t, c),
           UNCHANGED <<fdTable, given, streams, lost, cloexec, stale, clobbered>>
    PROVE  FdInv(t)' /\ Leaves(t)
<1> USE FdNumbers
<1>1. call' = [call EXCEPT ![t] = c] /\ call'[t] = c
  BY DEF Does, FdInv, FdTypeOK
<1>2. /\ c.op # "close" /\ c.op # "idle" /\ (c.op = "one" => c.op \notin Pairs)
      /\ c.a \in Handles /\ (c.op \in Pairs => c.b \in Handles)
  BY CallFields, FdTableAssumption DEF Pairs
<1>3. /\ InHand(call[t]) = {} /\ Entered(call[t]) = {} /\ Closing(call[t]) = {} /\ Taken(call[t]) = {}
  BY IdleTakesNothing DEF Idle
<1>4. Entered(c)' = {} /\ Closing(c)' = {}
  BY <1>2 DEF Entered, Closing
<1>5. Taken(c)' = handles
  <2>1. InHand(c) = handles
    BY <1>2 DEF InHand
  <2> QED BY <1>4, <2>1 DEF Taken, InHand
<1>6. Entered(call[t])' = {} /\ Closing(call[t])' = {} /\ Taken(call[t])' = handles
  BY <1>1, <1>4, <1>5 DEF Entered, Closing, Taken, InHand
<1>7. \A h \in handles : h \in live' \ cloexec /\ \A fd \in Fds : given[fd] # h
  BY DEF FdInv, FdTypeOK, GivenHeld
<1>o. Leaves(t)
  <2>1. \A u \in Threads \ {t} : call'[u] = call[u]
    BY <1>1 DEF FdInv, FdTypeOK
  <2> QED BY <2>1 DEF FdInv, Apart, Leaves
<1>p. Apart(t)' /\ OthersTake(t)' = OthersTake(t) /\ OthersUse(t)' = OthersUse(t)
  <2>1. \A h \in Taken(call[t])' : h \notin OthersTake(t)
    BY <1>6 DEF FdInv, Apart
  <2> QED BY <1>6, <1>o, <2>1, ApartStays
<1>8. FdTypeOK'
  <2>1. call' \in [Threads -> Calls]
    BY <1>1 DEF FdInv, FdTypeOK
  <2> QED BY <2>1 DEF FdInv, FdTypeOK
<1>9. StandardStay' /\ GivenHeld' /\ StreamsOfFds'
  BY DEF FdInv, StandardStay, GivenHeld, StreamsOfFds
<1>10. TakenApart(call[t])'
  BY <1>1, <1>2, <1>6, <1>7 DEF TakenApart
<1>11. HandlesKnown(t)'
  BY <1>3, <1>6, <1>p DEF FdInv, HandlesKnown
<1>12. EntriesKnown(t)' /\ StaleApart(t)'
  BY <1>3, <1>6, <1>p DEF FdInv, EntriesKnown, StaleApart
<1> QED BY <1>8, <1>9, <1>10, <1>11, <1>12, <1>o, <1>p DEF FdInv

\* A free entry is found.
LEMMA ScanKeeps ==
    ASSUME NEW t \in Threads, FdInv(t), ~clobbered, Scan(t)
    PROVE  FdInv(t)' /\ Leaves(t)
<1> USE FdNumbers
<1>1. PICK c : c = call[t]
  OBVIOUS
<1>2. c \in Calls /\ c.op \in Pairs \cup {"one"} /\ c.slot = None
  BY <1>1 DEF Scan, FdInv, FdTypeOK
<1>3. PICK slot : slot = Lowest(Free(MinOf(c)))
  OBVIOUS
<1>4. MinOf(c) \in Nat /\ (c.op \in Pairs => MinOf(c) >= 3) /\ Free(MinOf(c)) # {}
  <2>1. c.op = "one" => c.min \in Minimums \cup {3}
    BY <1>2, CallFields, FdTableAssumption
  <2>2. \A min \in Minimums \cup {3} : min \in Nat
    BY FdTableAssumption
  <2>3. Free(MinOf(c)) # {}
    BY <1>1 DEF Scan
  <2> QED BY <2>1, <2>2, <2>3 DEF MinOf, Pairs
<1>5. slot \in Fds /\ (c.op \in Pairs => slot >= 3) /\ fdTable[slot] = 0
  <2>1. slot >= MinOf(c) /\ slot \in Fds /\ fdTable[slot] = 0
    BY <1>3, <1>4, LowestIsFree
  <2> QED BY <1>4, <2>1
<1>6. PICK d : d = [c EXCEPT !.slot = slot]
  OBVIOUS
<1>7. /\ d \in Calls /\ d.op = c.op /\ d.a = c.a /\ d.slot = slot
      /\ c.op \in Pairs => d.b = c.b /\ d.onB = c.onB /\ d.r = c.r
  <2>1. CASE c.op = "one"
    <3>1. c \in [op : {"one"}, min : Minimums \cup {3}, a : Handles, slot : Fds \cup {None}]
      BY <1>2, <2>1 DEF Calls, Idle, Pairs
    <3>2. /\ d \in [op : {"one"}, min : Minimums \cup {3}, a : Handles, slot : Fds \cup {None}]
          /\ d.op = c.op /\ d.a = c.a /\ d.slot = slot
      BY <1>5, <1>6, <3>1
    <3> QED BY <2>1, <3>2 DEF Calls, Pairs
  <2>2. CASE c.op \in Pairs
    <3>1. c \in [op : Pairs, a : Handles, b : Handles, onB : BOOLEAN,
                 r : Fds \cup {None}, slot : Fds \cup {None}]
      BY <1>2, <2>2 DEF Calls, Idle, Pairs
    <3>2. /\ d \in [op : Pairs, a : Handles, b : Handles, onB : BOOLEAN,
                    r : Fds \cup {None}, slot : Fds \cup {None}]
          /\ d.op = c.op /\ d.a = c.a /\ d.slot = slot /\ d.b = c.b /\ d.onB = c.onB /\ d.r = c.r
      BY <1>5, <1>6, <3>1
    <3> QED BY <3>2 DEF Calls
  <2> QED BY <1>2, <2>1, <2>2
<1>8. /\ call' = [call EXCEPT ![t] = d] /\ call'[t] = d
      /\ UNCHANGED <<fdTable, live, given, streams, lost, cloexec, stale, clobbered>>
  BY <1>1, <1>3, <1>6 DEF Scan, Does, FdInv, FdTypeOK
<1>9. /\ InHand(d) = InHand(c) /\ Entered(d) = Entered(c) /\ Closing(d) = {} /\ Closing(c) = {}
  <2>1. c.op # "close" /\ (c.op \notin Pairs => c.op = "one")
    BY <1>2 DEF Pairs
  <2>2. Closing(d) = {} /\ Closing(c) = {}
    BY <1>7, <2>1 DEF Closing
  <2>3. Entered(d) = Entered(c)
    BY <1>7 DEF Entered
  <2>4. InHand(d) = InHand(c)
    BY <1>7 DEF InHand
  <2> QED BY <2>2, <2>3, <2>4
<1>10. /\ Taken(call[t])' = Taken(c) /\ Entered(call[t])' = Entered(c) /\ Closing(call[t])' = {}
  BY <1>8, <1>9 DEF Taken, InHand, Entered, Closing
<1>o. Leaves(t)
  <2>1. \A u \in Threads \ {t} : call'[u] = call[u]
    BY <1>8 DEF FdInv, FdTypeOK
  <2> QED BY <1>8, <2>1 DEF FdInv, Apart, Leaves
<1>p. Apart(t)' /\ OthersTake(t)' = OthersTake(t) /\ OthersUse(t)' = OthersUse(t)
  <2>1. /\ \A h \in Taken(call[t])' : h \notin OthersTake(t)
        /\ \A fd \in Entered(call[t])' \cup Closing(call[t])' : fd \notin OthersUse(t)
    BY <1>1, <1>10 DEF FdInv, Apart
  <2> QED BY <1>o, <2>1, ApartStays
<1>11. FdTypeOK'
  BY <1>7, <1>8 DEF FdInv, FdTypeOK
<1>12. TakenApart(call[t])'
  BY <1>1, <1>5, <1>7, <1>8, <1>10 DEF FdInv, TakenApart
<1>13. HandlesKnown(t)' /\ EntriesKnown(t)' /\ StaleApart(t)'
  BY <1>1, <1>8, <1>9, <1>10, <1>p DEF FdInv, HandlesKnown, EntriesKnown, StaleApart
<1>14. StandardStay' /\ GivenHeld' /\ StreamsOfFds'
  BY <1>8 DEF FdInv, StandardStay, GivenHeld, StreamsOfFds
<1> QED BY <1>11, <1>12, <1>13, <1>14, <1>o, <1>p DEF FdInv

\* Which handles an exec will close is nothing to the table.
LEMMA CloexecKeeps ==
    ASSUME NEW t \in Threads, FdInv(t), ~clobbered, call[t] = Idle, cloexec' \subseteq live,
           \A h \in cloexec' : h \in cloexec \/ \E fd \in Fds : given[fd] = h,
           UNCHANGED <<fdTable, live, given, call, streams, lost, stale, clobbered>>
    PROVE  FdInv(t)' /\ Leaves(t)
<1>1. call'[t] = call[t] /\ Idle.op = "idle"
  BY DEF Idle
<1>2. /\ Entered(call[t]) = {} /\ Closing(call[t]) = {} /\ Taken(call[t]) = {}
      /\ Entered(call[t])' = {} /\ Closing(call[t])' = {} /\ Taken(call[t])' = {}
  <2>1. Entered(Idle) = {} /\ Closing(Idle) = {} /\ Taken(Idle) = {}
    BY <1>1, IdleTakesNothing
  <2>2. Taken(call[t])' = {}
    BY <1>1 DEF Taken, InHand, Entered, Pairs
  <2>3. Entered(call[t])' = {} /\ Closing(call[t])' = {}
    BY <1>1 DEF Entered, Closing, Pairs
  <2> QED BY <2>1, <2>2, <2>3
<1>o. Leaves(t)
  <2>1. \A h \in OthersTake(t) : h \in live' \ cloexec' /\ \A fd \in Fds : given'[fd] # h
    BY DEF FdInv, Apart
  <2> QED BY <2>1 DEF FdInv, Apart, Leaves
<1>p. Apart(t)' /\ OthersTake(t)' = OthersTake(t) /\ OthersUse(t)' = OthersUse(t)
  BY <1>2, <1>o, ApartStays
<1>3. FdTypeOK'
  BY DEF FdInv, FdTypeOK
<1>4. TakenApart(call[t])'
  BY <1>1, <1>2 DEF FdInv, TakenApart, Pairs
<1>5. HandlesKnown(t)' /\ EntriesKnown(t)' /\ StaleApart(t)'
  BY <1>2, <1>p DEF FdInv, HandlesKnown, EntriesKnown, StaleApart
<1>6. StandardStay' /\ GivenHeld' /\ StreamsOfFds'
  BY DEF FdInv, StandardStay, GivenHeld, StreamsOfFds
<1> QED BY <1>3, <1>4, <1>5, <1>6, <1>o, <1>p DEF FdInv

\* An fd becomes another's duplicate.
LEMMA DupKeeps ==
    ASSUME NEW t \in Threads, FdInv(t), ~clobbered, NEW fd \in Fds, NEW newfd \in Fds, Dup2(t, fd, newfd)
    PROVE  FdInv(t)' /\ (clobbered' \/ Leaves(t))
<1> USE FdNumbers
<1>1. PICK h \in IF fdTable[newfd] # 0 \/ newfd < 3
                 THEN {IF fdTable[newfd] = 0 THEN newfd ELSE fdTable[newfd]}
                 ELSE Handles \ live :
         /\ live' = live \cup ({h} \cap Handles)
         /\ fdTable' = [fdTable EXCEPT ![newfd] = h]
         /\ given' = [given EXCEPT ![newfd] = h]
         /\ cloexec' = cloexec \ {h}
  BY DEF Dup2
<1>2. call[t] = Idle /\ call'[t] = Idle /\ Idle.op = "idle" /\ UNCHANGED <<call, streams, lost>>
  BY DEF Dup2, Idle
<1>3. /\ InHand(call[t]) = {} /\ Entered(call[t]) = {} /\ Closing(call[t]) = {} /\ Taken(call[t]) = {}
  BY <1>2, IdleTakesNothing
<1>4. Entered(call[t])' = {} /\ Closing(call[t])' = {} /\ Taken(call[t])' = {}
  BY <1>2 DEF Taken, InHand, Entered, Closing, Pairs
<1>5. /\ \A g \in Fds : fdTable'[g] = IF g = newfd THEN h ELSE fdTable[g]
      /\ \A g \in Fds : given'[g] = IF g = newfd THEN h ELSE given[g]
  BY <1>1 DEF FdInv, FdTypeOK
<1>7. /\ stale' = stale \ {newfd} /\ clobbered' \in BOOLEAN
      /\ Misdirected(newfd) => clobbered'
      /\ ~Misdirected(newfd) => clobbered' = clobbered
  <2>1. clobbered' = (clobbered \/ Misdirected(newfd)) /\ stale' = stale \ {newfd}
    BY DEF Dup2
  <2>2. clobbered' \in BOOLEAN /\ (Misdirected(newfd) => clobbered')
    BY <2>1
  <2>3. ASSUME ~Misdirected(newfd) PROVE clobbered' = clobbered
    BY <2>1, <2>3 DEF FdInv, FdTypeOK
  <2> QED BY <2>1, <2>2, <2>3
<1>8. h \in Handles \cup {0, 1, 2}
  <2>1. CASE newfd < 3 /\ fdTable[newfd] = 0
    BY <1>1, <2>1
  <2>2. CASE fdTable[newfd] # 0
    BY <1>1, <2>2 DEF FdInv, FdTypeOK
  <2>3. CASE newfd >= 3 /\ fdTable[newfd] = 0
    BY <1>1, <2>3
  <2> QED BY <2>1, <2>2, <2>3
<1>9. FdTypeOK'
  <2>1. fdTable' \in [Fds -> Handles \cup {0, 1, 2}]
    BY <1>1, <1>8 DEF FdInv, FdTypeOK
  <2>2. given' \in [Fds -> Handles \cup {0, 1, 2, None}]
    BY <1>1, <1>8 DEF FdInv, FdTypeOK
  <2>3. live' \in SUBSET Handles /\ cloexec' \in SUBSET live'
    BY <1>1 DEF FdInv, FdTypeOK
  <2> QED BY <1>2, <1>7, <2>1, <2>2, <2>3 DEF FdInv, FdTypeOK
<1>10. CASE Misdirected(newfd)
  BY <1>7, <1>9, <1>10 DEF FdInv
<1>11. CASE ~Misdirected(newfd) /\ given[newfd] # None
  <2>1. fdTable[newfd] = given[newfd] /\ newfd \notin stale
    BY <1>11 DEF FdInv, GivenHeld, StaleApart
  <2>2. fdTable[newfd] = 0 => newfd = 0
    <3>1. newfd \notin {1, 2} \/ fdTable[newfd] # 0
      BY DEF FdInv, StandardStay
    <3>2. newfd >= 3 => given[newfd] # 0
      BY DEF FdInv, StandardStay
    <3> QED BY <2>1, <3>1, <3>2
  <2>3. h = fdTable[newfd]
    BY <1>1, <2>2
  <2>4. fdTable' = fdTable /\ given' = given
    BY <1>1, <2>1, <2>3 DEF FdInv, FdTypeOK
  <2>5. h \in Handles => h \in live
    BY <1>11, <2>1, <2>3 DEF FdInv, GivenHeld
  <2>6. live' = live /\ cloexec' \subseteq cloexec /\ cloexec' \subseteq live
    BY <1>1, <2>5 DEF FdInv, FdTypeOK
  <2>7. UNCHANGED stale
    BY <1>7, <2>1
  <2>8. UNCHANGED clobbered
    BY <1>7, <1>11
  <2> QED BY <1>2, <2>4, <2>6, <2>7, <2>8, CloexecKeeps
<1>12. CASE ~Misdirected(newfd) /\ given[newfd] = None
  <2>0. \A u \in Threads : call[u] = Idle
    BY <1>12 DEF Dup2
  <2>1. OthersTake(t) = {} /\ OthersUse(t) = {}
    BY <2>0, AllIdle
  <2>2. newfd \notin {1, 2} /\ (newfd = 0 => fdTable[newfd] # 0)
    BY <1>12 DEF FdInv, StandardStay
  <2>3. h \in Handles \ live
    <3>1. CASE fdTable[newfd] # 0
      <4>1. h = fdTable[newfd] /\ h \in Handles
        BY <1>1, <2>2, <3>1 DEF FdInv, StandardStay
      <4>2. h \notin live
        BY <1>12, <4>1 DEF Misdirected
      <4> QED BY <4>1, <4>2
    <3>2. CASE fdTable[newfd] = 0
      <4>1. newfd >= 3
        BY <2>2, <3>2
      <4> QED BY <1>1, <3>2, <4>1
    <3> QED BY <3>1, <3>2
  <2>4. live' = live \cup {h} /\ cloexec' = cloexec
    BY <1>1, <2>3 DEF FdInv, FdTypeOK
  <2>5. \A g \in Fds : given[g] # h
    BY <2>3 DEF FdInv, FdTypeOK, GivenHeld
  <2>o. Leaves(t)
    BY <1>2, <2>1 DEF Leaves
  <2>p. Apart(t)' /\ OthersTake(t)' = {} /\ OthersUse(t)' = {}
    BY <1>4, <2>1, <2>o, ApartStays
  <2>6. StandardStay'
    BY <1>5, <2>2, <2>3 DEF FdInv, StandardStay
  <2>7. GivenHeld'
    <3> SUFFICES ASSUME NEW g \in Fds, given'[g] # None
                 PROVE  /\ fdTable'[g] = given'[g]
                        /\ given'[g] \in live' \cup {0, 1, 2}
                        /\ \A other \in Fds \ {g} : given'[g] # given'[other]
      BY DEF GivenHeld
    <3>1. CASE g = newfd
      BY <1>5, <2>4, <2>5, <3>1
    <3>2. CASE g # newfd
      BY <1>5, <2>4, <2>5, <3>2 DEF FdInv, GivenHeld
    <3> QED BY <3>1, <3>2
  <2>8. TakenApart(call[t])'
    BY <1>2, <1>4 DEF TakenApart, Pairs
  <2>9. HandlesKnown(t)'
    <3> SUFFICES ASSUME NEW k \in live' PROVE (\E g \in Fds : given'[g] = k) \/ k \in lost
      BY <1>2 DEF HandlesKnown
    <3>1. CASE k = h
      BY <1>5, <3>1
    <3>2. CASE k \in live /\ \E g \in Fds : given[g] = k
      <4>1. PICK g \in Fds : given[g] = k
        BY <3>2
      <4>2. k # None
        BY <3>2 DEF FdInv, FdTypeOK
      <4>3. given'[g] = k
        BY <1>5, <1>12, <4>1, <4>2
      <4> QED BY <4>3
    <3> QED BY <1>3, <2>1, <2>4, <3>1, <3>2 DEF FdInv, HandlesKnown
  <2>10. EntriesKnown(t)'
    <3> SUFFICES ASSUME NEW g \in Fds, fdTable'[g] # 0, given'[g] = None PROVE g \in stale'
      BY DEF EntriesKnown
    <3>1. g # newfd
      BY <1>5, <2>3
    <3>2. g \in stale
      BY <1>3, <1>5, <2>1, <3>1 DEF FdInv, EntriesKnown
    <3> QED BY <1>7, <3>1, <3>2
  <2>11. StaleApart(t)'
    BY <1>4, <1>5, <1>7, <2>p DEF FdInv, FdTypeOK, StaleApart
  <2>12. StreamsOfFds'
    BY <1>2, <1>5, <2>3 DEF FdInv, FdTypeOK, StreamsOfFds
  <2> QED BY <1>9, <2>6, <2>7, <2>8, <2>9, <2>10, <2>11, <2>12, <2>o, <2>p DEF FdInv
<1> QED BY <1>10, <1>11, <1>12

\* An fd is closed, or the kernel refuses and only its directory goes.
LEMMA CloseKeeps ==
    ASSUME NEW t \in Threads, FdInv(t), ~clobbered, NEW fd \in Fds, CloseFd(t, fd)
    PROVE  FdInv(t)' /\ (clobbered' \/ Leaves(t))
<1> USE FdNumbers
<1>1. call[t] = Idle /\ Idle.op = "idle"
  BY DEF CloseFd, Idle
<1>2. streams' = streams \ {fd} /\ UNCHANGED <<fdTable, lost, stale>>
  BY DEF CloseFd
<1>3. /\ InHand(call[t]) = {} /\ Entered(call[t]) = {} /\ Closing(call[t]) = {} /\ Taken(call[t]) = {}
  BY <1>1, IdleTakesNothing
<1>4. CASE UNCHANGED <<live, call, given, cloexec, clobbered>>
  <2>1. Entered(call[t])' = {} /\ Closing(call[t])' = {} /\ Taken(call[t])' = {}
    BY <1>1, <1>4 DEF Taken, InHand, Entered, Closing, Pairs
  <2>o. Leaves(t)
    BY <1>2, <1>4 DEF FdInv, Apart, Leaves
  <2>p. Apart(t)' /\ OthersTake(t)' = OthersTake(t) /\ OthersUse(t)' = OthersUse(t)
    BY <2>1, <2>o, ApartStays
  <2>2. FdTypeOK'
    BY <1>2, <1>4 DEF FdInv, FdTypeOK
  <2>3. TakenApart(call[t])'
    BY <1>1, <1>4, <2>1 DEF TakenApart, Pairs
  <2>4. HandlesKnown(t)' /\ EntriesKnown(t)' /\ StaleApart(t)'
    BY <1>2, <1>3, <1>4, <2>1, <2>p DEF FdInv, HandlesKnown, EntriesKnown, StaleApart
  <2>5. StandardStay' /\ GivenHeld' /\ StreamsOfFds'
    BY <1>2, <1>4 DEF FdInv, StandardStay, GivenHeld, StreamsOfFds
  <2> QED BY <2>2, <2>3, <2>4, <2>5, <2>o, <2>p DEF FdInv
<1>5. CASE /\ fd >= 3 /\ fdTable[fd] \in live
           /\ live' = live \ {fdTable[fd]}
           /\ cloexec' = cloexec \ {fdTable[fd]}
           /\ Does(t, [op |-> "close", fd |-> fd])
           /\ given' = [given EXCEPT ![fd] = None]
           /\ clobbered' = (clobbered \/ Misdirected(fd))
  <2>1. PICK d : d = [op |-> "close", fd |-> fd]
    OBVIOUS
  <2>2. d \in Calls /\ d.op = "close" /\ d.fd = fd /\ d.op \notin Pairs \cup {"one"}
    BY <2>1 DEF Calls, Pairs
  <2>3. call' = [call EXCEPT ![t] = d] /\ call'[t] = d
    BY <1>5, <2>1 DEF Does, FdInv, FdTypeOK
  <2>4. Entered(call[t])' = {} /\ Closing(call[t])' = {fd} /\ Taken(call[t])' = {}
    BY <2>2, <2>3 DEF Taken, InHand, Entered, Closing
  <2>5. \A g \in Fds : given'[g] = IF g = fd THEN None ELSE given[g]
    BY <1>5 DEF FdInv, FdTypeOK
  <2>6. clobbered' \in BOOLEAN /\ (Misdirected(fd) => clobbered')
    BY <1>5
  <2>7. FdTypeOK'
    <3>1. given' \in [Fds -> Handles \cup {0, 1, 2, None}]
      BY <1>5 DEF FdInv, FdTypeOK
    <3>2. call' \in [Threads -> Calls]
      BY <2>2, <2>3 DEF FdInv, FdTypeOK
    <3>3. live' \in SUBSET Handles /\ cloexec' \in SUBSET live'
      BY <1>5 DEF FdInv, FdTypeOK
    <3> QED BY <1>2, <2>6, <3>1, <3>2, <3>3 DEF FdInv, FdTypeOK
  <2>8. CASE Misdirected(fd)
    BY <2>6, <2>7, <2>8 DEF FdInv
  <2>9. CASE ~Misdirected(fd)
    <3>1. /\ fdTable[fd] = given[fd] /\ fdTable[fd] \in Handles
          /\ \A g \in Fds \ {fd} : given[g] # fdTable[fd]
      <4>1. given[fd] = fdTable[fd]
        BY <1>5, <2>9 DEF Misdirected
      <4>2. fdTable[fd] \in Handles
        BY <1>5 DEF FdInv, FdTypeOK
      <4> QED BY <4>1, <4>2 DEF FdInv, GivenHeld
    <3>o. Leaves(t)
      <4>1. \A u \in Threads \ {t} : call'[u] = call[u]
        BY <2>3 DEF FdInv, FdTypeOK
      <4>2. \A g \in OthersUse(t) : fdTable'[g] = fdTable[g] /\ given'[g] = None
        BY <1>2, <2>5 DEF FdInv, Apart
      <4>3. ASSUME NEW h \in OthersTake(t)
            PROVE  h \in live' \ cloexec' /\ \A g \in Fds : given'[g] # h
        <5>1. h \in live \ cloexec /\ \A g \in Fds : given[g] # h
          BY DEF FdInv, Apart
        <5>2. h # None
          BY <5>1 DEF FdInv, FdTypeOK
        <5> QED BY <1>5, <2>5, <3>1, <5>1, <5>2
      <4> QED BY <4>1, <4>2, <4>3 DEF Leaves
    <3>p. Apart(t)' /\ OthersTake(t)' = OthersTake(t) /\ OthersUse(t)' = OthersUse(t)
      <4>1. fd \notin OthersUse(t)
        BY <3>1 DEF FdInv, Apart
      <4> QED BY <2>4, <3>o, <4>1, ApartStays
    <3>2. StandardStay'
      BY <1>2, <1>5, <2>5 DEF FdInv, StandardStay
    <3>3. GivenHeld'
      <4> SUFFICES ASSUME NEW g \in Fds, given'[g] # None
                   PROVE  /\ fdTable'[g] = given'[g]
                          /\ given'[g] \in live' \cup {0, 1, 2}
                          /\ \A other \in Fds \ {g} : given'[g] # given'[other]
        BY DEF GivenHeld
      <4>1. g # fd /\ given'[g] = given[g]
        BY <2>5
      <4>2. given[g] # fdTable[fd] /\ given[g] \in live \cup {0, 1, 2} /\ fdTable[g] = given[g]
        BY <3>1, <4>1 DEF FdInv, GivenHeld
      <4>3. ASSUME NEW other \in Fds \ {g} PROVE given[g] # given'[other]
        BY <2>5, <4>1 DEF FdInv, GivenHeld
      <4> QED BY <1>2, <1>5, <4>1, <4>2, <4>3
    <3>4. TakenApart(call[t])'
      <4>1. fdTable'[fd] # 0 /\ given'[fd] = None
        BY <1>2, <2>5, <3>1
      <4> QED BY <1>5, <2>2, <2>3, <2>4, <4>1 DEF TakenApart
    <3>5. HandlesKnown(t)'
      <4> SUFFICES ASSUME NEW h \in live' PROVE (\E g \in Fds : given'[g] = h) \/ h \in lost \cup OthersTake(t)
        BY <1>2, <3>p DEF HandlesKnown
      <4>1. h \in live /\ h # fdTable[fd]
        BY <1>5
      <4>2. CASE \E g \in Fds : given[g] = h
        <5>1. PICK g \in Fds : given[g] = h
          BY <4>2
        <5>2. g # fd
          BY <3>1, <4>1, <5>1
        <5> QED BY <2>5, <5>1, <5>2
      <4> QED BY <1>3, <4>1, <4>2 DEF FdInv, HandlesKnown
    <3>6. EntriesKnown(t)'
      BY <1>2, <1>3, <2>4, <2>5, <3>p DEF FdInv, EntriesKnown
    <3>7. StaleApart(t)'
      <4> SUFFICES ASSUME NEW g \in stale
                   PROVE  fdTable[g] # 0 /\ given'[g] = None /\ g # fd /\ g \notin OthersUse(t)
        BY <1>2, <2>4, <3>p DEF StaleApart
      <4>1. g \in Fds /\ fdTable[g] # 0 /\ given[g] = None /\ g \notin OthersUse(t)
        BY DEF FdInv, FdTypeOK, StaleApart
      <4> QED BY <2>5, <3>1, <4>1
    <3>8. StreamsOfFds'
      BY <1>2, <2>5 DEF FdInv, FdTypeOK, StreamsOfFds
    <3> QED BY <2>7, <3>2, <3>3, <3>4, <3>5, <3>6, <3>7, <3>8, <3>o, <3>p DEF FdInv
  <2> QED BY <2>8, <2>9
<1> QED BY <1>4, <1>5 DEF CloseFd

\* The entry of an fd that was closed is cleared.
LEMMA ClearKeeps ==
    ASSUME NEW t \in Threads, FdInv(t), ~clobbered, CloseClears(t)
    PROVE  FdInv(t)' /\ Leaves(t)
<1> USE FdNumbers
<1>1. PICK c : c = call[t]
  OBVIOUS
<1>2. c \in Calls /\ c.op = "close" /\ c.op \notin Pairs \cup {"one"}
  BY <1>1 DEF CloseClears, FdInv, FdTypeOK, Pairs
<1>3. PICK fd : fd = c.fd
  OBVIOUS
<1>4. fd \in Fds
  BY <1>2, <1>3, CallFields, FdTableAssumption
<1>5. /\ Entered(c) = {} /\ Closing(c) = {fd} /\ Taken(c) = {}
  BY <1>2, <1>3, <1>4 DEF Taken, InHand, Entered, Closing
<1>6. fd >= 3 /\ given[fd] = None
  BY <1>1, <1>5 DEF FdInv, TakenApart
<1>7. /\ fdTable' = [fdTable EXCEPT ![fd] = 0] /\ stale' = stale \ {fd}
      /\ call' = [call EXCEPT ![t] = Idle]
      /\ UNCHANGED <<live, given, streams, lost, cloexec, clobbered>>
  BY <1>1, <1>3 DEF CloseClears, Does
<1>8. call'[t] = Idle /\ Idle.op = "idle"
  BY <1>7 DEF FdInv, FdTypeOK, Idle
<1>9. Entered(call[t])' = {} /\ Closing(call[t])' = {} /\ Taken(call[t])' = {}
  BY <1>8 DEF Taken, InHand, Entered, Closing, Pairs
<1>10. \A g \in Fds : fdTable'[g] = IF g = fd THEN 0 ELSE fdTable[g]
  BY <1>7 DEF FdInv, FdTypeOK
<1>o. Leaves(t)
  <2>1. \A u \in Threads \ {t} : call'[u] = call[u]
    BY <1>7 DEF FdInv, FdTypeOK
  <2>2. \A g \in OthersUse(t) : g \in Fds /\ g # fd /\ given[g] = None
    BY <1>1, <1>5 DEF FdInv, Apart
  <2>3. \A g \in OthersUse(t) : fdTable'[g] = fdTable[g] /\ given'[g] = None
    BY <1>7, <1>10, <2>2
  <2>4. \A h \in OthersTake(t) : h \in live' \ cloexec' /\ \A g \in Fds : given'[g] # h
    BY <1>7 DEF FdInv, Apart
  <2> QED BY <2>1, <2>3, <2>4 DEF Leaves
<1>p. Apart(t)' /\ OthersTake(t)' = OthersTake(t) /\ OthersUse(t)' = OthersUse(t)
  BY <1>9, <1>o, ApartStays
<1>11. FdTypeOK'
  <2>1. fdTable' \in [Fds -> Handles \cup {0, 1, 2}]
    BY <1>7 DEF FdInv, FdTypeOK
  <2>2. call' \in [Threads -> Calls]
    BY <1>7 DEF FdInv, FdTypeOK, Calls
  <2> QED BY <1>7, <2>1, <2>2 DEF FdInv, FdTypeOK
<1>12. StandardStay'
  BY <1>6, <1>7, <1>10 DEF FdInv, StandardStay
<1>13. GivenHeld'
  <2> SUFFICES ASSUME NEW g \in Fds, given[g] # None PROVE fdTable'[g] = given[g]
    BY <1>7 DEF FdInv, GivenHeld
  <2>1. g # fd
    BY <1>6
  <2> QED BY <1>10, <2>1 DEF FdInv, GivenHeld
<1>14. TakenApart(call[t])'
  BY <1>8, <1>9 DEF TakenApart, Pairs
<1>15. HandlesKnown(t)'
  BY <1>1, <1>5, <1>7, <1>9, <1>p DEF FdInv, HandlesKnown
<1>16. EntriesKnown(t)'
  BY <1>1, <1>5, <1>7, <1>10, <1>p DEF FdInv, EntriesKnown
<1>17. StaleApart(t)'
  BY <1>7, <1>9, <1>10, <1>p DEF FdInv, FdTypeOK, StaleApart
<1>18. StreamsOfFds'
  BY <1>7 DEF FdInv, StreamsOfFds
<1> QED BY <1>11, <1>12, <1>13, <1>14, <1>15, <1>16, <1>17, <1>18, <1>o, <1>p DEF FdInv

\* An exec takes from the program the fds whose handles the kernel closes.
LEMMA ExecveKeeps ==
    ASSUME NEW t \in Threads, FdInv(t), ~clobbered, Execve(t)
    PROVE  FdInv(t)' /\ Leaves(t)
<1> USE FdNumbers
<1>1. call[t] = Idle /\ Idle.op = "idle"
  BY DEF Execve, Idle
<1>2. /\ live' = live \ cloexec
      /\ given' = [fd \in Fds |-> IF given[fd] \in cloexec THEN None ELSE given[fd]]
      /\ stale' = stale \cup {fd \in Fds : fdTable[fd] \in cloexec}
      /\ streams' = {} /\ cloexec' = {}
      /\ UNCHANGED <<fdTable, call, lost, clobbered>>
  BY DEF Execve
<1>3. /\ InHand(call[t]) = {} /\ Entered(call[t]) = {} /\ Closing(call[t]) = {} /\ Taken(call[t]) = {}
  BY <1>1, IdleTakesNothing
<1>4. Entered(call[t])' = {} /\ Closing(call[t])' = {} /\ Taken(call[t])' = {}
  BY <1>1, <1>2 DEF Taken, InHand, Entered, Closing, Pairs
<1>a. OthersTake(t) = {} /\ OthersUse(t) = {}
  BY AllIdle DEF Execve
<1>o. Leaves(t)
  BY <1>2, <1>a DEF Leaves
<1>p. Apart(t)' /\ OthersTake(t)' = {} /\ OthersUse(t)' = {}
  BY <1>4, <1>a, <1>o, ApartStays
<1>5. \A fd \in Fds : given'[fd] = IF given[fd] \in cloexec THEN None ELSE given[fd]
  BY <1>2
<1>6. cloexec \subseteq Handles /\ cloexec \subseteq live
  BY DEF FdInv, FdTypeOK
<1>7. FdTypeOK'
  <2>1. given' \in [Fds -> Handles \cup {0, 1, 2, None}]
    BY <1>2 DEF FdInv, FdTypeOK
  <2>2. live' \in SUBSET Handles /\ streams' \in SUBSET Fds /\ cloexec' \in SUBSET live' /\ stale' \in SUBSET Fds
    BY <1>2 DEF FdInv, FdTypeOK
  <2>3. UNCHANGED <<fdTable, call, lost, clobbered>>
    BY <1>2
  <2> QED BY <2>1, <2>2, <2>3 DEF FdInv, FdTypeOK
<1>8. StandardStay'
  BY <1>2, <1>5, <1>6 DEF FdInv, StandardStay
<1>9. GivenHeld'
  <2> SUFFICES ASSUME NEW fd \in Fds, given'[fd] # None
               PROVE  /\ fdTable'[fd] = given'[fd]
                      /\ given'[fd] \in live' \cup {0, 1, 2}
                      /\ \A other \in Fds \ {fd} : given'[fd] # given'[other]
    BY DEF GivenHeld
  <2>1. given'[fd] = given[fd] /\ given[fd] \notin cloexec
    BY <1>5
  <2>2. ASSUME NEW other \in Fds \ {fd} PROVE given[fd] # given'[other]
    BY <1>5, <2>1 DEF FdInv, GivenHeld
  <2> QED BY <1>2, <2>1, <2>2 DEF FdInv, GivenHeld
<1>10. TakenApart(call[t])'
  BY <1>1, <1>2, <1>4 DEF TakenApart, Pairs
<1>11. HandlesKnown(t)'
  <2> SUFFICES ASSUME NEW h \in live' PROVE (\E fd \in Fds : given'[fd] = h) \/ h \in lost
    BY <1>2 DEF HandlesKnown
  <2>1. h \in live /\ h \notin cloexec
    BY <1>2
  <2>2. CASE \E fd \in Fds : given[fd] = h
    BY <1>5, <2>1, <2>2
  <2> QED BY <1>3, <1>a, <2>1, <2>2 DEF FdInv, HandlesKnown
<1>12. EntriesKnown(t)'
  <2> SUFFICES ASSUME NEW fd \in Fds, fdTable[fd] # 0, given'[fd] = None PROVE fd \in stale'
    BY <1>2 DEF EntriesKnown
  <2>1. CASE given[fd] = None
    BY <1>2, <1>3, <1>a, <2>1 DEF FdInv, EntriesKnown
  <2>2. CASE given[fd] # None
    <3>1. given[fd] \in cloexec /\ fdTable[fd] = given[fd]
      BY <1>5, <2>2 DEF FdInv, GivenHeld
    <3> QED BY <1>2, <3>1
  <2> QED BY <2>1, <2>2
<1>13. StaleApart(t)'
  <2> SUFFICES ASSUME NEW fd \in stale' PROVE fdTable[fd] # 0 /\ given'[fd] = None
    BY <1>2, <1>4, <1>p DEF StaleApart
  <2>1. fd \in Fds
    BY <1>2 DEF FdInv, FdTypeOK
  <2>2. CASE fd \in stale
    BY <1>5, <2>1, <2>2 DEF FdInv, StaleApart
  <2>3. CASE fdTable[fd] \in cloexec
    <3>1. fdTable[fd] # 0
      BY <1>6, <2>3
    <3>2. CASE given[fd] = None
      BY <1>5, <2>1, <3>1, <3>2
    <3>3. CASE given[fd] # None
      <4>1. fdTable[fd] = given[fd]
        BY <2>1, <3>3 DEF FdInv, GivenHeld
      <4> QED BY <1>5, <2>1, <2>3, <3>1, <4>1
    <3> QED BY <3>1, <3>2, <3>3
  <2> QED BY <1>2, <2>1, <2>2, <2>3
<1>14. StreamsOfFds'
  BY <1>2 DEF StreamsOfFds
<1> QED BY <1>7, <1>8, <1>9, <1>10, <1>11, <1>12, <1>13, <1>14, <1>o, <1>p DEF FdInv

\* Whatever entry a handle is stored into, every variable has its values.
LEMMA RegisteredTypes ==
    ASSUME NEW t \in Threads, FdTypeOK, NEW c \in Calls, c = call[t], c.op \in Pairs \cup {"one"},
           NEW fd \in Fds, NEW table \in [Fds -> Handles \cup {0, 1, 2}],
           Registered(t, table, fd), streams' = streams, stale' = stale, clobbered' \in BOOLEAN
    PROVE  FdTypeOK'
<1> USE FdNumbers
<1>f. /\ c.a \in Handles /\ c.op \in {"one", "pipe", "socketpair", "recv"}
      /\ c.op # "one" => c.b \in Handles /\ c.onB \in BOOLEAN /\ c.r \in Fds \cup {None} /\ c.op \in Pairs
  BY CallFields, FdTableAssumption DEF Pairs
<1>1. ASSUME NEW cleared, NEW closed, NEW left \in SUBSET Handles, NEW new,
             End(t, table, cleared, closed, left, new)
      PROVE  FdTypeOK'
  <2>1. fdTable' \in [Fds -> Handles \cup {0, 1, 2}]
    BY <1>1 DEF End
  <2>2. given' \in [Fds -> Handles \cup {0, 1, 2, None}]
    BY <1>1, <2>1 DEF End, FdTypeOK
  <2>3. call' \in [Threads -> Calls]
    BY <1>1 DEF End, Does, FdTypeOK, Calls
  <2>4. live' \in SUBSET Handles /\ lost' \in SUBSET Handles /\ cloexec' \in SUBSET live'
    BY <1>1 DEF End, FdTypeOK
  <2> QED BY <2>1, <2>2, <2>3, <2>4 DEF FdTypeOK
<1>2. ASSUME c.op # "one", fdTable' = table, live' = live, UNCHANGED <<given, lost, cloexec>>,
             Does(t, [c EXCEPT !.onB = TRUE, !.r = fd, !.slot = None])
      PROVE  FdTypeOK'
  <2>1. PICK d : d = [c EXCEPT !.onB = TRUE, !.r = fd, !.slot = None]
    OBVIOUS
  <2>2. c \in [op : Pairs, a : Handles, b : Handles, onB : BOOLEAN,
               r : Fds \cup {None}, slot : Fds \cup {None}]
    BY <1>2, <1>f DEF Calls, Idle, Pairs
  <2>3. d \in Calls
    <3>1. d \in [op : Pairs, a : Handles, b : Handles, onB : BOOLEAN,
                 r : Fds \cup {None}, slot : Fds \cup {None}]
      BY <2>1, <2>2
    <3> QED BY <3>1 DEF Calls
  <2>4. call' \in [Threads -> Calls]
    BY <1>2, <2>1, <2>3 DEF Does, FdTypeOK
  <2> QED BY <1>2, <2>4 DEF FdTypeOK
<1>3. CASE OneRegistered(t, table, fd)
  <2>1. {} \in SUBSET Handles
    OBVIOUS
  <2> QED BY <1>1, <1>3, <2>1 DEF OneRegistered
<1>4. CASE PipeRegistered(t, table, fd)
  <2>1. CASE ~c.onB /\ GoOn(t, table, [c EXCEPT !.onB = TRUE, !.r = fd, !.slot = None]) /\ c.op = "pipe"
    BY <1>2, <2>1 DEF GoOn
  <2>2. CASE End(t, table, {}, {}, {}, {c.r, fd})
    <3>1. {} \in SUBSET Handles
      OBVIOUS
    <3> QED BY <1>1, <2>2, <3>1
  <2>3. ASSUME NEW closed, End(t, table, Got(c.r) \cup Got(fd), closed, {c.a, c.b} \ closed, {}), c.op = "pipe"
        PROVE  FdTypeOK'
    <3>1. {c.a, c.b} \ closed \in SUBSET Handles
      BY <1>f, <2>3
    <3> QED BY <1>1, <2>3, <3>1
  <2> QED BY <1>4, <2>1, <2>2, <2>3 DEF PipeRegistered
<1>5. CASE SocketpairRegistered(t, table, fd)
  <2>0. c.op = "socketpair" /\ fd # None /\ {} \in SUBSET Handles
    BY <1>5 DEF SocketpairRegistered
  <2>1. CASE GoOn(t, table, [c EXCEPT !.onB = TRUE, !.r = fd, !.slot = None])
    BY <1>2, <2>0, <2>1 DEF GoOn
  <2>2. CASE End(t, table, {}, {}, {}, {c.r, fd})
    BY <1>1, <2>0, <2>2
  <2> QED BY <1>5, <2>0, <2>1, <2>2 DEF SocketpairRegistered
<1>6. CASE RecvRegistered(t, table, fd)
  <2>0. c.op = "recv" /\ fd # None /\ {} \in SUBSET Handles
    BY <1>6 DEF RecvRegistered
  <2>1. CASE ~c.onB
    <3>1. /\ fdTable' = table /\ live' = live \ {} /\ UNCHANGED <<given, lost, cloexec>>
          /\ Does(t, [c EXCEPT !.onB = TRUE, !.r = fd, !.slot = None])
      BY <1>6, <2>0, <2>1 DEF RecvRegistered
    <3>2. live' = live
      BY <3>1
    <3> QED BY <1>2, <2>0, <3>1, <3>2
  <2>2. CASE c.onB
    <3>1. End(t, table, {}, IF fd = None THEN {HandleOf(c)} ELSE {}, {}, Got(c.r) \cup Got(fd))
      BY <1>6, <2>2 DEF RecvRegistered
    <3> QED BY <1>1, <2>0, <3>1
  <2> QED BY <1>f, <2>0, <2>1, <2>2
<1> QED BY <1>3, <1>4, <1>5, <1>6 DEF Registered

\* What one call of one thread does to the table and the kernel's handles.
LEMMA StepKeeps ==
    ASSUME NEW t \in Threads, FdInv(t), ~clobbered, \A fd \in FoundBy(call[t]) : fdTable[fd] = 0,
           \/ BeginOne(t) \/ BeginPair(t) \/ Scan(t) \/ Store(t) \/ Full(t) \/ CloseClears(t) \/ Execve(t)
           \/ \E fd \in Fds : CloseFd(t, fd) \/ ReadEntries(t, fd) \/ SetCloexec(t, fd) \/ Ioctl(t, fd)
           \/ \E fd, newfd \in Fds : Dup2(t, fd, newfd)
    PROVE  FdInv(t)' /\ (clobbered' \/ Leaves(t))
<1> USE FdNumbers
<1>1. CASE BeginOne(t)
  <2>1. PICK h \in Handles \ live, min \in Minimums \cup {3} :
          /\ live' = live \cup {h}
          /\ Does(t, [op |-> "one", min |-> min, a |-> h, slot |-> None])
    BY <1>1 DEF BeginOne
  <2>2. PICK c, handles : /\ c = [op |-> "one", min |-> min, a |-> h, slot |-> None] /\ handles = {h}
    OBVIOUS
  <2>3. /\ c \in Calls /\ c.op = "one" /\ c.op \notin Pairs /\ c.a = h /\ c.slot = None
        /\ handles \in SUBSET (Handles \ live)
        /\ handles = IF c.op = "one" THEN {c.a} ELSE {c.a, c.b}
    BY <2>2 DEF Calls, Pairs
  <2>4. /\ live' = live \cup handles /\ Does(t, c) /\ call[t] = Idle
        /\ UNCHANGED <<fdTable, given, streams, lost, cloexec, stale, clobbered>>
    BY <1>1, <2>1, <2>2 DEF BeginOne
  <2> QED BY <2>3, <2>4, BeginKeepsFds
<1>2. CASE BeginPair(t)
  <2>1. PICK op \in Pairs, h \in Handles \ live, k \in Handles \ live :
          /\ h # k
          /\ live' = live \cup {h, k}
          /\ Does(t, [op |-> op, a |-> h, b |-> k, onB |-> FALSE, r |-> None, slot |-> None])
    BY <1>2 DEF BeginPair
  <2>2. PICK c, handles :
          /\ c = [op |-> op, a |-> h, b |-> k, onB |-> FALSE, r |-> None, slot |-> None]
          /\ handles = {h, k}
    OBVIOUS
  <2>3. /\ c \in Calls /\ c.op = op /\ c.a = h /\ c.b = k /\ c.onB = FALSE /\ c.slot = None
        /\ handles \in SUBSET (Handles \ live)
    BY <2>2 DEF Calls
  <2>4. handles = IF c.op = "one" THEN {c.a} ELSE {c.a, c.b}
    BY <2>2, <2>3 DEF Pairs
  <2>5. /\ live' = live \cup handles /\ Does(t, c) /\ call[t] = Idle
        /\ UNCHANGED <<fdTable, given, streams, lost, cloexec, stale, clobbered>>
    BY <1>2, <2>1, <2>2 DEF BeginPair
  <2> QED BY <2>1, <2>3, <2>4, <2>5, BeginKeepsFds
<1>3. CASE Scan(t)
  BY <1>3, ScanKeeps
<1>4. CASE Store(t)
  <2>1. PICK c, table : c = call[t] /\ table = [fdTable EXCEPT ![c.slot] = HandleOf(c)]
    OBVIOUS
  <2>2. c \in Calls /\ c.op \in Pairs \cup {"one"} /\ c.slot # None
    BY <1>4, <2>1 DEF Store, FdInv, FdTypeOK
  <2>3. c.slot \in Fds
    BY <2>2, CallFields, FdTableAssumption
  <2>4. /\ Registered(t, table, c.slot) /\ UNCHANGED <<streams, stale>>
        /\ clobbered' = (clobbered \/ \E u \in Threads \ {t} : FoundBy(call[u]) = {c.slot})
    BY <1>4, <2>1 DEF Store
  <2>5. CASE ~clobbered'
    <3>1. c.op \in Pairs => c.slot >= 3
      BY <2>1, <2>2 DEF FdInv, TakenApart
    <3>2. table = IF c.slot = None THEN fdTable ELSE [fdTable EXCEPT ![c.slot] = HandleOf(c)]
      BY <2>1, <2>2
    <3>3. clobbered' = clobbered
      BY <2>4, <2>5 DEF FdInv, FdTypeOK
    <3>4. fdTable[c.slot] = 0
      BY <2>1, <2>2, <2>3 DEF FoundBy
    <3> QED BY <2>1, <2>2, <2>3, <2>4, <3>1, <3>2, <3>3, <3>4, RegisteredKeeps
  <2>6. CASE clobbered'
    <3>1. HandleOf(c) \in Handles
      BY <2>2, CallFields, FdTableAssumption DEF HandleOf
    <3>2. table \in [Fds -> Handles \cup {0, 1, 2}]
      BY <2>1, <2>3, <3>1 DEF FdInv, FdTypeOK
    <3>3. clobbered' \in BOOLEAN
      BY <2>4
    <3>4. FdTypeOK
      BY DEF FdInv
    <3>5. FdTypeOK'
      BY <2>1, <2>2, <2>3, <2>4, <3>2, <3>3, <3>4, RegisteredTypes
    <3> QED BY <2>6, <3>5 DEF FdInv
  <2> QED BY <2>5, <2>6
<1>5. CASE Full(t)
  <2>1. PICK c : c = call[t]
    OBVIOUS
  <2>2. c \in Calls /\ c.op \in Pairs \cup {"one"}
    BY <1>5, <2>1 DEF Full, FdInv, FdTypeOK
  <2>3. Registered(t, fdTable, None) /\ UNCHANGED <<streams, stale, clobbered>>
    BY <1>5 DEF Full
  <2>4. PICK fd \in Fds \cup {None} : fd = None
    OBVIOUS
  <2>5. /\ Registered(t, fdTable, fd)
        /\ fdTable = IF fd = None THEN fdTable ELSE [fdTable EXCEPT ![fd] = HandleOf(c)]
    BY <2>3, <2>4
  <2> QED BY <2>1, <2>2, <2>3, <2>4, <2>5, RegisteredKeeps
<1>6. CASE CloseClears(t)
  BY <1>6, ClearKeeps
<1>7. CASE Execve(t)
  BY <1>7, ExecveKeeps
<1>8. ASSUME NEW fd \in Fds, CloseFd(t, fd) PROVE FdInv(t)' /\ (clobbered' \/ Leaves(t))
  BY <1>8, CloseKeeps
<1>9. ASSUME NEW fd \in Fds, ReadEntries(t, fd) PROVE FdInv(t)' /\ (clobbered' \/ Leaves(t))
  <2>1. /\ streams' = streams \cup {fd} /\ fdTable[fd] \in live /\ call[t] = Idle
        /\ clobbered' = (clobbered \/ Misdirected(fd))
        /\ UNCHANGED <<fdTable, live, given, call, lost, cloexec, stale>>
    BY <1>9 DEF ReadEntries
  <2>2. FdTypeOK'
    <3>1. clobbered' \in BOOLEAN
      BY <2>1
    <3> QED BY <2>1, <3>1 DEF FdInv, FdTypeOK
  <2>3. CASE Misdirected(fd)
    BY <2>1, <2>2, <2>3 DEF FdInv
  <2>4. CASE ~Misdirected(fd)
    <3>1. given[fd] # None
      BY <2>1, <2>4 DEF Misdirected, FdInv, FdTypeOK
    <3>o. Leaves(t)
      BY <2>1 DEF FdInv, Apart, Leaves
    <3>2. Idle.op = "idle" /\ call'[t] = Idle
      BY <2>1 DEF Idle
    <3>3. /\ Entered(call[t]) = {} /\ Closing(call[t]) = {} /\ Taken(call[t]) = {}
          /\ Entered(call[t])' = {} /\ Closing(call[t])' = {} /\ Taken(call[t])' = {}
      BY <2>1, <3>2 DEF Taken, InHand, Entered, Closing, Pairs
    <3>p. Apart(t)' /\ OthersTake(t)' = OthersTake(t) /\ OthersUse(t)' = OthersUse(t)
      BY <3>3, <3>o, ApartStays
    <3>4. StreamsOfFds'
      BY <2>1, <3>1 DEF FdInv, StreamsOfFds
    <3>5. StandardStay' /\ GivenHeld' /\ TakenApart(call[t])' /\ HandlesKnown(t)'
      BY <2>1, <3>2, <3>3, <3>p DEF FdInv, StandardStay, GivenHeld, TakenApart, HandlesKnown, Pairs
    <3>6. EntriesKnown(t)' /\ StaleApart(t)'
      BY <2>1, <3>3, <3>p DEF FdInv, EntriesKnown, StaleApart
    <3> QED BY <2>2, <3>4, <3>5, <3>6, <3>o, <3>p DEF FdInv
  <2> QED BY <2>3, <2>4
<1>10. ASSUME NEW fd \in Fds, SetCloexec(t, fd) PROVE FdInv(t)' /\ (clobbered' \/ Leaves(t))
  <2>1. /\ call[t] = Idle /\ fdTable[fd] \in live /\ cloexec' = cloexec \cup {fdTable[fd]}
        /\ clobbered' = (clobbered \/ Misdirected(fd))
        /\ UNCHANGED <<fdTable, live, given, call, streams, lost, stale>>
    BY <1>10 DEF SetCloexec
  <2>2. cloexec' \subseteq live
    BY <2>1 DEF FdInv, FdTypeOK
  <2>3. CASE Misdirected(fd)
    <3>1. clobbered' /\ clobbered' \in BOOLEAN
      BY <2>1, <2>3
    <3> QED BY <2>1, <2>2, <3>1 DEF FdInv, FdTypeOK
  <2>4. CASE ~Misdirected(fd)
    <3>1. given[fd] = fdTable[fd]
      BY <2>1, <2>4 DEF Misdirected
    <3>2. clobbered' = clobbered
      BY <2>1, <2>4 DEF FdInv, FdTypeOK
    <3> QED BY <2>1, <2>2, <3>1, <3>2, CloexecKeeps
  <2> QED BY <2>3, <2>4
<1>11. ASSUME NEW fd \in Fds, Ioctl(t, fd) PROVE FdInv(t)' /\ (clobbered' \/ Leaves(t))
  <2>1. PICK h \in Handles \ live :
          /\ live' = live \cup {h}
          /\ Does(t, [op |-> "one", min |-> 3, a |-> h, slot |-> None])
    BY <1>11 DEF Ioctl
  <2>2. PICK c, handles : /\ c = [op |-> "one", min |-> 3, a |-> h, slot |-> None] /\ handles = {h}
    OBVIOUS
  <2>3. /\ c \in Calls /\ c.op = "one" /\ c.op \notin Pairs /\ c.a = h /\ c.slot = None
        /\ handles \in SUBSET (Handles \ live)
        /\ handles = IF c.op = "one" THEN {c.a} ELSE {c.a, c.b}
    BY <2>2 DEF Calls, Pairs
  <2>4. /\ live' = live \cup handles /\ Does(t, c) /\ call[t] = Idle
        /\ UNCHANGED <<fdTable, given, streams, lost, cloexec, stale, clobbered>>
    BY <1>11, <2>1, <2>2 DEF Ioctl
  <2> QED BY <2>3, <2>4, BeginKeepsFds
<1>12. ASSUME NEW fd \in Fds, NEW newfd \in Fds, Dup2(t, fd, newfd)
       PROVE  FdInv(t)' /\ (clobbered' \/ Leaves(t))
  BY <1>12, DupKeeps
<1> QED BY <1>1, <1>2, <1>3, <1>4, <1>5, <1>6, <1>7, <1>8, <1>9, <1>10, <1>11, <1>12

\* The end or the first half of a call: a thread that registered a handle has
\* found no other entry, and stored into none but the one it had found.
LEMMA RegisteredFinds ==
    ASSUME NEW t \in Threads, FdTypeOK, NEW c \in Calls, c = call[t], c.op \in Pairs \cup {"one"},
           NEW fd \in Fds \cup {None}, NEW table \in [Fds -> Handles \cup {0, 1, 2}],
           Registered(t, table, fd)
    PROVE  /\ \A u \in Threads \ {t} : call'[u] = call[u]
           /\ FoundBy(call'[t]) = {}
           /\ \A g \in Fds : fdTable'[g] \in {0, table[g]}
<1> USE FdNumbers
<1>1. ASSUME NEW cleared, NEW closed, NEW left, NEW new, End(t, table, cleared, closed, left, new)
      PROVE  /\ call' = [call EXCEPT ![t] = Idle]
             /\ \A g \in Fds : fdTable'[g] \in {0, table[g]}
  BY <1>1 DEF End, Does
<1>2. PICK d : d = [c EXCEPT !.onB = TRUE, !.r = fd, !.slot = None]
  OBVIOUS
<1>3. c.op \in Pairs => d.slot = None
  <2> SUFFICES ASSUME c.op \in Pairs PROVE d.slot = None
    OBVIOUS
  <2>1. c \in [op : Pairs, a : Handles, b : Handles, onB : BOOLEAN,
               r : Fds \cup {None}, slot : Fds \cup {None}]
    BY DEF Calls, Idle, Pairs
  <2> QED BY <1>2, <2>1
<1>4. \/ call' = [call EXCEPT ![t] = Idle] /\ \A g \in Fds : fdTable'[g] \in {0, table[g]}
      \/ c.op \in Pairs /\ call' = [call EXCEPT ![t] = d] /\ fdTable' = table
  <2>1. CASE OneRegistered(t, table, fd)
    BY <1>1, <2>1 DEF OneRegistered
  <2>2. CASE PipeRegistered(t, table, fd)
    BY <1>1, <1>2, <2>2 DEF PipeRegistered, GoOn, Does, Pairs
  <2>3. CASE SocketpairRegistered(t, table, fd)
    BY <1>1, <1>2, <2>3 DEF SocketpairRegistered, GoOn, Does, Pairs
  <2>4. CASE RecvRegistered(t, table, fd)
    BY <1>1, <1>2, <2>4 DEF RecvRegistered, Does, Pairs
  <2> QED BY <2>1, <2>2, <2>3, <2>4 DEF Registered
<1>5. FoundBy(Idle) = {} /\ (c.op \in Pairs => FoundBy(d) = {})
  <2>1. Idle.op \notin Pairs \cup {"one"}
    BY DEF Idle, Pairs
  <2> QED BY <1>3, <2>1 DEF FoundBy
<1> QED BY <1>4, <1>5 DEF FdTypeOK

\* An entry that a call has found free is taken by no other, unless the two
\* found the same one or an fd is made one of the program's without a scan.
LEMMA FoundStays ==
    ASSUME NEW t \in Threads, FdInv(t), ~clobbered, FoundFree,
           \/ BeginOne(t) \/ BeginPair(t) \/ Scan(t) \/ Store(t) \/ Full(t) \/ CloseClears(t) \/ Execve(t)
           \/ \E fd \in Fds : CloseFd(t, fd) \/ ReadEntries(t, fd) \/ SetCloexec(t, fd) \/ Ioctl(t, fd)
           \/ \E fd, newfd \in Fds : Dup2(t, fd, newfd)
    PROVE  clobbered' \/ FoundFree'
<1> USE FdNumbers
<1>0. Idle.op = "idle" /\ FoundBy(Idle) = {}
  BY DEF Idle, FoundBy, Pairs
<1>t. FdTypeOK
  BY DEF FdInv
<1>1. ASSUME NEW d, call' = [call EXCEPT ![t] = d],
             \A u \in Threads \ {t} : \A fd \in FoundBy(call[u]) : fdTable'[fd] = 0,
             \A fd \in FoundBy(d) : fdTable'[fd] = 0
      PROVE  FoundFree'
  <2> SUFFICES ASSUME NEW u \in Threads, NEW fd \in FoundBy(call'[u]) PROVE fdTable'[fd] = 0
    BY DEF FoundFree, FoundBy
  <2>1. call'[u] = IF u = t THEN d ELSE call[u]
    BY <1>1, <1>t DEF FdTypeOK
  <2> QED BY <1>1, <2>1
<1>2. ASSUME fdTable' = fdTable, NEW d, call' = [call EXCEPT ![t] = d], d.slot = None \/ d.op = "close"
      PROVE  FoundFree'
  <2>1. FoundBy(d) = {}
    BY <1>2 DEF FoundBy, Pairs
  <2> QED BY <1>1, <1>2, <2>1 DEF FoundFree
<1>3. ASSUME fdTable' = fdTable, call' = call PROVE FoundFree'
  BY <1>3 DEF FoundFree, FoundBy
<1>4. CASE BeginOne(t)
  <2>1. PICK h \in Handles \ live, min \in Minimums \cup {3} :
          call' = [call EXCEPT ![t] = [op |-> "one", min |-> min, a |-> h, slot |-> None]]
    BY <1>4 DEF BeginOne, Does
  <2> QED BY <1>2, <1>4, <2>1 DEF BeginOne
<1>5. CASE BeginPair(t)
  <2>1. PICK op \in Pairs, h \in Handles \ live, k \in Handles \ live :
          call' = [call EXCEPT ![t] = [op |-> op, a |-> h, b |-> k, onB |-> FALSE, r |-> None, slot |-> None]]
    BY <1>5 DEF BeginPair, Does
  <2> QED BY <1>2, <1>5, <2>1 DEF BeginPair
<1>6. CASE Scan(t)
  <2>1. PICK c, slot : c = call[t] /\ slot = Lowest(Free(MinOf(call[t])))
    OBVIOUS
  <2>2. c \in Calls /\ c.op \in Pairs \cup {"one"} /\ Free(MinOf(c)) # {}
    BY <1>6, <1>t, <2>1 DEF Scan, FdTypeOK
  <2>3. MinOf(c) \in Nat
    <3>1. c.op = "one" => c.min \in Minimums \cup {3}
      BY <2>2, CallFields, FdTableAssumption
    <3>2. \A min \in Minimums \cup {3} : min \in Nat
      BY FdTableAssumption
    <3> QED BY <3>1, <3>2 DEF MinOf
  <2>4. fdTable[slot] = 0
    BY <2>1, <2>2, <2>3, LowestIsFree
  <2>5. PICK d : d = [c EXCEPT !.slot = slot]
    OBVIOUS
  <2>6. d.slot = slot
    <3>1. CASE c.op = "one"
      <4>1. c \in [op : {"one"}, min : Minimums \cup {3}, a : Handles, slot : Fds \cup {None}]
        BY <2>2, <3>1 DEF Calls, Idle, Pairs
      <4> QED BY <2>5, <4>1
    <3>2. CASE c.op \in Pairs
      <4>1. c \in [op : Pairs, a : Handles, b : Handles, onB : BOOLEAN,
                   r : Fds \cup {None}, slot : Fds \cup {None}]
        BY <2>2, <3>2 DEF Calls, Idle, Pairs
      <4> QED BY <2>5, <4>1
    <3> QED BY <2>2, <3>1, <3>2
  <2>7. call' = [call EXCEPT ![t] = d] /\ fdTable' = fdTable
    BY <1>6, <2>1, <2>5 DEF Scan, Does
  <2>8. \A fd \in FoundBy(d) : fdTable'[fd] = 0
    BY <2>4, <2>6, <2>7 DEF FoundBy
  <2> QED BY <1>1, <2>7, <2>8 DEF FoundFree
<1>7. ASSUME NEW c, c = call[t], c.op \in Pairs \cup {"one"}, NEW fd \in Fds \cup {None},
             NEW table, table = IF fd = None THEN fdTable ELSE [fdTable EXCEPT ![fd] = HandleOf(c)],
             Registered(t, table, fd),
             \A u \in Threads \ {t} : fd \notin FoundBy(call[u])
      PROVE  FoundFree'
  <2>1. c \in Calls
    BY <1>7, <1>t DEF FdTypeOK
  <2>2. HandleOf(c) \in Handles
    BY <1>7, <2>1, CallFields, FdTableAssumption DEF HandleOf
  <2>3. /\ table \in [Fds -> Handles \cup {0, 1, 2}]
        /\ \A g \in Fds : g # fd => table[g] = fdTable[g]
    BY <1>7, <1>t, <2>2 DEF FdTypeOK
  <2>4. /\ \A u \in Threads \ {t} : call'[u] = call[u]
        /\ FoundBy(call'[t]) = {}
        /\ \A g \in Fds : fdTable'[g] \in {0, table[g]}
    BY <1>7, <1>t, <2>1, <2>3, RegisteredFinds
  <2> SUFFICES ASSUME NEW u \in Threads, NEW g \in FoundBy(call'[u]) PROVE fdTable'[g] = 0
    BY DEF FoundFree, FoundBy
  <2>5. u # t /\ g \in FoundBy(call[u])
    BY <2>4
  <2>6. g \in Fds /\ g # fd /\ fdTable[g] = 0
    BY <1>7, <2>5 DEF FoundFree, FoundBy
  <2> QED BY <2>3, <2>4, <2>6
<1>8. CASE Store(t)
  <2>1. PICK c, table : c = call[t] /\ table = [fdTable EXCEPT ![c.slot] = HandleOf(c)]
    OBVIOUS
  <2>2. /\ c.op \in Pairs \cup {"one"} /\ c.slot # None /\ Registered(t, table, c.slot)
        /\ ~clobbered' => \A u \in Threads \ {t} : FoundBy(call[u]) # {c.slot}
    BY <1>8, <2>1 DEF Store
  <2>3. c \in Calls /\ c.slot \in Fds
    <3>1. c \in Calls
      BY <1>t, <2>1 DEF FdTypeOK
    <3> QED BY <2>2, <3>1, CallFields, FdTableAssumption
  <2>4. ASSUME NEW u \in Threads \ {t}, c.slot \in FoundBy(call[u]) PROVE FoundBy(call[u]) = {c.slot}
    BY <2>4 DEF FoundBy
  <2>5. table = IF c.slot = None THEN fdTable ELSE [fdTable EXCEPT ![c.slot] = HandleOf(c)]
    BY <2>1, <2>2
  <2> QED BY <1>7, <2>1, <2>2, <2>3, <2>4, <2>5
<1>9. CASE Full(t)
  <2>1. PICK fd \in Fds \cup {None} : fd = None
    OBVIOUS
  <2>c. PICK c : c = call[t]
    OBVIOUS
  <2>2. c.op \in Pairs \cup {"one"} /\ Registered(t, fdTable, fd)
    BY <1>9, <2>1, <2>c DEF Full
  <2>3. \A u \in Threads \ {t} : fd \notin FoundBy(call[u])
    BY <2>1 DEF FoundBy
  <2>4. fdTable = IF fd = None THEN fdTable ELSE [fdTable EXCEPT ![fd] = HandleOf(c)]
    BY <2>1
  <2> QED BY <1>7, <2>c, <2>2, <2>3, <2>4
<1>10. CASE CloseClears(t)
  <2>1. /\ call' = [call EXCEPT ![t] = Idle] /\ \A fd \in Fds : fdTable'[fd] \in {0, fdTable[fd]}
    BY <1>10, <1>t DEF CloseClears, Does, FdTypeOK
  <2>2. \A u \in Threads \ {t} : \A fd \in FoundBy(call[u]) : fdTable'[fd] = 0
    BY <2>1 DEF FoundFree, FoundBy
  <2> QED BY <1>0, <1>1, <2>1, <2>2
<1>11. CASE Execve(t)
  BY <1>3, <1>11 DEF Execve
<1>12. ASSUME NEW fd \in Fds, CloseFd(t, fd) PROVE FoundFree'
  <2>1. fdTable' = fdTable
    BY <1>12 DEF CloseFd
  <2>2. CASE call' = call
    BY <1>3, <2>1, <2>2
  <2>3. CASE Does(t, [op |-> "close", fd |-> fd])
    BY <1>2, <2>1, <2>3 DEF Does
  <2> QED BY <1>12, <2>2, <2>3 DEF CloseFd
<1>13. ASSUME NEW fd \in Fds, ReadEntries(t, fd) \/ SetCloexec(t, fd) PROVE FoundFree'
  BY <1>3, <1>13 DEF ReadEntries, SetCloexec
<1>14. ASSUME NEW fd \in Fds, Ioctl(t, fd) PROVE FoundFree'
  <2>1. PICK h \in Handles \ live :
          call' = [call EXCEPT ![t] = [op |-> "one", min |-> 3, a |-> h, slot |-> None]]
    BY <1>14 DEF Ioctl, Does
  <2> QED BY <1>2, <1>14, <2>1 DEF Ioctl
<1>15. ASSUME NEW fd \in Fds, NEW newfd \in Fds, Dup2(t, fd, newfd) PROVE clobbered' \/ FoundFree'
  <2>1. PICK h \in IF fdTable[newfd] # 0 \/ newfd < 3
                   THEN {IF fdTable[newfd] = 0 THEN newfd ELSE fdTable[newfd]}
                   ELSE Handles \ live :
          fdTable' = [fdTable EXCEPT ![newfd] = h]
    BY <1>15 DEF Dup2
  <2>2. call' = call /\ (given[newfd] # None \/ \A u \in Threads : call[u] = Idle)
    BY <1>15 DEF Dup2
  <2>3. CASE \A u \in Threads : call[u] = Idle
    BY <1>0, <2>2, <2>3 DEF FoundFree, FoundBy, Pairs
  <2>4. CASE given[newfd] # None
    <3>1. fdTable[newfd] = 0 => newfd = 0
      <4>1. fdTable[newfd] = given[newfd] /\ (newfd >= 3 => given[newfd] # 0)
        BY <2>4 DEF FdInv, GivenHeld, StandardStay
      <4>2. newfd \notin {1, 2} \/ fdTable[newfd] # 0
        BY DEF FdInv, StandardStay
      <4> QED BY <4>1, <4>2
    <3>2. h = fdTable[newfd]
      BY <2>1, <3>1
    <3>3. fdTable' = fdTable
      BY <1>t, <2>1, <3>2 DEF FdTypeOK
    <3> QED BY <1>3, <2>2, <3>3
  <2> QED BY <2>2, <2>3, <2>4
<1> QED BY <1>4, <1>5, <1>6, <1>8, <1>9, <1>10, <1>11, <1>12, <1>13, <1>14, <1>15

LEMMA FdsInitInv == FdInit => FdsInv
<1>1. ASSUME FdInit PROVE FoundFree
  <2>1. FoundBy(Idle) = {}
    BY DEF FoundBy, Idle, Pairs
  <2> QED BY <1>1, <2>1 DEF FdInit, FoundFree
<1> QED BY <1>1, FdInitInv DEF FdsInv

LEMMA FdNextInv ==
    ASSUME FdsInv, [FdNext]_fdVars
    PROVE  FdsInv'
<1>1. CASE UNCHANGED fdVars
  <2>f. ~clobbered' => FoundFree'
    BY <1>1 DEF FdsInv, FoundFree, FoundBy, fdVars
  <2> SUFFICES ASSUME NEW t \in Threads PROVE FdInv(t)'
    BY <2>f DEF FdsInv
  <2>1. FdTypeOK' /\ clobbered' = clobbered
    BY <1>1 DEF FdsInv, FdInv, FdTypeOK, fdVars
  <2>2. CASE clobbered
    BY <2>1, <2>2 DEF FdInv
  <2>3. CASE ~clobbered
    <3>1. FdInv(t)
      BY DEF FdsInv
    <3>2. /\ InHand(call[t])' = InHand(call[t]) /\ Taken(call[t])' = Taken(call[t])
          /\ Entered(call[t])' = Entered(call[t]) /\ Closing(call[t])' = Closing(call[t])
      BY <1>1 DEF fdVars, Taken, InHand, Entered, Closing
    <3>3. Leaves(t)
      BY <1>1, <2>3, <3>1 DEF fdVars, FdInv, Apart, Leaves
    <3>4. Apart(t)' /\ OthersTake(t)' = OthersTake(t) /\ OthersUse(t)' = OthersUse(t)
      <4>1. /\ \A h \in Taken(call[t])' : h \notin OthersTake(t)
            /\ \A fd \in Entered(call[t])' \cup Closing(call[t])' : fd \notin OthersUse(t)
        BY <2>3, <3>1, <3>2 DEF FdInv, Apart
      <4> QED BY <2>3, <3>1, <3>3, <4>1, ApartStays
    <3>5. StandardStay' /\ GivenHeld' /\ TakenApart(call[t])' /\ HandlesKnown(t)'
      BY <1>1, <2>3, <3>1, <3>2, <3>4 DEF fdVars, FdInv, StandardStay, GivenHeld, TakenApart, HandlesKnown
    <3>6. EntriesKnown(t)' /\ StaleApart(t)' /\ StreamsOfFds'
      BY <1>1, <2>3, <3>1, <3>2, <3>4 DEF fdVars, FdInv, EntriesKnown, StaleApart, StreamsOfFds
    <3> QED BY <2>1, <3>4, <3>5, <3>6 DEF FdInv
  <2> QED BY <2>2, <2>3
<1>2. CASE FdNext
  <2>1. ~clobbered
    BY <1>2 DEF FdNext
  <2>2. PICK t \in Threads :
          \/ BeginOne(t) \/ BeginPair(t) \/ Scan(t) \/ Store(t) \/ Full(t) \/ CloseClears(t) \/ Execve(t)
          \/ \E fd \in Fds : CloseFd(t, fd) \/ ReadEntries(t, fd) \/ SetCloexec(t, fd) \/ Ioctl(t, fd)
          \/ \E fd, newfd \in Fds : Dup2(t, fd, newfd)
    BY <1>2, Zenon DEF FdNext
  <2>3. FdInv(t)' /\ (clobbered' \/ Leaves(t))
    <3>1. \A fd \in FoundBy(call[t]) : fdTable[fd] = 0
      BY <2>1 DEF FdsInv, FoundFree
    <3> QED BY <2>1, <2>2, <3>1, StepKeeps DEF FdsInv
  <2>4. CASE clobbered'
    BY <2>3, <2>4 DEF FdsInv, FdInv
  <2>5. CASE ~clobbered' /\ Leaves(t)
    <3>1. \A u \in Threads : FdInv(u)'
      BY <2>1, <2>3, <2>5, OthersKeep
    <3>2. FoundFree'
      BY <2>1, <2>2, <2>5, FoundStays DEF FdsInv
    <3> QED BY <3>1, <3>2 DEF FdsInv
  <2> QED BY <2>3, <2>4, <2>5
<1> QED BY <1>1, <1>2

\* With no thread in a call, nothing is on its way into or out of the table.
LEMMA FdInvPromises ==
    ASSUME FdsInv
    PROVE  FdsKeepTheirHandles /\ NothingElseIsLost
<1>0. PICK t \in Threads : FdInv(t)
  BY FdTableAssumption DEF FdsInv
<1>1. FdsKeepTheirHandles
  BY <1>0 DEF FdInv, GivenHeld, FdsKeepTheirHandles
<1>2. ASSUME ~clobbered, \A u \in Threads : call[u] = Idle
      PROVE  /\ live \subseteq {given[fd] : fd \in Fds} \cup lost
             /\ \A fd \in Fds \ stale : fdTable[fd] # 0 => given[fd] # None
             /\ \A fd \in streams : given[fd] # None
  <2>1. Entered(call[t]) = {} /\ Closing(call[t]) = {} /\ Taken(call[t]) = {}
    BY <1>2, IdleTakesNothing DEF Idle
  <2>2. OthersTake(t) = {} /\ OthersUse(t) = {}
    BY <1>2, AllIdle
  <2> QED BY <1>0, <1>2, <2>1, <2>2 DEF FdInv, HandlesKnown, EntriesKnown, StreamsOfFds
<1> QED BY <1>1, <1>2 DEF NothingElseIsLost

\* instantos/window.h:19: "as an fd of this process, which then owns it". For any
\* number of threads, handles and fds, through opens, dups, closes, execs and a
\* table that fills up half-way, an fd the program has stands for the open handle
\* it was given for it, and no other fd does; until a call on an entry that an
\* exec left reaches another fd's handle, or a thread stores into an entry that
\* another has found too.
THEOREM FdsStandForTheirHandles == FdSpec => []FdsKeepTheirHandles
<1>1. FdInit => FdsInv
  BY FdsInitInv
<1>2. FdsInv /\ [FdNext]_fdVars => FdsInv'
  BY FdNextInv
<1>3. FdsInv => FdsKeepTheirHandles
  BY FdInvPromises
<1> QED BY <1>1, <1>2, <1>3, PTL DEF FdSpec

\* Until then, whenever no thread is in a call every open handle is one of the
\* program's fds or one that a failed pipe() left open, every entry in use is an
\* fd the program has or one an exec left, and a directory's slot has its fd.
THEOREM CallsLoseNothing == FdSpec => []NothingElseIsLost
<1>1. FdInit => FdsInv
  BY FdsInitInv
<1>2. FdsInv /\ [FdNext]_fdVars => FdsInv'
  BY FdNextInv
<1>3. FdsInv => NothingElseIsLost
  BY FdInvPromises
<1> QED BY <1>1, <1>2, <1>3, PTL DEF FdSpec

(***************************************************************************)
(* Messages arrive whole                                                   *)
(***************************************************************************)

\* f is defined by recursion over 0 .. n, from b by the steps G.
Recursion(f, n, V, b, G) == f \in [0 .. n -> V] /\ f[0] = b /\ \A j \in 1 .. n : f[j] = G[j][f[j - 1]]

\* There is such a function ...
LEMMA RecursionExists ==
    ASSUME NEW n \in Nat, NEW V, NEW b \in V, NEW G \in [1 .. n -> [V -> V]]
    PROVE  \E f : Recursion(f, n, V, b, G)
<1> DEFINE Is(f, m) == f \in [0 .. m -> V] /\ f[0] = b /\ \A j \in 1 .. m : f[j] = G[j][f[j - 1]]
           Bad == {m \in 0 .. n : ~\E f : Is(f, m)}
<1>1. Bad = {}
  <2> SUFFICES ASSUME Bad # {} PROVE FALSE
    OBVIOUS
  <2>1. PICK m \in Bad : \A k \in Bad : m <= k
    <3>1. Bad \subseteq Nat
      OBVIOUS
    <3> HIDE DEF Bad
    <3> QED BY <3>1, LeastExists
  <2>2. CASE m = 0
    <3>1. Is([j \in 0 .. 0 |-> b], 0)
      OBVIOUS
    <3> QED BY <2>2, <3>1
  <2>3. CASE m # 0
    <3>1. m \in 1 .. n /\ m - 1 \in 0 .. n /\ ~(m <= m - 1)
      BY <2>3
    <3>2. PICK f : Is(f, m - 1)
      BY <2>1, <3>1
    <3>3. PICK v \in V : v = G[m][f[m - 1]]
      BY <3>1, <3>2
    <3> DEFINE g == [j \in 0 .. m |-> IF j = m THEN v ELSE f[j]]
    <3>4. g \in [0 .. m -> V] /\ g[0] = b
      BY <3>1, <3>2
    <3>5. ASSUME NEW j \in 1 .. m PROVE g[j] = G[j][g[j - 1]]
      <4>1. CASE j = m
        BY <3>1, <3>3, <4>1
      <4>2. CASE j # m
        <5>1. j \in 1 .. m - 1 /\ j - 1 \in 0 .. m /\ j - 1 # m /\ j \in 0 .. m
          BY <3>1, <4>2
        <5> QED BY <3>2, <4>2, <5>1
      <4> QED BY <4>1, <4>2
    <3>6. Is(g, m)
      BY <3>4, <3>5
    <3> QED BY <3>6
  <2> QED BY <2>2, <2>3
<1>2. n \in 0 .. n
  OBVIOUS
<1> QED BY <1>1, <1>2 DEF Recursion

\* From equal values the next ones are equal.
InStep(f, h, n) == f[0] = h[0] /\ \A j \in 1 .. n : f[j - 1] = h[j - 1] => f[j] = h[j]

\* ... and it is the only one.
LEMMA RecursionIsUnique ==
    ASSUME NEW n \in Nat, NEW f, NEW h, InStep(f, h, n)
    PROVE  \A j \in 0 .. n : f[j] = h[j]
<1> DEFINE Differ == {j \in 0 .. n : f[j] # h[j]}
<1> SUFFICES ASSUME Differ # {} PROVE FALSE
  OBVIOUS
<1>1. PICK m \in Differ : \A k \in Differ : m <= k
  <2>1. Differ \subseteq Nat
    OBVIOUS
  <2> HIDE DEF Differ
  <2> QED BY <2>1, LeastExists
<1>2. m # 0
  BY DEF InStep
<1>3. m \in 1 .. n /\ m - 1 \in 0 .. n /\ ~(m <= m - 1)
  BY <1>2
<1> QED BY <1>1, <1>3 DEF InStep

\* The sums go from one piece to the next.
LEMMA SumsAdd ==
    ASSUME NEW p \in Seq(Nat)
    PROVE  /\ Sums(p) \in [0 .. Len(p) -> Nat] /\ Sums(p)[0] = 0
           /\ \A j \in 1 .. Len(p) : Sums(p)[j] = Sums(p)[j - 1] + p[j]
<1>0. Len(p) \in Nat /\ \A j \in 1 .. Len(p) : p[j] \in Nat
  OBVIOUS
<1>1. PICK f \in [0 .. Len(p) -> Nat] : f[0] = 0 /\ \A j \in 1 .. Len(p) : f[j] = f[j - 1] + p[j]
  <2> DEFINE G == [j \in 1 .. Len(p) |-> [v \in Nat |-> v + p[j]]]
  <2>1. G \in [1 .. Len(p) -> [Nat -> Nat]]
    BY <1>0
  <2>2. \A j \in 1 .. Len(p), v \in Nat : G[j][v] = v + p[j]
    OBVIOUS
  <2> HIDE DEF G
  <2>3. PICK f : Recursion(f, Len(p), Nat, 0, G)
    <3>1. 0 \in Nat /\ Len(p) \in Nat
      BY <1>0
    <3> QED BY <2>1, <3>1, RecursionExists
  <2>4. f \in [0 .. Len(p) -> Nat] /\ f[0] = 0 /\ \A j \in 1 .. Len(p) : f[j] = G[j][f[j - 1]]
    BY <2>3 DEF Recursion
  <2>5. ASSUME NEW j \in 1 .. Len(p) PROVE f[j - 1] \in Nat
    <3>1. j - 1 \in 0 .. Len(p)
      BY <1>0
    <3> QED BY <2>4, <3>1
  <2>6. ASSUME NEW j \in 1 .. Len(p) PROVE f[j] = f[j - 1] + p[j]
    <3>1. G[j][f[j - 1]] = f[j - 1] + p[j]
      BY <2>2, <2>5
    <3> QED BY <2>4, <3>1
  <2> QED BY <2>4, <2>6
<1>2. f = [j \in 0 .. Len(p) |-> IF j = 0 THEN 0 ELSE f[j - 1] + p[j]]
  <2>1. \A j \in 0 .. Len(p) : j = 0 \/ j \in 1 .. Len(p)
    BY <1>0
  <2> QED BY <1>1, <2>1
<1>3. Sums(p) = [j \in 0 .. Len(p) |-> IF j = 0 THEN 0 ELSE Sums(p)[j - 1] + p[j]]
  <2> DEFINE sum == CHOOSE sum : sum = [j \in 0 .. Len(p) |-> IF j = 0 THEN 0 ELSE sum[j - 1] + p[j]]
  <2>1. sum = [j \in 0 .. Len(p) |-> IF j = 0 THEN 0 ELSE sum[j - 1] + p[j]]
    BY <1>2
  <2>2. Sums(p) = sum
    BY DEF Sums
  <2> QED BY <2>1, <2>2
<1>4. Sums(p)[0] = 0 /\ \A j \in 1 .. Len(p) : Sums(p)[j] = Sums(p)[j - 1] + p[j]
  <2>1. PICK s : s = Sums(p)
    OBVIOUS
  <2>2. s = [j \in 0 .. Len(p) |-> IF j = 0 THEN 0 ELSE s[j - 1] + p[j]]
    BY <1>3, <2>1
  <2>3. s[0] = 0
    <3>1. 0 \in 0 .. Len(p)
      BY <1>0
    <3> QED BY <2>2, <3>1
  <2>4. ASSUME NEW j \in 1 .. Len(p) PROVE s[j] = s[j - 1] + p[j]
    <3>1. j \in 0 .. Len(p) /\ j # 0
      BY <1>0
    <3> QED BY <2>2, <3>1
  <2> QED BY <2>1, <2>3, <2>4
<1>5. \A j \in 0 .. Len(p) : Sums(p)[j] = f[j]
  <2>1. InStep(Sums(p), f, Len(p))
    BY <1>1, <1>4 DEF InStep
  <2> QED BY <1>0, <2>1, RecursionIsUnique
<1>6. Sums(p) \in [0 .. Len(p) -> Nat]
  BY <1>3, <1>5
<1> QED BY <1>4, <1>6

\* No sum is larger than the whole.
LEMMA SumsGrow ==
    ASSUME NEW p \in Seq(Nat), NEW i \in 0 .. Len(p)
    PROVE  Sums(p)[i] <= iov_total(p)
<1>0. Len(p) \in Nat /\ \A j \in 1 .. Len(p) : p[j] \in Nat
  OBVIOUS
<1>1. /\ \A j \in 0 .. Len(p) : Sums(p)[j] \in Nat
      /\ \A j \in 1 .. Len(p) : Sums(p)[j] = Sums(p)[j - 1] + p[j]
  BY SumsAdd
<1> DEFINE Above == {n \in 0 .. Len(p) - i : Sums(p)[i] > Sums(p)[i + n]}
<1>2. Above = {}
  <2> SUFFICES ASSUME Above # {} PROVE FALSE
    OBVIOUS
  <2>1. PICK m \in Above : \A k \in Above : m <= k
    <3>1. Above \subseteq Nat
      OBVIOUS
    <3> HIDE DEF Above
    <3> QED BY <3>1, LeastExists
  <2>2. m \in 0 .. Len(p) - i /\ m \in Nat /\ i \in Nat
    BY <1>0
  <2>3. m # 0
    BY <1>1, <2>2
  <2>4. m - 1 \in 0 .. Len(p) - i /\ ~(m <= m - 1)
    BY <1>0, <2>2, <2>3
  <2>5. Sums(p)[i] <= Sums(p)[i + (m - 1)]
    <3>1. ~(Sums(p)[i] > Sums(p)[i + (m - 1)])
      BY <2>1, <2>4
    <3>2. i + (m - 1) \in 0 .. Len(p)
      BY <1>0, <2>2, <2>4
    <3>3. Sums(p)[i] \in Nat /\ Sums(p)[i + (m - 1)] \in Nat
      BY <1>1, <3>2
    <3> HIDE DEF Above
    <3> QED BY <3>1, <3>3
  <2>6. i + m \in 1 .. Len(p) /\ i + (m - 1) = (i + m) - 1 /\ (i + m) - 1 \in 0 .. Len(p)
    BY <1>0, <2>2, <2>3
  <2>7. Sums(p)[i + m] = Sums(p)[i + (m - 1)] + p[i + m] /\ p[i + m] \in Nat
    BY <1>0, <1>1, <2>6
  <2>8. Sums(p)[i] > Sums(p)[i + m]
    OBVIOUS
  <2> HIDE DEF Above
  <2>9. i \in 0 .. Len(p)
    OBVIOUS
  <2>10. PICK x \in Nat, y \in Nat, z \in Nat :
            x = Sums(p)[i] /\ y = Sums(p)[i + (m - 1)] /\ z = p[i + m]
    BY <1>1, <2>6, <2>7, <2>9
  <2>11. x <= y /\ x > y + z
    BY <2>5, <2>7, <2>8, <2>10
  <2> QED BY <2>11
<1>3. Len(p) - i \in 0 .. Len(p) - i /\ i + (Len(p) - i) = Len(p) /\ Len(p) \in 0 .. Len(p)
  BY <1>0
<1>4. ~(Sums(p)[i] > Sums(p)[i + (Len(p) - i)])
  BY <1>2, <1>3
<1>5. iov_total(p) = Sums(p)[Len(p)]
  BY <1>0 DEF iov_total, Before
<1>6. PICK x \in Nat, y \in Nat : x = Sums(p)[i] /\ y = Sums(p)[Len(p)]
  BY <1>1, <1>3
<1>7. ~(x > y)
  BY <1>3, <1>4, <1>6
<1>8. x <= y
  BY <1>7
<1> QED BY <1>5, <1>6, <1>8

\* A run of bytes.
LEMMA FromIs ==
    ASSUME NEW k \in Int, NEW n \in Nat
    PROVE  /\ From(k, n) \in Seq(Int) /\ Len(From(k, n)) = n
           /\ \A i \in 1 .. n : From(k, n)[i] = k + i - 1
<1>1. From(k, n) \in [1 .. n -> Int]
  BY DEF From
<1> QED BY <1>1 DEF From

\* Two runs that meet are one, ...
LEMMA FromJoin ==
    ASSUME NEW k \in Int, NEW a \in Nat, NEW b \in Nat
    PROVE  From(k, a) \o From(k + a, b) = From(k, a + b)
<1>1. /\ From(k, a) \in Seq(Int) /\ Len(From(k, a)) = a
      /\ From(k + a, b) \in Seq(Int) /\ Len(From(k + a, b)) = b
  BY FromIs
<1>2. PICK s \in Seq(Int), u \in Seq(Int) : s = From(k, a) /\ u = From(k + a, b) /\ Len(s) = a /\ Len(u) = b
  BY <1>1
<1>3. s \o u \in Seq(Int) /\ Len(s \o u) = a + b
  BY <1>2, ConcatProperties
<1>4. From(k, a + b) \in Seq(Int) /\ Len(From(k, a + b)) = a + b
  BY FromIs
<1>5. ASSUME NEW i \in 1 .. a + b PROVE (s \o u)[i] = From(k, a + b)[i]
  <2>1. (s \o u)[i] = IF i <= a THEN s[i] ELSE u[i - a]
    BY <1>2, ConcatProperties
  <2>2. From(k, a + b)[i] = k + i - 1
    <3>1. a + b \in Nat
      OBVIOUS
    <3> QED BY <3>1, FromIs
  <2>3. CASE i <= a
    <3>1. i \in 1 .. a
      BY <2>3
    <3>2. s[i] = k + i - 1
      BY <1>2, <3>1, FromIs
    <3> QED BY <2>1, <2>2, <2>3, <3>2
  <2>4. CASE ~(i <= a)
    <3>1. i - a \in 1 .. b /\ k + a \in Int
      BY <2>4
    <3>2. u[i - a] = (k + a) + (i - a) - 1
      BY <1>2, <3>1, FromIs
    <3> QED BY <2>1, <2>2, <2>4, <3>2
  <2> QED BY <2>3, <2>4
<1>6. s \o u = From(k, a + b)
  <2> HIDE DEF From
  <2> QED BY <1>3, <1>4, <1>5, SeqEqual
<1> QED BY <1>2, <1>6

\* ... and a run that is cut is two.
LEMMA FromCut ==
    ASSUME NEW k \in Int, NEW n \in Nat, NEW m \in 0 .. n
    PROVE  SubSeq(From(k, n), 1, m) = From(k, m) /\ SubSeq(From(k, n), m + 1, n) = From(k + m, n - m)
<1>1. /\ From(k, n) \in Seq(Int) /\ Len(From(k, n)) = n
      /\ \A i \in 1 .. n : From(k, n)[i] = k + i - 1
  BY FromIs
<1>2. SubSeq(From(k, n), 1, m) = [i \in 1 .. m |-> From(k, n)[i]]
  BY <1>1
<1>3. SubSeq(From(k, n), m + 1, n) = [i \in 1 .. n - m |-> From(k, n)[i + m]]
  BY <1>1
<1>4. \A i \in 1 .. m : From(k, n)[i] = k + i - 1
  BY <1>1
<1>5. \A i \in 1 .. n - m : From(k, n)[i + m] = (k + m) + i - 1
  BY <1>1
<1> QED BY <1>2, <1>3, <1>4, <1>5 DEF From

\* Bytes that were put in order are a run.
LEMMA PutInOrder ==
    ASSUME NEW T \in Nat, NEW data \in [1 .. T -> Int], NEW t \in 0 .. T, NEW k \in Int,
           \A x \in 1 .. t : data[x] = k + x - 1
    PROVE  SubSeq(data, 1, t) = From(k, t)
<1>1. data \in Seq(Int) /\ Len(data) = T
  OBVIOUS
<1>2. SubSeq(data, 1, t) = [x \in 1 .. t |-> data[x]]
  BY <1>1
<1> QED BY <1>2 DEF From

\* One piece of a scatter.
WithPiece(p, bytes, j, data) ==
    [x \in 1 .. iov_total(p) |->
        IF Sums(p)[j - 1] < x /\ x <= Sums(p)[j] /\ x <= Len(bytes) THEN bytes[x] ELSE data[x]]

LEMMA OnePiece ==
    ASSUME NEW p \in Seq(Nat), NEW bytes \in Seq(Int), NEW j \in 1 .. Len(p),
           NEW data \in [1 .. iov_total(p) -> Int]
    PROVE  PutAt(data, Before(p, j) + 1, PieceOf(p, bytes, j)) = WithPiece(p, bytes, j, data)
<1>1. /\ Len(p) \in Nat /\ j - 1 \in 0 .. Len(p) /\ j \in 0 .. Len(p) /\ p[j] \in Nat
  OBVIOUS
<1>2. /\ Sums(p)[j - 1] \in Nat /\ Sums(p)[j] \in Nat /\ Sums(p)[j - 1] <= Sums(p)[j]
  <2>1. Sums(p) \in [0 .. Len(p) -> Nat] /\ Sums(p)[j] = Sums(p)[j - 1] + p[j]
    BY SumsAdd
  <2>2. Sums(p)[j - 1] \in Nat /\ Sums(p)[j] \in Nat
    BY <1>1, <2>1
  <2> QED BY <1>1, <2>1, <2>2
<1>3. PICK b \in Nat, c \in Nat : b = Sums(p)[j - 1] /\ c = Sums(p)[j] /\ b <= c
  BY <1>2
<1>4. Before(p, j) = b /\ Before(p, j + 1) = c
  BY <1>1, <1>3 DEF Before
<1>5. PICK u \in Nat : u = Smaller(c, Len(bytes)) /\ u <= c /\ u <= Len(bytes) /\ (u = c \/ u = Len(bytes))
  BY DEF Smaller
<1>6. PICK piece : piece = PieceOf(p, bytes, j)
  OBVIOUS
<1>7. piece = SubSeq(bytes, b + 1, u)
  BY <1>4, <1>5, <1>6 DEF PieceOf
<1>8. PutAt(data, b + 1, piece) =
        [x \in 1 .. iov_total(p) |-> IF b < x /\ x <= u THEN bytes[x] ELSE data[x]]
  <2>1. CASE b < u
    <3>0. \A i \in b + 1 .. u : bytes[i] \in Int
      BY <1>5
    <3>1. piece \in Seq(Int) /\ Len(piece) = u - b /\ \A i \in 1 .. u - (b + 1) + 1 : piece[i] = bytes[(b + 1) + i - 1]
      <4>1. PICK m \in Int : m = b + 1 /\ m <= u /\ (u - m) + 1 = u - b
        BY <2>1
      <4>2. u \in Int /\ \A i \in m .. u : bytes[i] \in Int
        BY <3>0, <4>1
      <4>3. /\ SubSeq(bytes, m, u) \in Seq(Int)
            /\ Len(SubSeq(bytes, m, u)) = IF m <= u THEN u - m + 1 ELSE 0
            /\ \A i \in 1 .. u - m + 1 : SubSeq(bytes, m, u)[i] = bytes[m + i - 1]
        BY <4>2, SubSeqProperties
      <4> QED BY <1>7, <4>1, <4>3
    <3>2. u - b \in Nat /\ Len(piece) = u - b
      BY <2>1, <3>1
    <3>3. \A x \in 1 .. iov_total(p) : x \in (b + 1) .. ((b + 1) + Len(piece)) - 1 <=> b < x /\ x <= u
      BY <3>2
    <3>4. \A x \in Int : b < x /\ x <= u => piece[x - (b + 1) + 1] = bytes[x]
      <4> SUFFICES ASSUME NEW x \in Int, b < x, x <= u PROVE piece[x - (b + 1) + 1] = bytes[x]
        OBVIOUS
      <4>1. x - (b + 1) + 1 = x - b /\ x - b \in 1 .. u - (b + 1) + 1 /\ (b + 1) + (x - b) - 1 = x
        OBVIOUS
      <4> QED BY <3>1, <4>1
    <3> QED BY <3>3, <3>4 DEF PutAt
  <2>2. CASE ~(b < u)
    <3>1. Len(piece) = 0
      BY <1>5, <1>7, <2>2
    <3>2. \A x \in 1 .. iov_total(p) : x \notin (b + 1) .. ((b + 1) + Len(piece)) - 1 /\ ~(b < x /\ x <= u)
      BY <2>2, <3>1
    <3> QED BY <3>2 DEF PutAt
  <2> QED BY <2>1, <2>2
<1>9. \A x \in 1 .. iov_total(p) : x <= u <=> x <= c /\ x <= Len(bytes)
  BY <1>5
<1> QED BY <1>3, <1>4, <1>6, <1>8, <1>9 DEF WithPiece

\* After the first pieces of a scatter their bytes are in place.
UpTo(p, bytes, j) ==
    [x \in 1 .. iov_total(p) |-> IF x <= Sums(p)[j] /\ x <= Len(bytes) THEN bytes[x] ELSE 0]

LEMMA UpToNext ==
    ASSUME NEW p \in Seq(Nat), NEW bytes \in Seq(Int), NEW j \in 1 .. Len(p)
    PROVE  PutAt(UpTo(p, bytes, j - 1), Before(p, j) + 1, PieceOf(p, bytes, j)) = UpTo(p, bytes, j)
<1>1. iov_total(p) \in Nat /\ Len(bytes) \in Nat
  <2>1. Len(p) \in Nat /\ Len(p) \in 0 .. Len(p) /\ Len(bytes) \in Nat
    OBVIOUS
  <2>2. Sums(p) \in [0 .. Len(p) -> Nat]
    BY SumsAdd
  <2>3. iov_total(p) = Sums(p)[Len(p)]
    <3>1. (Len(p) + 1) - 1 = Len(p)
      BY <2>1
    <3> QED BY <3>1 DEF iov_total, Before
  <2> QED BY <2>1, <2>2, <2>3
<1>2. PICK b \in Nat, c \in Nat : b = Sums(p)[j - 1] /\ c = Sums(p)[j] /\ b <= c
  <2>1. Sums(p) \in [0 .. Len(p) -> Nat] /\ Sums(p)[j] = Sums(p)[j - 1] + p[j]
    BY SumsAdd
  <2>2. j - 1 \in 0 .. Len(p) /\ j \in 0 .. Len(p) /\ p[j] \in Nat
    OBVIOUS
  <2> QED BY <2>1, <2>2
<1>3. PICK data \in [1 .. iov_total(p) -> Int] : data = UpTo(p, bytes, j - 1)
  <2>1. \A x \in 1 .. iov_total(p) : x <= Len(bytes) => bytes[x] \in Int
    BY <1>1
  <2>2. \A x \in 1 .. iov_total(p) : (IF x <= Sums(p)[j - 1] /\ x <= Len(bytes) THEN bytes[x] ELSE 0) \in Int
    BY <2>1
  <2>3. UpTo(p, bytes, j - 1) \in [1 .. iov_total(p) -> Int]
    BY <2>2 DEF UpTo
  <2> QED BY <2>3
<1>4. PutAt(data, Before(p, j) + 1, PieceOf(p, bytes, j)) = WithPiece(p, bytes, j, data)
  BY OnePiece
<1>5. \A x \in 1 .. iov_total(p) : data[x] = IF x <= b /\ x <= Len(bytes) THEN bytes[x] ELSE 0
  BY <1>2, <1>3 DEF UpTo
<1>6. UpTo(p, bytes, j) = [x \in 1 .. iov_total(p) |-> IF x <= c /\ x <= Len(bytes) THEN bytes[x] ELSE 0]
  BY <1>2 DEF UpTo
<1>7. ASSUME NEW x \in 1 .. iov_total(p)
      PROVE  (IF b < x /\ x <= c /\ x <= Len(bytes) THEN bytes[x] ELSE data[x]) =
             (IF x <= c /\ x <= Len(bytes) THEN bytes[x] ELSE 0)
  <2>1. data[x] = IF x <= b /\ x <= Len(bytes) THEN bytes[x] ELSE 0
    BY <1>5
  <2>2. CASE x <= b
    <3>1. x <= c /\ ~(b < x)
      BY <1>2, <2>2
    <3> QED BY <2>1, <2>2, <3>1
  <2>3. CASE ~(x <= b)
    <3>1. b < x
      BY <1>1, <2>3
    <3> QED BY <2>1, <2>3, <3>1
  <2> QED BY <2>2, <2>3
<1>8. PutAt(data, Before(p, j) + 1, PieceOf(p, bytes, j)) =
        [x \in 1 .. iov_total(p) |-> IF b < x /\ x <= c /\ x <= Len(bytes) THEN bytes[x] ELSE data[x]]
  BY <1>2, <1>4 DEF WithPiece
<1> QED BY <1>3, <1>6, <1>7, <1>8

LEMMA FilledIs ==
    ASSUME NEW p \in Seq(Nat), NEW bytes \in Seq(Int), NEW i \in 0 .. Len(p)
    PROVE  Filled(p, bytes)[i] = UpTo(p, bytes, i)
<1> DEFINE f == [j \in 0 .. Len(p) |-> UpTo(p, bytes, j)]
           Step(h) == [j \in 0 .. Len(p) |-> IF j = 0 THEN Blank(p)
                                             ELSE PutAt(h[j - 1], Before(p, j) + 1, PieceOf(p, bytes, j))]
<1>0. Len(p) \in Nat
  OBVIOUS
<1>1. UpTo(p, bytes, 0) = Blank(p)
  <2>1. Sums(p)[0] = 0
    BY SumsAdd
  <2>2. \A x \in 1 .. iov_total(p) : ~(x <= 0)
    BY SMT
  <2> QED BY <2>1, <2>2 DEF UpTo, Blank
<1>2. \A j \in 0 .. Len(p) : j = 0 \/ (j \in 1 .. Len(p) /\ j - 1 \in 0 .. Len(p))
  BY <1>0
<1>3. f = Step(f)
  <2>1. ASSUME NEW j \in 0 .. Len(p)
        PROVE  UpTo(p, bytes, j) = IF j = 0 THEN Blank(p)
                                   ELSE PutAt(f[j - 1], Before(p, j) + 1, PieceOf(p, bytes, j))
    <3>1. CASE j = 0
      BY <1>1, <3>1
    <3>2. CASE j # 0
      <4>1. j \in 1 .. Len(p) /\ f[j - 1] = UpTo(p, bytes, j - 1)
        BY <1>2, <3>2
      <4> QED BY <3>2, <4>1, UpToNext
    <3> QED BY <3>1, <3>2
  <2> QED BY <2>1
<1>4. Filled(p, bytes) = Step(Filled(p, bytes))
  <2> DEFINE fill == CHOOSE fill : fill = Step(fill)
  <2>1. fill = Step(fill)
    BY <1>3
  <2>2. Filled(p, bytes) = fill
    BY DEF Filled
  <2> QED BY <2>1, <2>2
<1>5. InStep(Filled(p, bytes), f, Len(p))
  <2>1. \A j \in 1 .. Len(p) : j # 0 /\ j \in 0 .. Len(p)
    BY <1>0
  <2>2. PICK h : h = Filled(p, bytes)
    OBVIOUS
  <2>3. PICK g : g = f
    OBVIOUS
  <2>4. h = Step(h) /\ g = Step(g)
    BY <1>3, <1>4, <2>2, <2>3
  <2> HIDE DEF f
  <2>5. h[0] = g[0]
    BY <1>0, <2>4
  <2>6. ASSUME NEW j \in 1 .. Len(p), h[j - 1] = g[j - 1] PROVE h[j] = g[j]
    BY <2>1, <2>4, <2>6
  <2> QED BY <2>2, <2>3, <2>5, <2>6 DEF InStep
<1>6. Filled(p, bytes)[i] = f[i]
  <2>1. PICK h, g : h = Filled(p, bytes) /\ g = f
    OBVIOUS
  <2> HIDE DEF f
  <2>2. InStep(h, g, Len(p))
    BY <1>5, <2>1
  <2>3. \A j \in 0 .. Len(p) : h[j] = g[j]
    BY <1>0, <2>2, RecursionIsUnique
  <2> QED BY <2>1, <2>3
<1> QED BY <1>6

\* A scatter loses and moves no byte that there is room for.
LEMMA ScatterKeeps ==
    ASSUME NEW p \in Seq(Nat), NEW bytes \in Seq(Int), Len(bytes) <= iov_total(p)
    PROVE  SubSeq(Scatter(p, bytes), 1, Len(bytes)) = bytes
<1>1. Len(p) \in Nat /\ Len(p) \in 0 .. Len(p) /\ Len(bytes) \in Nat
  OBVIOUS
<1>2. PICK T \in Nat : T = iov_total(p) /\ T = Sums(p)[Len(p)]
  <2>1. Sums(p) \in [0 .. Len(p) -> Nat]
    BY SumsAdd
  <2> QED BY <1>1, <2>1 DEF iov_total, Before
<1>3. Scatter(p, bytes) = UpTo(p, bytes, Len(p))
  BY <1>1, FilledIs DEF Scatter
<1>4. Scatter(p, bytes) = [x \in 1 .. T |-> IF x <= T /\ x <= Len(bytes) THEN bytes[x] ELSE 0]
  BY <1>2, <1>3 DEF UpTo
<1>5. \A x \in 1 .. Len(bytes) : Scatter(p, bytes)[x] = bytes[x] /\ bytes[x] \in Int
  BY <1>1, <1>2, <1>4
<1>6. PICK s : s = Scatter(p, bytes)
  OBVIOUS
<1>7. /\ SubSeq(s, 1, Len(bytes)) \in Seq(Int)
      /\ Len(SubSeq(s, 1, Len(bytes))) = IF 1 <= Len(bytes) THEN Len(bytes) - 1 + 1 ELSE 0
      /\ \A i \in 1 .. Len(bytes) - 1 + 1 : SubSeq(s, 1, Len(bytes))[i] = s[1 + i - 1]
  <2>1. 1 \in Int /\ Len(bytes) \in Int /\ \A x \in 1 .. Len(bytes) : s[x] \in Int
    BY <1>1, <1>5, <1>6
  <2> QED BY <2>1, SubSeqProperties
<1>8. Len(SubSeq(s, 1, Len(bytes))) = Len(bytes)
  BY <1>1, <1>7
<1>9. \A i \in 1 .. Len(bytes) : SubSeq(s, 1, Len(bytes))[i] = bytes[i]
  <2>1. \A i \in 1 .. Len(bytes) : i \in 1 .. Len(bytes) - 1 + 1 /\ 1 + i - 1 = i
    BY <1>1
  <2> QED BY <1>5, <1>6, <1>7, <2>1
<1>10. SubSeq(s, 1, Len(bytes)) = bytes
  BY <1>7, <1>8, <1>9, SeqEqual
<1> QED BY <1>6, <1>10

-----------------------------------------------------------------------------
(* The inductive invariant.                                                *)

SocketTypes ==
    /\ socket \in [type : {"stream", "datagram", "unix"}, connected : {"no", "trying", "yes", "refused"},
                   joined : BOOLEAN]
    /\ told \in Nat /\ passing \in Nat
    /\ received \in Seq(Int)
    /\ socket.joined => socket.connected = "yes"
    /\ ~untold
    /\ polled => wire # <<>>

\* A sendmsg() that goes on has sent all of the pieces behind it, ...
SendsWhole ==
    sending # NoMsg =>
        /\ socket.type = "stream"
        /\ \E p \in Pieces : \E i \in 1 .. Len(p) + 1 :
              sending = [pieces |-> p, next |-> i, total |-> Before(p, i), data |-> <<>>]

\* ... and a recvmsg() that goes on has filled them with what comes next.
ReceivesWhole ==
    receiving # NoMsg =>
        /\ socket.type = "stream"
        /\ \E p \in Pieces : \E i \in 1 .. Len(p) + 1 :
              /\ receiving = [pieces |-> p, next |-> i, total |-> Before(p, i), data |-> receiving.data]
              /\ receiving.data \in [1 .. iov_total(p) -> Int]
              /\ \A x \in 1 .. Before(p, i) : receiving.data[x] = Len(received) + x

\* What is sent is received, in the hands of a recvmsg(), or on the wire.
BytesInOrder ==
    socket.type # "datagram" =>
        /\ wire \in Seq(Int)
        /\ received = From(1, Len(received))
        /\ wire = From(Len(received) + receiving.total + 1, Len(wire))
        /\ Len(received) + receiving.total + Len(wire) = told + sending.total

OfOneDatagram(s) == \E k \in {0, MaxBytes} : s = From(k + 1, Len(s))

DatagramsWhole ==
    socket.type = "datagram" =>
        /\ told \in {0, MaxBytes, 2 * MaxBytes}
        /\ wire \in Seq(Seq(Int)) /\ \A j \in 1 .. Len(wire) : OfOneDatagram(wire[j])
        /\ OfOneDatagram(received)
        /\ wire # <<>> \/ received # <<>> => MaxBytes >= 2

SocketsInv == SocketTypes /\ SendsWhole /\ ReceivesWhole /\ BytesInOrder /\ DatagramsWhole

-----------------------------------------------------------------------------
(* Facts the steps share.                                                  *)

LEMMA BeforeIs ==
    ASSUME NEW p \in Seq(Nat)
    PROVE  /\ iov_total(p) \in Nat /\ Before(p, 1) = 0
           /\ \A i \in 1 .. Len(p) + 1 : Before(p, i) \in Nat /\ Before(p, i) <= iov_total(p)
           /\ \A i \in 1 .. Len(p) : p[i] \in Nat /\ Before(p, i + 1) = Before(p, i) + p[i]
<1>1. Len(p) \in Nat /\ \A j \in 1 .. Len(p) : p[j] \in Nat
  OBVIOUS
<1>2. /\ Sums(p) \in [0 .. Len(p) -> Nat] /\ Sums(p)[0] = 0
      /\ \A j \in 1 .. Len(p) : Sums(p)[j] = Sums(p)[j - 1] + p[j]
  BY SumsAdd
<1>3. iov_total(p) \in Nat
  <2>1. Len(p) \in 0 .. Len(p) /\ (Len(p) + 1) - 1 = Len(p)
    BY <1>1
  <2> QED BY <1>2, <2>1 DEF iov_total, Before
<1>4. Before(p, 1) = 0
  BY <1>2 DEF Before
<1>5. ASSUME NEW i \in 1 .. Len(p) + 1 PROVE Before(p, i) \in Nat /\ Before(p, i) <= iov_total(p)
  <2>1. i - 1 \in 0 .. Len(p)
    BY <1>1
  <2> QED BY <1>2, <2>1, SumsGrow DEF Before
<1>6. ASSUME NEW i \in 1 .. Len(p) PROVE Before(p, i + 1) = Before(p, i) + p[i]
  <2>1. (i + 1) - 1 = i
    BY <1>1
  <2> QED BY <1>2, <2>1 DEF Before
<1> QED BY <1>1, <1>3, <1>4, <1>5, <1>6

LEMMA NoMsgIs == NoMsg.pieces = <<>> /\ NoMsg.next = 0 /\ NoMsg.total = 0
BY DEF NoMsg

LEMMA EmptyIsFrom == ASSUME NEW k \in Int PROVE From(k, 0) = <<>>
BY DEF From

LEMMA TotalsAreNat ==
    ASSUME SendsWhole, ReceivesWhole
    PROVE  sending.total \in Nat /\ receiving.total \in Nat
<1>1. sending.total \in Nat
  <2>1. CASE sending = NoMsg
    BY <2>1, NoMsgIs
  <2>2. CASE sending # NoMsg
    <3>1. PICK p \in Pieces : \E i \in 1 .. Len(p) + 1 :
              sending = [pieces |-> p, next |-> i, total |-> Before(p, i), data |-> <<>>]
      BY <2>2 DEF SendsWhole
    <3>2. p \in Seq(Nat)
      BY SocketsAssumption DEF SocketsAssumption
    <3> QED BY <3>1, <3>2, BeforeIs
  <2> QED BY <2>1, <2>2
<1>2. receiving.total \in Nat
  <2>1. CASE receiving = NoMsg
    BY <2>1, NoMsgIs
  <2>2. CASE receiving # NoMsg
    <3>1. PICK p \in Pieces : \E i \in 1 .. Len(p) + 1 :
              receiving = [pieces |-> p, next |-> i, total |-> Before(p, i), data |-> receiving.data]
      BY <2>2 DEF ReceivesWhole
    <3>2. p \in Seq(Nat)
      BY SocketsAssumption DEF SocketsAssumption
    <3>3. PICK i \in 1 .. Len(p) + 1 : receiving.total = Before(p, i)
      BY <3>1
    <3> QED BY <3>2, <3>3, BeforeIs
  <2> QED BY <2>1, <2>2
<1> QED BY <1>1, <1>2

\* The next bytes of the sender get on the wire.
LEMMA BytesSent ==
    ASSUME SocketsInv, socket.type # "datagram", socket'.type = socket.type,
           NEW n \in Nat, wire' = wire \o From(told + sending.total + 1, n),
           UNCHANGED <<received, receiving>>,
           told' + sending'.total = told + sending.total + n
    PROVE  BytesInOrder' /\ (n > 0 => wire' # <<>>)
<1>1. /\ wire \in Seq(Int) /\ received \in Seq(Int)
      /\ received = From(1, Len(received))
      /\ wire = From(Len(received) + receiving.total + 1, Len(wire))
      /\ Len(received) + receiving.total + Len(wire) = told + sending.total
  BY DEF SocketsInv, SocketTypes, BytesInOrder
<1>2. sending.total \in Nat /\ receiving.total \in Nat /\ told \in Nat
  BY TotalsAreNat DEF SocketsInv, SocketTypes
<1>3. PICK w \in Nat, r \in Nat, e \in Nat, s \in Nat :
        w = Len(wire) /\ r = Len(received) /\ e = receiving.total /\ s = told + sending.total
  BY <1>1, <1>2
<1>4. PICK k \in Int : k = r + e + 1 /\ s + 1 = k + w
  <2>1. r + e + w = s
    BY <1>1, <1>3
  <2> QED BY <2>1
<1>5. wire' = From(k, w) \o From(k + w, n)
  BY <1>1, <1>3, <1>4
<1>6. wire' = From(k, w + n)
  BY <1>5, FromJoin
<1>7. wire' \in Seq(Int) /\ Len(wire') = w + n
  <2>1. w + n \in Nat
    OBVIOUS
  <2> QED BY <1>6, <2>1, FromIs
<1>8. n > 0 => wire' # <<>>
  <2>1. n > 0 => Len(wire') # 0
    BY <1>7
  <2> QED BY <2>1
<1>9. Len(received') + receiving'.total + 1 = k /\ received' = From(1, Len(received'))
  BY <1>1, <1>3, <1>4
<1>10. Len(received') + receiving'.total + Len(wire') = told' + sending'.total
  <2>1. r + e + (w + n) = s + n
    BY <1>4
  <2> QED BY <1>3, <1>7, <2>1
<1> QED BY <1>6, <1>7, <1>8, <1>9, <1>10 DEF BytesInOrder

LEMMA MovedCount ==
    ASSUME NEW r \in Nat, NEW w \in Nat, NEW e \in Nat, NEW c \in Nat, NEW n \in Nat, NEW g \in Nat,
           c + g = e + n
    PROVE  (r + e + 1) + n = (r + c) + g + 1 /\ (r + c) + g + (w - n) = r + e + w
OBVIOUS

\* The first n bytes leave the wire; c more are in the hands of the receiver.
TakenOff(n) == n <= Len(wire) /\ wire' = SubSeq(wire, n + 1, Len(wire))
Gains(c, n) == /\ received' = From(1, Len(received) + c)
               /\ receiving'.total \in Nat /\ c + receiving'.total = receiving.total + n

LEMMA BytesReceived ==
    ASSUME SocketsInv, socket.type # "datagram", socket'.type = socket.type,
           NEW c \in Nat, NEW n \in Nat, TakenOff(n), Gains(c, n), UNCHANGED <<told, sending>>
    PROVE  BytesInOrder' /\ received' \in Seq(Int) /\ Len(received') = Len(received) + c
<1>1. /\ wire \in Seq(Int) /\ received \in Seq(Int)
      /\ wire = From(Len(received) + receiving.total + 1, Len(wire))
      /\ Len(received) + receiving.total + Len(wire) = told + sending.total
  BY DEF SocketsInv, SocketTypes, BytesInOrder
<1>2. sending.total \in Nat /\ receiving.total \in Nat /\ told \in Nat
  BY TotalsAreNat DEF SocketsInv, SocketTypes
<1>3. PICK w \in Nat, r \in Nat, e \in Nat, s \in Nat :
        w = Len(wire) /\ r = Len(received) /\ e = receiving.total /\ s = told + sending.total
  BY <1>1, <1>2
<1>4. PICK e1 \in Nat : e1 = receiving'.total /\ c + e1 = e + n
  BY <1>3 DEF Gains
<1>5. PICK k \in Int : k = r + e + 1 /\ wire = From(k, w)
  BY <1>1, <1>3
<1>6. n \in 0 .. w /\ n \in Nat /\ r + c \in Nat
  BY <1>3 DEF TakenOff
<1>6a. PICK v \in Nat, j \in Int : v = w - n /\ j = k + n
  BY <1>6
<1>6b. j = (r + c) + e1 + 1
  <2>1. (r + e + 1) + n = (r + c) + e1 + 1
    BY <1>4, MovedCount
  <2> QED BY <1>5, <1>6a, <2>1
<1>7. wire' = From(j, v)
  <2>1. wire' = SubSeq(From(k, w), n + 1, w)
    BY <1>3, <1>5 DEF TakenOff
  <2>2. SubSeq(From(k, w), n + 1, w) = From(k + n, w - n)
    BY <1>6, FromCut
  <2> QED BY <1>6a, <2>1, <2>2
<1>8. wire' \in Seq(Int) /\ Len(wire') = v
  BY <1>7, FromIs
<1>9. received' \in Seq(Int) /\ Len(received') = r + c /\ received' = From(1, r + c)
  BY <1>3, <1>6, FromIs DEF Gains
<1>10. received' = From(1, Len(received')) /\ wire' = From(Len(received') + receiving'.total + 1, Len(wire'))
  BY <1>3, <1>4, <1>6b, <1>7, <1>8, <1>9
<1>11. Len(received') + receiving'.total + Len(wire') = told' + sending'.total
  <2>1. (r + c) + e1 + v = s
    <3>1. r + e + w = s
      BY <1>1, <1>3
    <3>2. (r + c) + e1 = r + (e + n)
      <4>1. (r + c) + e1 = r + (c + e1)
        OBVIOUS
      <4> QED BY <1>4, <4>1
    <3>3. v + n = w
      BY <1>6a
    <3>4. r + (e + n) + v = r + e + (v + n)
      OBVIOUS
    <3> QED BY <3>1, <3>2, <3>3, <3>4
  <2>2. told' + sending'.total = s
    BY <1>3
  <2> QED BY <1>4, <1>8, <1>9, <2>1, <2>2
<1> QED BY <1>3, <1>8, <1>9, <1>10, <1>11 DEF BytesInOrder

\* What a caller takes out of its buffers goes on where what it has ends.
LEMMA TakesNext ==
    ASSUME received \in Seq(Int), received = From(1, Len(received)),
           NEW T \in Nat, NEW data \in [1 .. T -> Int], NEW n \in 0 .. T,
           \A x \in 1 .. n : data[x] = Len(received) + x
    PROVE  received \o SubSeq(data, 1, n) = From(1, Len(received) + n)
<1>1. PICK r \in Nat, k \in Int : r = Len(received) /\ k = r + 1
  OBVIOUS
<1>2. SubSeq(data, 1, n) = From(k, n)
  <2>1. \A x \in 1 .. n : data[x] = k + x - 1
    BY <1>1
  <2> HIDE DEF From
  <2> QED BY <2>1, PutInOrder
<1>3. n \in Nat /\ k = 1 + r /\ 1 \in Int
  BY <1>1
<1>4. From(1, r) \o From(1 + r, n) = From(1, r + n)
  BY <1>3, FromJoin
<1> QED BY <1>1, <1>2, <1>3, <1>4

-----------------------------------------------------------------------------
(* The initial states and the steps.                                       *)

LEMMA SocketsInitInv == SocketsInit => SocketsInv
<1> SUFFICES ASSUME SocketsInit PROVE SocketsInv
  OBVIOUS
<1>1. <<>> \in Seq(Int) /\ Len(<<>>) = 0 /\ <<>> \in Seq(Seq(Int))
  OBVIOUS
<1>2. From(1, 0) = <<>> /\ From(0 + 1, 0) = <<>>
  <2>1. 0 + 1 = 1
    OBVIOUS
  <2> QED BY <2>1, EmptyIsFrom
<1>3. SocketTypes
  BY <1>1 DEF SocketsInit, SocketTypes
<1>4. SendsWhole /\ ReceivesWhole
  BY DEF SocketsInit, SendsWhole, ReceivesWhole
<1>5. BytesInOrder
  BY <1>1, <1>2, NoMsgIs DEF SocketsInit, BytesInOrder
<1>6. OfOneDatagram(<<>>)
  BY <1>1, <1>2 DEF OfOneDatagram
<1>7. DatagramsWhole
  <2>1. \A j \in 1 .. Len(wire) : OfOneDatagram(wire[j])
    BY <1>1 DEF SocketsInit
  <2> QED BY <1>1, <1>6, <2>1 DEF SocketsInit, DatagramsWhole
<1> QED BY <1>3, <1>4, <1>5, <1>7 DEF SocketsInv

\* The parts that only what is sent and received disturbs.
LEMMA NothingMoved ==
    ASSUME SocketsInv, socket'.type = socket.type,
           UNCHANGED <<wire, told, sending, receiving, received>>
    PROVE  SendsWhole' /\ ReceivesWhole' /\ BytesInOrder' /\ DatagramsWhole'
<1>1. SendsWhole'
  BY DEF SocketsInv, SendsWhole
<1>2. ReceivesWhole'
  BY DEF SocketsInv, ReceivesWhole
<1>3. BytesInOrder'
  BY DEF SocketsInv, BytesInOrder
<1>4. DatagramsWhole'
  BY DEF SocketsInv, DatagramsWhole, OfOneDatagram
<1> QED BY <1>1, <1>2, <1>3, <1>4

LEMMA ConnectingKeeps ==
    ASSUME SocketsInv, PeerAnswers \/ Connect \/ ConnectPolls \/ CallerPolls
    PROVE  SocketsInv'
<1>1. UNCHANGED <<wire, told, sending, receiving, received, polled, passing, untold>>
  BY DEF PeerAnswers, Connect, ConnectPolls, CallerPolls
<1>2. /\ socket \in [type : {"stream", "datagram", "unix"}, connected : {"no", "trying", "yes", "refused"},
                     joined : BOOLEAN]
      /\ socket.joined => socket.connected = "yes"
  BY DEF SocketsInv, SocketTypes
<1>3. /\ socket' \in [type : {"stream", "datagram", "unix"}, connected : {"no", "trying", "yes", "refused"},
                      joined : BOOLEAN]
      /\ socket'.joined => socket'.connected = "yes"
      /\ socket'.type = socket.type
  <2>1. CASE PeerAnswers
    <3>1. PICK c \in {"yes", "refused"} : socket' = [socket EXCEPT !.connected = c]
      BY <2>1 DEF PeerAnswers
    <3>2. ~socket.joined
      BY <1>2, <2>1 DEF PeerAnswers
    <3> QED BY <1>2, <3>1, <3>2
  <2>2. CASE Connect
    <3>1. PICK now \in {"yes", "no", "trying"} :
              socket' = [socket EXCEPT !.connected = now, !.joined = now = "yes"]
      BY <2>2 DEF Connect
    <3> QED BY <1>2, <3>1
  <2>3. CASE ConnectPolls
    <3>1. \/ socket' = socket
          \/ socket.connected = "yes" /\ socket' = [socket EXCEPT !.joined = TRUE]
      BY <2>3 DEF ConnectPolls
    <3> QED BY <1>2, <3>1
  <2>4. CASE CallerPolls
    <3>1. socket' = [socket EXCEPT !.joined = socket.connected = "yes"]
      BY <2>4 DEF CallerPolls
    <3> QED BY <1>2, <3>1
  <2> QED BY <2>1, <2>2, <2>3, <2>4
<1>4. SocketTypes'
  BY <1>1, <1>3 DEF SocketsInv, SocketTypes
<1>5. SendsWhole' /\ ReceivesWhole' /\ BytesInOrder' /\ DatagramsWhole'
  BY <1>1, <1>3, NothingMoved
<1> QED BY <1>4, <1>5 DEF SocketsInv

LEMMA PollingKeeps ==
    ASSUME SocketsInv, Poll \/ \E others \in {0, PollSlots} : Pselect(others)
    PROVE  SocketsInv'
<1>1. UNCHANGED <<socket, wire, told, sending, receiving, received, passing, untold>>
  BY DEF Poll, Pselect
<1>2. polled' => wire # <<>>
  BY DEF Poll, Pselect
<1>3. SocketTypes'
  BY <1>1, <1>2 DEF SocketsInv, SocketTypes
<1>4. SendsWhole' /\ ReceivesWhole' /\ BytesInOrder' /\ DatagramsWhole'
  BY <1>1, NothingMoved
<1> QED BY <1>3, <1>4 DEF SocketsInv

-----------------------------------------------------------------------------
(* Sending.                                                                *)

LEMMA MsgSendKeeps ==
    ASSUME SocketsInv, NEW p \in Pieces, MsgSend(p)
    PROVE  SocketsInv'
<1>1. /\ socket.type = "stream" /\ sending = NoMsg
      /\ sending' = [NoMsg EXCEPT !.pieces = p, !.next = 1]
      /\ UNCHANGED <<socket, wire, told, receiving, received, polled, passing, untold>>
  BY DEF MsgSend
<1>2. p \in Seq(Nat)
  BY SocketsAssumption DEF SocketsAssumption
<1>3. sending' = [pieces |-> p, next |-> 1, total |-> 0, data |-> <<>>]
  BY <1>1 DEF NoMsg
<1>4. SocketTypes'
  BY <1>1 DEF SocketsInv, SocketTypes
<1>5. SendsWhole'
  <2>1. 1 \in 1 .. Len(p) + 1 /\ Before(p, 1) = 0
    BY <1>2, BeforeIs
  <2>2. \E i \in 1 .. Len(p) + 1 :
            sending' = [pieces |-> p, next |-> i, total |-> Before(p, i), data |-> <<>>]
    BY <1>3, <2>1
  <2> QED BY <1>1, <2>2 DEF SendsWhole
<1>6. ReceivesWhole'
  BY <1>1 DEF SocketsInv, ReceivesWhole
<1>7. BytesInOrder'
  <2>1. sending'.total = sending.total
    BY <1>1, <1>3, NoMsgIs
  <2> QED BY <1>1, <2>1 DEF SocketsInv, BytesInOrder
<1>8. DatagramsWhole'
  BY <1>1 DEF DatagramsWhole
<1> QED BY <1>4, <1>5, <1>6, <1>7, <1>8 DEF SocketsInv

\* What a sendmsg() under way is.
LEMMA SendingIs ==
    ASSUME SocketsInv, sending # NoMsg
    PROVE  /\ socket.type = "stream" /\ sending.pieces \in Seq(Nat)
           /\ sending.next \in 1 .. Len(sending.pieces) + 1
           /\ sending.pieces \in Pieces
           /\ sending = [pieces |-> sending.pieces, next |-> sending.next,
                         total |-> Before(sending.pieces, sending.next), data |-> <<>>]
<1>1. socket.type = "stream"
  BY DEF SocketsInv, SendsWhole
<1>2. PICK p \in Pieces : \E i \in 1 .. Len(p) + 1 :
          sending = [pieces |-> p, next |-> i, total |-> Before(p, i), data |-> <<>>]
  BY DEF SocketsInv, SendsWhole
<1>3. PICK i \in 1 .. Len(p) + 1 :
          sending = [pieces |-> p, next |-> i, total |-> Before(p, i), data |-> <<>>]
  BY <1>2
<1>4. p \in Seq(Nat)
  BY SocketsAssumption DEF SocketsAssumption
<1> QED BY <1>1, <1>3, <1>4

LEMMA SendStopsKeeps ==
    ASSUME SocketsInv, SendPieceFails \/ SendDone
    PROVE  SocketsInv'
<1>1. /\ told' = told + sending.total /\ sending' = NoMsg
      /\ UNCHANGED <<socket, wire, receiving, received, polled, passing, untold>>
  BY DEF SendPieceFails, SendDone, SendReturns
<1>2. sending # NoMsg
  <2>1. CASE SendPieceFails
    BY <2>1, NoMsgIs DEF SendPieceFails
  <2>2. CASE SendDone
    BY <2>2 DEF SendDone
  <2> QED BY <2>1, <2>2
<1>3. socket.type = "stream"
  BY <1>2, SendingIs
<1>4. sending.total \in Nat /\ told \in Nat
  BY TotalsAreNat DEF SocketsInv, SocketTypes
<1>5. SocketTypes'
  <2>1. told' \in Nat
    BY <1>1, <1>4
  <2> QED BY <1>1, <2>1 DEF SocketsInv, SocketTypes
<1>6. SendsWhole' /\ DatagramsWhole'
  BY <1>1, <1>3 DEF SendsWhole, DatagramsWhole
<1>7. ReceivesWhole'
  BY <1>1 DEF SocketsInv, ReceivesWhole
<1>8. BytesInOrder'
  <2>1. told' + sending'.total = told + sending.total
    BY <1>1, <1>4, NoMsgIs
  <2> QED BY <1>1, <2>1 DEF SocketsInv, BytesInOrder
<1> QED BY <1>5, <1>6, <1>7, <1>8 DEF SocketsInv

LEMMA SendPieceKeeps ==
    ASSUME SocketsInv, SendPiece
    PROVE  SocketsInv'
<1> DEFINE p == sending.pieces
           i == sending.next
<1>1. i \in 1 .. Len(p) /\ UNCHANGED <<socket, receiving, received, polled, passing, untold>>
  BY DEF SendPiece
<1>2. sending # NoMsg
  BY <1>1, NoMsgIs
<1>3. /\ socket.type = "stream" /\ p \in Seq(Nat) /\ p \in Pieces
      /\ sending = [pieces |-> p, next |-> i, total |-> Before(p, i), data |-> <<>>]
  BY <1>2, SendingIs
<1>4. /\ p[i] \in Nat /\ Before(p, i) \in Nat /\ Before(p, i + 1) = Before(p, i) + p[i]
      /\ i + 1 \in 1 .. Len(p) + 1
  <2>1. i \in 1 .. Len(p) + 1 /\ i + 1 \in 1 .. Len(p) + 1
    BY <1>1, <1>3
  <2> QED BY <1>1, <1>3, <2>1, BeforeIs
<1>5. told \in Nat /\ sending.total = Before(p, i)
  BY <1>3 DEF SocketsInv, SocketTypes
<1>6. ReceivesWhole'
  BY <1>1 DEF SocketsInv, ReceivesWhole
<1>7. DatagramsWhole'
  BY <1>1, <1>3 DEF DatagramsWhole
<1>8. ASSUME sending' = [pieces |-> p, next |-> i + 1, total |-> Before(p, i + 1), data |-> <<>>]
      PROVE  SendsWhole'
  BY <1>1, <1>3, <1>4, <1>8 DEF SendsWhole
<1>9. ASSUME told' \in Nat, polled => wire' # <<>>
      PROVE  SocketTypes'
  BY <1>1, <1>9 DEF SocketsInv, SocketTypes
<1>10. CASE p[i] = 0 /\ sending' = [sending EXCEPT !.next = @ + 1] /\ UNCHANGED <<wire, told>>
  <2>1. sending' = [pieces |-> p, next |-> i + 1, total |-> Before(p, i), data |-> <<>>]
    BY <1>3, <1>10
  <2>2. Before(p, i + 1) = Before(p, i)
    BY <1>4, <1>10
  <2>3. SendsWhole'
    BY <1>8, <2>1, <2>2
  <2>4. SocketTypes'
    <3>1. told' \in Nat /\ (polled => wire' # <<>>)
      BY <1>5, <1>10 DEF SocketsInv, SocketTypes
    <3> QED BY <1>9, <3>1
  <2>5. BytesInOrder'
    <3>1. sending'.total = sending.total
      BY <1>5, <2>1
    <3> QED BY <1>1, <1>10, <3>1 DEF SocketsInv, BytesInOrder
  <2> QED BY <1>6, <1>7, <2>3, <2>4, <2>5 DEF SocketsInv
<1>11. ASSUME NEW n \in 1 .. p[i], KernelSends(told + Before(p, i) + 1, p[i], n),
              IF n < p[i] THEN SendReturns(sending.total + n)
              ELSE /\ sending' = [sending EXCEPT !.next = @ + 1, !.total = @ + n]
                   /\ UNCHANGED told
       PROVE  SocketsInv'
  <2>1. n \in Nat /\ n > 0 /\ n <= p[i]
    BY <1>4, <1>11
  <2>2. wire' = wire \o From(told + sending.total + 1, n)
    BY <1>5, <1>11 DEF KernelSends
  <2>3. /\ SendsWhole' /\ told' \in Nat
        /\ told' + sending'.total = told + sending.total + n
    <3>1. CASE n < p[i]
      <4>1. told' = told + (sending.total + n) /\ sending' = NoMsg
        BY <1>11, <3>1 DEF SendReturns
      <4>2. SendsWhole'
        BY <4>1 DEF SendsWhole
      <4> QED BY <1>4, <1>5, <2>1, <4>1, <4>2, NoMsgIs
    <3>2. CASE ~(n < p[i])
      <4>1. n = p[i]
        BY <1>4, <2>1, <3>2
      <4>2. /\ sending' = [pieces |-> p, next |-> i + 1, total |-> Before(p, i) + n, data |-> <<>>]
            /\ told' = told
        <5>1. sending' = [sending EXCEPT !.next = @ + 1, !.total = @ + n] /\ told' = told
          BY <1>11, <3>2
        <5>2. PICK u, v : u = sending.total + n /\ v = sending.next + 1
          OBVIOUS
        <5>3. sending' = [sending EXCEPT !.next = v, !.total = u]
          BY <5>1, <5>2
        <5>4. sending' = [pieces |-> p, next |-> v, total |-> u, data |-> <<>>]
          <6>1. PICK q, a, b : q = p /\ a = i /\ b = Before(p, i)
            OBVIOUS
          <6>2. sending = [pieces |-> q, next |-> a, total |-> b, data |-> <<>>]
            BY <1>3, <6>1
          <6>3. PICK m : m = [sending EXCEPT !.next = v]
            OBVIOUS
          <6>4. m = [pieces |-> q, next |-> v, total |-> b, data |-> <<>>]
            BY <6>2, <6>3
          <6>5. [m EXCEPT !.total = u] = [pieces |-> q, next |-> v, total |-> u, data |-> <<>>]
            BY <6>4
          <6>6. sending' = [m EXCEPT !.total = u]
            BY <5>3, <6>3
          <6> QED BY <6>1, <6>5, <6>6
        <5> QED BY <1>5, <5>1, <5>2, <5>4
      <4>3. SendsWhole'
        BY <1>4, <1>8, <4>1, <4>2
      <4> QED BY <1>4, <1>5, <2>1, <4>2, <4>3
    <3> QED BY <3>1, <3>2
  <2>4. BytesInOrder' /\ (n > 0 => wire' # <<>>)
    <3>1. socket.type # "datagram" /\ socket'.type = socket.type
      BY <1>1, <1>3
    <3>2. UNCHANGED <<received, receiving>>
      BY <1>1
    <3> QED BY <2>1, <2>2, <2>3, <3>1, <3>2, BytesSent
  <2>5. SocketTypes'
    BY <1>9, <2>1, <2>3, <2>4
  <2> QED BY <1>6, <1>7, <2>3, <2>4, <2>5 DEF SocketsInv
<1> QED BY <1>10, <1>11 DEF SendPiece

\* One SEND of a byte stream that is not one of a sendmsg().
LEMMA OneSendKeeps ==
    ASSUME SocketsInv, socket.type # "datagram", sending = NoMsg,
           NEW n \in Nat, n > 0, NEW len, KernelSends(told + 1, len, n), told' = told + n,
           passing' \in Nat,
           UNCHANGED <<socket, sending, receiving, received, polled, untold>>
    PROVE  SocketsInv'
<1>1. told \in Nat /\ sending.total = 0
  BY NoMsgIs DEF SocketsInv, SocketTypes
<1>2. wire' = wire \o From(told + sending.total + 1, n)
  <2>1. told + sending.total + 1 = told + 1
    BY <1>1
  <2> QED BY <2>1 DEF KernelSends
<1>3. told' + sending'.total = told + sending.total + n
  BY <1>1
<1>4. BytesInOrder' /\ (n > 0 => wire' # <<>>)
  BY <1>2, <1>3, BytesSent
<1>5. told' \in Nat
  BY <1>1
<1>6. SocketTypes'
  BY <1>4, <1>5 DEF SocketsInv, SocketTypes
<1>7. SendsWhole' /\ DatagramsWhole'
  BY DEF SendsWhole, DatagramsWhole
<1>8. ReceivesWhole'
  BY DEF SocketsInv, ReceivesWhole
<1> QED BY <1>4, <1>6, <1>7, <1>8 DEF SocketsInv

LEMMA SendtoKeeps ==
    ASSUME SocketsInv, NEW len \in 1 .. 2, Sendto(len)
    PROVE  SocketsInv'
<1>1. /\ socket.type # "datagram" /\ sending = NoMsg
      /\ UNCHANGED <<socket, sending, receiving, received, polled, untold, passing>>
  BY DEF Sendto
<1>2. PICK n \in 1 .. len : KernelSends(told + 1, len, n) /\ told' = told + n
  BY DEF Sendto
<1>3. n \in Nat /\ n > 0
  OBVIOUS
<1>4. passing' \in Nat
  BY <1>1 DEF SocketsInv, SocketTypes
<1> QED BY <1>1, <1>2, <1>3, <1>4, OneSendKeeps

LEMMA UnixMsgSendKeeps ==
    ASSUME SocketsInv, NEW p \in Pieces, NEW fds \in 0 .. 2, UnixMsgSend(p, fds)
    PROVE  SocketsInv'
<1>1. /\ socket.type = "unix" /\ passing' = passing + fds
      /\ UNCHANGED <<socket, sending, receiving, received, polled, untold>>
  BY DEF UnixMsgSend
<1>2. PICK n \in 1 .. iov_total(p) : KernelSends(told + 1, iov_total(p), n) /\ told' = told + n
  BY DEF UnixMsgSend
<1>3. n \in Nat /\ n > 0
  <2>1. iov_total(p) \in Nat
    BY BeforeIs, SocketsAssumption DEF SocketsAssumption
  <2> QED BY <2>1
<1>4. passing' \in Nat
  BY <1>1 DEF SocketsInv, SocketTypes
<1>5. sending = NoMsg /\ socket.type # "datagram"
  BY <1>1 DEF SocketsInv, SendsWhole
<1> QED BY <1>1, <1>2, <1>3, <1>4, <1>5, OneSendKeeps

\* A message with a byte in it has a piece with one.
LEMMA NotEmpty ==
    ASSUME NEW p \in Pieces, iov_total(p) > 0
    PROVE  MaxBytes >= 2
<1>1. p \in Seq(Nat) /\ MaxBytes \in Nat /\ \A i \in DOMAIN p : p[i] < MaxBytes
  BY SocketsAssumption DEF SocketsAssumption
<1> SUFFICES ASSUME ~(MaxBytes >= 2) PROVE FALSE
  OBVIOUS
<1>2. \A i \in 1 .. Len(p) : p[i] = 0
  <2>1. DOMAIN p = 1 .. Len(p) /\ \A i \in 1 .. Len(p) : p[i] \in Nat
    BY <1>1
  <2> QED BY <1>1, <2>1
<1> DEFINE f == [j \in 0 .. Len(p) |-> 0]
<1>3. Len(p) \in Nat /\ Len(p) \in 0 .. Len(p)
  BY <1>1
<1>4. InStep(Sums(p), f, Len(p))
  <2>1. /\ Sums(p) \in [0 .. Len(p) -> Nat] /\ Sums(p)[0] = 0
        /\ \A j \in 1 .. Len(p) : Sums(p)[j] = Sums(p)[j - 1] + p[j]
    BY <1>1, SumsAdd
  <2>2. ASSUME NEW j \in 1 .. Len(p), Sums(p)[j - 1] = f[j - 1] PROVE Sums(p)[j] = f[j]
    <3>1. j \in 0 .. Len(p) /\ j - 1 \in 0 .. Len(p)
      BY <1>3
    <3>2. Sums(p)[j - 1] = 0 /\ f[j] = 0
      BY <2>2, <3>1
    <3> QED BY <1>2, <2>1, <3>2
  <2>3. f[0] = 0
    BY <1>3
  <2> HIDE DEF f
  <2> QED BY <2>1, <2>2, <2>3 DEF InStep
<1>5. Sums(p)[Len(p)] = f[Len(p)]
  BY <1>3, <1>4, RecursionIsUnique
<1>6. iov_total(p) = 0
  <2>1. (Len(p) + 1) - 1 = Len(p)
    BY <1>3
  <2> QED BY <1>3, <1>5, <2>1 DEF iov_total, Before
<1> QED BY <1>6

LEMMA SendDatagramKeeps ==
    ASSUME SocketsInv, NEW p \in Pieces, SendDatagram(p)
    PROVE  SocketsInv'
<1>1. /\ socket.type = "datagram" /\ iov_total(p) > 0 /\ told < 2 * MaxBytes
      /\ told' = told + MaxBytes
      /\ UNCHANGED <<socket, sending, receiving, received, polled, passing, untold>>
  BY DEF SendDatagram
<1>2. wire' = wire \/ wire' = Append(wire, From(told + 1, iov_total(p)))
  BY DEF SendDatagram
<1>3. /\ told \in {0, MaxBytes, 2 * MaxBytes} /\ MaxBytes \in Nat
      /\ wire \in Seq(Seq(Int)) /\ (\A j \in 1 .. Len(wire) : OfOneDatagram(wire[j]))
      /\ OfOneDatagram(received)
  BY <1>1, SocketsAssumption DEF SocketsInv, DatagramsWhole, SocketsAssumption
<1>4. told \in {0, MaxBytes}
  BY <1>1, <1>3
<1>5. told' \in {0, MaxBytes, 2 * MaxBytes} /\ told' \in Nat
  <2>1. CASE told = 0
    BY <1>1, <1>3, <2>1
  <2>2. CASE told = MaxBytes
    BY <1>1, <1>3, <2>2
  <2> QED BY <1>4, <2>1, <2>2
<1>6. MaxBytes >= 2
  BY <1>1, NotEmpty
<1>7. PICK d : d = From(told + 1, iov_total(p))
  OBVIOUS
<1>8. d \in Seq(Int) /\ OfOneDatagram(d)
  <2>1. iov_total(p) \in Nat /\ told + 1 \in Int
    BY <1>3, <1>4, BeforeIs, SocketsAssumption DEF SocketsAssumption
  <2>2. d \in Seq(Int) /\ Len(d) = iov_total(p)
    BY <1>7, <2>1, FromIs
  <2> QED BY <1>4, <1>7, <2>2 DEF OfOneDatagram
<1>9. /\ wire' \in Seq(Seq(Int)) /\ \A j \in 1 .. Len(wire') : OfOneDatagram(wire'[j])
      /\ wire # <<>> => wire' # <<>>
  <2>1. CASE wire' = wire
    BY <1>3, <2>1
  <2>2. CASE wire' = Append(wire, d)
    <3>1. /\ Append(wire, d) \in Seq(Seq(Int)) /\ Len(Append(wire, d)) = Len(wire) + 1
          /\ \A j \in 1 .. Len(wire) : Append(wire, d)[j] = wire[j]
          /\ Append(wire, d)[Len(wire) + 1] = d
      BY <1>3, <1>8
    <3>2. ASSUME NEW j \in 1 .. Len(wire') PROVE OfOneDatagram(wire'[j])
      <4>1. Len(wire) \in Nat /\ (j \in 1 .. Len(wire) \/ j = Len(wire) + 1)
        BY <1>3, <2>2, <3>1
      <4> QED BY <1>3, <1>8, <2>2, <3>1, <4>1
    <3>3. wire' # <<>>
      <4>1. Len(wire') # 0
        BY <1>3, <2>2, <3>1
      <4> QED BY <4>1
    <3> QED BY <2>2, <3>1, <3>2, <3>3
  <2> QED BY <1>2, <1>7, <2>1, <2>2
<1>10. SocketTypes'
  BY <1>1, <1>5, <1>9 DEF SocketsInv, SocketTypes
<1>11. SendsWhole'
  BY <1>1 DEF SocketsInv, SendsWhole
<1>12. ReceivesWhole'
  BY <1>1 DEF SocketsInv, ReceivesWhole
<1>13. BytesInOrder'
  BY <1>1 DEF BytesInOrder
<1>14. DatagramsWhole'
  <2>1. OfOneDatagram(received)'
    BY <1>1, <1>3 DEF OfOneDatagram
  <2>2. \A j \in 1 .. Len(wire') : OfOneDatagram(wire[j])'
    BY <1>9 DEF OfOneDatagram
  <2> QED BY <1>1, <1>5, <1>6, <1>9, <2>1, <2>2 DEF DatagramsWhole
<1> QED BY <1>10, <1>11, <1>12, <1>13, <1>14 DEF SocketsInv

-----------------------------------------------------------------------------
(* Receiving.                                                              *)

LEMMA MsgRecvKeeps ==
    ASSUME SocketsInv, NEW p \in Pieces, MsgRecv(p)
    PROVE  SocketsInv'
<1>1. /\ socket.type = "stream" /\ receiving = NoMsg
      /\ receiving' = [NoMsg EXCEPT !.pieces = p, !.next = 1, !.data = Blank(p)]
      /\ UNCHANGED <<socket, wire, told, sending, received, polled, passing, untold>>
  BY DEF MsgRecv
<1>2. p \in Seq(Nat)
  BY SocketsAssumption DEF SocketsAssumption
<1>3. receiving' = [pieces |-> p, next |-> 1, total |-> 0, data |-> Blank(p)]
  BY <1>1 DEF NoMsg
<1>4. SocketTypes'
  BY <1>1 DEF SocketsInv, SocketTypes
<1>5. SendsWhole'
  BY <1>1 DEF SocketsInv, SendsWhole
<1>6. ReceivesWhole'
  <2>1. 1 \in 1 .. Len(p) + 1 /\ Before(p, 1) = 0 /\ iov_total(p) \in Nat
    BY <1>2, BeforeIs
  <2>2. Blank(p) \in [1 .. iov_total(p) -> Int]
    BY DEF Blank
  <2>3. /\ receiving' = [pieces |-> p, next |-> 1, total |-> Before(p, 1), data |-> receiving'.data]
        /\ receiving'.data \in [1 .. iov_total(p) -> Int]
        /\ \A x \in 1 .. Before(p, 1) : receiving'.data[x] = Len(received') + x
    BY <1>3, <2>1, <2>2
  <2> QED BY <1>1, <2>1, <2>3 DEF ReceivesWhole
<1>7. BytesInOrder'
  <2>1. receiving'.total = receiving.total
    BY <1>1, <1>3, NoMsgIs
  <2> QED BY <1>1, <2>1 DEF SocketsInv, BytesInOrder
<1>8. DatagramsWhole'
  BY <1>1 DEF DatagramsWhole
<1> QED BY <1>4, <1>5, <1>6, <1>7, <1>8 DEF SocketsInv

\* What a recvmsg() under way is.
LEMMA ReceivingIs ==
    ASSUME SocketsInv, receiving # NoMsg
    PROVE  /\ socket.type = "stream" /\ receiving.pieces \in Seq(Nat) /\ receiving.pieces \in Pieces
           /\ receiving.next \in 1 .. Len(receiving.pieces) + 1
           /\ receiving = [pieces |-> receiving.pieces, next |-> receiving.next,
                           total |-> Before(receiving.pieces, receiving.next), data |-> receiving.data]
           /\ receiving.data \in [1 .. iov_total(receiving.pieces) -> Int]
           /\ \A x \in 1 .. Before(receiving.pieces, receiving.next) :
                  receiving.data[x] = Len(received) + x
<1>1. socket.type = "stream"
  BY DEF SocketsInv, ReceivesWhole
<1>2. PICK p \in Pieces : \E i \in 1 .. Len(p) + 1 :
          /\ receiving = [pieces |-> p, next |-> i, total |-> Before(p, i), data |-> receiving.data]
          /\ receiving.data \in [1 .. iov_total(p) -> Int]
          /\ \A x \in 1 .. Before(p, i) : receiving.data[x] = Len(received) + x
  BY DEF SocketsInv, ReceivesWhole
<1>3. PICK i \in 1 .. Len(p) + 1 :
          /\ receiving = [pieces |-> p, next |-> i, total |-> Before(p, i), data |-> receiving.data]
          /\ receiving.data \in [1 .. iov_total(p) -> Int]
          /\ \A x \in 1 .. Before(p, i) : receiving.data[x] = Len(received) + x
  BY <1>2
<1>4. p \in Seq(Nat)
  BY SocketsAssumption DEF SocketsAssumption
<1>5. receiving.pieces = p /\ receiving.next = i
  BY <1>3
<1> QED BY <1>1, <1>3, <1>4, <1>5

\* The next bytes go behind those that are there.
Continues(d, r, b) == \A x \in 1 .. b : d[x] = r + x

LEMMA PutNext ==
    ASSUME NEW T \in Nat, NEW d \in [1 .. T -> Int], NEW b \in Nat, NEW n \in Nat, b + n <= T,
           NEW r \in Nat, Continues(d, r, b)
    PROVE  /\ PutAt(d, b + 1, From(r + b + 1, n)) \in [1 .. T -> Int]
           /\ Continues(PutAt(d, b + 1, From(r + b + 1, n)), r, b + n)
<1>1. PICK k, bytes : k \in Int /\ k = r + b + 1 /\ bytes = From(k, n)
  OBVIOUS
<1>2. Len(bytes) = n /\ \A i \in 1 .. n : bytes[i] = k + i - 1
  BY <1>1, FromIs
<1>3. PutAt(d, b + 1, bytes) =
        [x \in 1 .. T |-> IF x \in b + 1 .. (b + 1) + n - 1 THEN bytes[x - (b + 1) + 1] ELSE d[x]]
  BY <1>2 DEF PutAt
<1>4. ASSUME NEW x \in b + 1 .. (b + 1) + n - 1
      PROVE  bytes[x - (b + 1) + 1] = r + x
  <2>1. PICK i \in 1 .. n : i = x - (b + 1) + 1
    OBVIOUS
  <2>2. bytes[i] = k + i - 1
    BY <1>2
  <2>3. k + i - 1 = r + x
    BY <1>1, <2>1
  <2> QED BY <2>1, <2>2, <2>3
<1>5. ASSUME NEW x \in 1 .. T
      PROVE  (IF x \in b + 1 .. (b + 1) + n - 1 THEN bytes[x - (b + 1) + 1] ELSE d[x]) \in Int
  <2>1. CASE x \in b + 1 .. (b + 1) + n - 1
    <3>1. bytes[x - (b + 1) + 1] = r + x
      BY <1>4, <2>1
    <3>2. r + x \in Int
      OBVIOUS
    <3> QED BY <2>1, <3>1, <3>2
  <2>2. CASE x \notin b + 1 .. (b + 1) + n - 1
    <3>1. d[x] \in Int
      OBVIOUS
    <3> QED BY <2>2, <3>1
  <2> QED BY <2>1, <2>2
<1>6. PutAt(d, b + 1, bytes) \in [1 .. T -> Int]
  BY <1>3, <1>5
<1>7. ASSUME NEW x \in 1 .. b + n
      PROVE  PutAt(d, b + 1, bytes)[x] = r + x
  <2>1. x \in 1 .. T /\ (x \in 1 .. b \/ x \in b + 1 .. (b + 1) + n - 1)
    OBVIOUS
  <2>2. CASE x \in b + 1 .. (b + 1) + n - 1
    BY <1>3, <1>4, <2>1, <2>2
  <2>3. CASE x \in 1 .. b /\ x \notin b + 1 .. (b + 1) + n - 1
    BY <1>3, <2>1, <2>3 DEF Continues
  <2> QED BY <2>1, <2>2, <2>3
<1> QED BY <1>1, <1>6, <1>7 DEF Continues

\* The receiver takes what it has in its buffers, and the call is over.
LEMMA RecvStopsKeeps ==
    ASSUME SocketsInv, RecvPieceFails \/ RecvDone
    PROVE  SocketsInv'
<1>1. /\ received' = received \o SubSeq(receiving.data, 1, receiving.total) /\ receiving' = NoMsg
      /\ UNCHANGED <<socket, wire, told, sending, polled, passing, untold>>
  BY DEF RecvPieceFails, RecvDone, RecvReturns
<1>2. receiving # NoMsg
  <2>1. CASE RecvPieceFails
    BY <2>1, NoMsgIs DEF RecvPieceFails
  <2>2. CASE RecvDone
    BY <2>2 DEF RecvDone
  <2> QED BY <2>1, <2>2
<1>3. PICK p, i : p \in Seq(Nat) /\ p = receiving.pieces /\ i = receiving.next
  BY <1>2, ReceivingIs
<1>4. /\ socket.type = "stream" /\ i \in 1 .. Len(p) + 1
      /\ receiving.total = Before(p, i) /\ receiving.data \in [1 .. iov_total(p) -> Int]
      /\ \A x \in 1 .. Before(p, i) : receiving.data[x] = Len(received) + x
  BY <1>2, <1>3, ReceivingIs
<1>5. iov_total(p) \in Nat /\ Before(p, i) \in 0 .. iov_total(p) /\ Before(p, i) \in Nat
  <2>1. iov_total(p) \in Nat /\ Before(p, i) \in Nat /\ Before(p, i) <= iov_total(p)
    BY <1>3, <1>4, BeforeIs
  <2> QED BY <2>1
<1>6. received \in Seq(Int) /\ received = From(1, Len(received)) /\ wire \in Seq(Int)
  BY <1>4 DEF SocketsInv, SocketTypes, BytesInOrder
<1>7. received' = From(1, Len(received) + Before(p, i))
  <2>0. PICK T \in Nat : T = iov_total(p)
    BY <1>5
  <2>1. PICK b \in 0 .. T : b = Before(p, i)
    BY <1>5, <2>0
  <2>2. PICK d \in [1 .. T -> Int] : d = receiving.data
    BY <1>4, <2>0
  <2>3. \A x \in 1 .. b : d[x] = Len(received) + x
    BY <1>4, <2>1, <2>2
  <2>4. received \o SubSeq(d, 1, b) = From(1, Len(received) + b)
    BY <1>6, <2>3, TakesNext
  <2> QED BY <1>1, <1>4, <2>1, <2>2, <2>4
<1>8. Gains(Before(p, i), 0)
  <2>1. Before(p, i) + 0 = Before(p, i) + 0 /\ receiving'.total = 0
    BY <1>1, NoMsgIs
  <2> QED BY <1>4, <1>7, <2>1 DEF Gains
<1>9. TakenOff(0)
  <2>1. 0 <= Len(wire) /\ SubSeq(wire, 0 + 1, Len(wire)) = wire
    BY <1>6
  <2> QED BY <1>1, <2>1 DEF TakenOff
<1>10. BytesInOrder' /\ received' \in Seq(Int)
  <2>1. UNCHANGED <<told, sending>> /\ socket'.type = socket.type /\ socket.type # "datagram"
    BY <1>1, <1>4
  <2>2. 0 \in Nat
    OBVIOUS
  <2> QED BY <1>5, <1>8, <1>9, <2>1, <2>2, BytesReceived
<1>11. SocketTypes'
  BY <1>1, <1>10 DEF SocketsInv, SocketTypes
<1>12. SendsWhole'
  BY <1>1 DEF SocketsInv, SendsWhole
<1>13. ReceivesWhole' /\ DatagramsWhole'
  BY <1>1, <1>4 DEF ReceivesWhole, DatagramsWhole
<1> QED BY <1>10, <1>11, <1>12, <1>13 DEF SocketsInv

LEMMA RecvPieceKeeps ==
    ASSUME SocketsInv, RecvPiece
    PROVE  SocketsInv'
<1>0. PICK p, i : p = receiving.pieces /\ i = receiving.next
  OBVIOUS
<1>1. /\ i \in 1 .. Len(p) /\ polled' = FALSE
      /\ UNCHANGED <<socket, told, sending, passing, untold>>
  BY <1>0 DEF RecvPiece
<1>2. receiving # NoMsg
  BY <1>0, <1>1, NoMsgIs
<1>3. /\ socket.type = "stream" /\ p \in Seq(Nat) /\ p \in Pieces
      /\ receiving = [pieces |-> p, next |-> i, total |-> Before(p, i), data |-> receiving.data]
      /\ receiving.data \in [1 .. iov_total(p) -> Int]
      /\ \A x \in 1 .. Before(p, i) : receiving.data[x] = Len(received) + x
  BY <1>0, <1>2, ReceivingIs
<1>4. /\ p[i] \in Nat /\ Before(p, i) \in Nat /\ Before(p, i + 1) = Before(p, i) + p[i]
      /\ Before(p, i + 1) <= iov_total(p) /\ iov_total(p) \in Nat
      /\ i + 1 \in 1 .. Len(p) + 1
  <2>1. i \in 1 .. Len(p) + 1 /\ i + 1 \in 1 .. Len(p) + 1
    BY <1>1, <1>3
  <2> QED BY <1>1, <1>3, <2>1, BeforeIs
<1>5. /\ received \in Seq(Int) /\ received = From(1, Len(received)) /\ wire \in Seq(Int)
      /\ wire = From(Len(received) + Before(p, i) + 1, Len(wire))
  BY <1>3 DEF SocketsInv, SocketTypes, BytesInOrder
<1>6. PICK r \in Nat, b \in Nat, w \in Nat, T \in Nat :
        r = Len(received) /\ b = Before(p, i) /\ w = Len(wire) /\ T = iov_total(p)
  BY <1>4, <1>5
<1>7. PICK d \in [1 .. T -> Int] : d = receiving.data
  BY <1>3, <1>6
<1>8. receiving = [pieces |-> p, next |-> i, total |-> b, data |-> d] /\ \A x \in 1 .. b : d[x] = r + x
  BY <1>3, <1>6, <1>7
<1>9. SendsWhole'
  BY <1>1 DEF SocketsInv, SendsWhole
<1>10. DatagramsWhole'
  BY <1>1, <1>3 DEF DatagramsWhole
<1>11. socket'.type = socket.type /\ socket.type # "datagram" /\ UNCHANGED <<told, sending>>
  BY <1>1, <1>3
<1>12. ASSUME received' \in Seq(Int) PROVE SocketTypes'
  BY <1>1, <1>12 DEF SocketsInv, SocketTypes
<1>13. CASE p[i] = 0 /\ receiving' = [receiving EXCEPT !.next = @ + 1] /\ UNCHANGED <<wire, received>>
  <2>1. receiving' = [pieces |-> p, next |-> i + 1, total |-> b, data |-> d]
    BY <1>8, <1>13
  <2>2. Before(p, i + 1) = b
    BY <1>4, <1>6, <1>13
  <2>3. ReceivesWhole'
    <3>1. /\ receiving' = [pieces |-> p, next |-> i + 1, total |-> Before(p, i + 1), data |-> receiving'.data]
          /\ receiving'.data \in [1 .. iov_total(p) -> Int]
          /\ \A x \in 1 .. Before(p, i + 1) : receiving'.data[x] = Len(received') + x
      BY <1>6, <1>8, <1>13, <2>1, <2>2
    <3> QED BY <1>1, <1>3, <1>4, <3>1 DEF ReceivesWhole
  <2>4. SocketTypes'
    BY <1>5, <1>12, <1>13
  <2>5. BytesInOrder'
    <3>1. receiving'.total = receiving.total
      BY <1>8, <2>1
    <3> QED BY <1>1, <1>13, <3>1 DEF SocketsInv, BytesInOrder
  <2> QED BY <1>9, <1>10, <2>3, <2>4, <2>5 DEF SocketsInv
<1>14. ASSUME NEW n \in 1 .. Smaller(p[i], Len(wire)), wire' = SubSeq(wire, n + 1, Len(wire)),
              NEW data, data = PutAt(receiving.data, Before(p, i) + 1, SubSeq(wire, 1, n)),
              IF n < p[i] THEN RecvReturns(receiving.total + n, data)
              ELSE /\ receiving' = [receiving EXCEPT !.next = @ + 1, !.total = @ + n, !.data = data]
                   /\ UNCHANGED received
       PROVE  SocketsInv'
  <2>1. n \in Nat /\ n <= p[i] /\ n <= w /\ n \in 0 .. w
    BY <1>4, <1>6 DEF Smaller
  <2>2. TakenOff(n)
    BY <1>6, <1>14, <2>1 DEF TakenOff
  <2>3. b + n <= T /\ b + n \in Nat
    BY <1>4, <1>6, <2>1
  <2>4. data = PutAt(d, b + 1, From(r + b + 1, n))
    <3>1. PICK k \in Int : k = r + b + 1 /\ wire = From(k, w)
      BY <1>5, <1>6
    <3>2. SubSeq(From(k, w), 1, n) = From(k, n)
      BY <2>1, FromCut
    <3>3. SubSeq(wire, 1, n) = From(r + b + 1, n)
      BY <3>1, <3>2
    <3> QED BY <1>6, <1>7, <1>14, <3>3
  <2>5. data \in [1 .. T -> Int] /\ \A x \in 1 .. b + n : data[x] = r + x
    <3>1. Continues(d, r, b)
      BY <1>8 DEF Continues
    <3>2. /\ PutAt(d, b + 1, From(r + b + 1, n)) \in [1 .. T -> Int]
          /\ Continues(PutAt(d, b + 1, From(r + b + 1, n)), r, b + n)
      BY <2>1, <2>3, <3>1, PutNext
    <3> QED BY <2>4, <3>2 DEF Continues
  <2>6. CASE n < p[i]
    <3>1. received' = received \o SubSeq(data, 1, b + n) /\ receiving' = NoMsg
      BY <1>8, <1>14, <2>6 DEF RecvReturns
    <3>2. received' = From(1, Len(received) + (b + n))
      <4>1. b + n \in 0 .. T
        BY <2>3
      <4>2. \A x \in 1 .. b + n : data[x] = Len(received) + x
        BY <1>6, <2>5
      <4> HIDE DEF From
      <4> QED BY <1>5, <2>5, <3>1, <4>1, <4>2, TakesNext
    <3>3. Gains(b + n, n)
      <4>1. receiving'.total = 0 /\ receiving.total = b
        BY <1>8, <3>1, NoMsgIs
      <4> QED BY <2>1, <2>3, <3>2, <4>1 DEF Gains
    <3>4. BytesInOrder' /\ received' \in Seq(Int)
      BY <1>11, <2>1, <2>2, <2>3, <3>3, BytesReceived
    <3>5. ReceivesWhole'
      BY <3>1 DEF ReceivesWhole
    <3> QED BY <1>9, <1>10, <1>12, <3>4, <3>5 DEF SocketsInv
  <2>7. CASE ~(n < p[i])
    <3>1. n = p[i]
      BY <1>4, <2>1, <2>7
    <3>2. PICK u, v : u = b + n /\ v = i + 1
      OBVIOUS
    <3>3. receiving' = [pieces |-> p, next |-> v, total |-> u, data |-> data] /\ received' = received
      <4>1. receiving' = [receiving EXCEPT !.next = v, !.total = u, !.data = data] /\ received' = received
        <5>1. receiving' = [receiving EXCEPT !.next = @ + 1, !.total = @ + n, !.data = data] /\ received' = received
          BY <1>14, <2>7
        <5>2. receiving.next + 1 = v /\ receiving.total + n = u
          BY <1>8, <3>2
        <5> QED BY <5>1, <5>2
      <4>2. PICK m : m = [receiving EXCEPT !.next = v]
        OBVIOUS
      <4>3. m = [pieces |-> p, next |-> v, total |-> b, data |-> d]
        BY <1>8, <4>2
      <4>4. PICK m2 : m2 = [m EXCEPT !.total = u]
        OBVIOUS
      <4>5. m2 = [pieces |-> p, next |-> v, total |-> u, data |-> d]
        BY <4>3, <4>4
      <4>6. [m2 EXCEPT !.data = data] = [pieces |-> p, next |-> v, total |-> u, data |-> data]
        BY <4>5
      <4>7. receiving' = [m2 EXCEPT !.data = data]
        BY <4>1, <4>2, <4>4
      <4> QED BY <4>1, <4>6, <4>7
    <3>4. u = Before(p, i + 1) /\ v \in 1 .. Len(p) + 1 /\ u \in Nat
      BY <1>4, <1>6, <2>3, <3>1, <3>2
    <3>5. ReceivesWhole'
      <4>1. /\ receiving' = [pieces |-> p, next |-> v, total |-> Before(p, v), data |-> receiving'.data]
            /\ receiving'.data = data
        BY <3>2, <3>3, <3>4
      <4>2. data \in [1 .. iov_total(p) -> Int]
        BY <1>6, <2>5
      <4>3. \A x \in 1 .. Before(p, v) : data[x] = Len(received') + x
        BY <1>6, <2>5, <3>2, <3>3, <3>4
      <4> QED BY <1>1, <1>3, <3>4, <4>1, <4>2, <4>3 DEF ReceivesWhole
    <3>6. Gains(0, n)
      <4>1. Len(received) + 0 = Len(received)
        BY <1>6
      <4>2. receiving'.total = b + n /\ receiving.total = b
        BY <1>8, <3>2, <3>3
      <4>3. 0 + (b + n) = b + n
        BY <2>3
      <4> QED BY <1>5, <2>3, <3>3, <4>1, <4>2, <4>3 DEF Gains
    <3>7. BytesInOrder' /\ received' \in Seq(Int)
      <4>1. 0 \in Nat
        OBVIOUS
      <4> QED BY <1>11, <2>1, <2>2, <3>6, <4>1, BytesReceived
    <3> QED BY <1>9, <1>10, <1>12, <3>5, <3>7 DEF SocketsInv
  <2> QED BY <2>6, <2>7
<1>15. \/ p[i] = 0 /\ receiving' = [receiving EXCEPT !.next = @ + 1] /\ UNCHANGED <<wire, received>>
       \/ \E n \in 1 .. Smaller(p[i], Len(wire)) :
             /\ wire' = SubSeq(wire, n + 1, Len(wire))
             /\ \E data \in {PutAt(receiving.data, Before(p, i) + 1, SubSeq(wire, 1, n))} :
                   IF n < p[i] THEN RecvReturns(receiving.total + n, data)
                   ELSE /\ receiving' = [receiving EXCEPT !.next = @ + 1, !.total = @ + n, !.data = data]
                        /\ UNCHANGED received
  BY <1>0 DEF RecvPiece
<1> QED BY <1>13, <1>14, <1>15

\* One RECV of a byte stream that is not one of a recvmsg().
LEMMA OneRecvKeeps ==
    ASSUME SocketsInv, socket.type # "datagram", receiving = NoMsg,
           NEW n \in Nat, n <= Len(wire), wire' = SubSeq(wire, n + 1, Len(wire)),
           received' = received \o SubSeq(wire, 1, n), receiving' = NoMsg,
           polled' = FALSE, passing' \in Nat, ~untold',
           UNCHANGED <<socket, told, sending>>
    PROVE  SocketsInv'
<1>1. /\ received \in Seq(Int) /\ received = From(1, Len(received)) /\ wire \in Seq(Int)
      /\ wire = From(Len(received) + receiving.total + 1, Len(wire))
  BY DEF SocketsInv, SocketTypes, BytesInOrder
<1>2. PICK r \in Nat, w \in Nat : r = Len(received) /\ w = Len(wire)
  BY <1>1
<1>3. PICK k \in Int : k = 1 + r /\ wire = From(k, w)
  <2>1. Len(received) + receiving.total + 1 = 1 + r
    BY <1>2, NoMsgIs
  <2> QED BY <1>1, <1>2, <2>1
<1>4. n \in 0 .. w
  BY <1>2
<1>5. SubSeq(wire, 1, n) = From(k, n)
  <2>1. SubSeq(From(k, w), 1, n) = From(k, n)
    BY <1>4, FromCut
  <2> QED BY <1>3, <2>1
<1>6. From(1, r) \o From(1 + r, n) = From(1, r + n)
  <2>1. 1 \in Int
    OBVIOUS
  <2> QED BY <2>1, FromJoin
<1>7. received' = From(1, Len(received) + n)
  BY <1>1, <1>2, <1>3, <1>5, <1>6
<1>8. Gains(n, n)
  <2>1. receiving'.total = 0 /\ receiving.total = 0 /\ n + 0 = 0 + n
    BY NoMsgIs
  <2> QED BY <1>7, <2>1 DEF Gains
<1>9. TakenOff(n)
  BY DEF TakenOff
<1>10. BytesInOrder' /\ received' \in Seq(Int)
  BY <1>8, <1>9, BytesReceived
<1>11. SocketTypes'
  BY <1>10 DEF SocketsInv, SocketTypes
<1>12. SendsWhole'
  BY DEF SocketsInv, SendsWhole
<1>13. ReceivesWhole' /\ DatagramsWhole'
  BY DEF ReceivesWhole, DatagramsWhole
<1> QED BY <1>10, <1>11, <1>12, <1>13 DEF SocketsInv

\* The beginning of a sequence is all of its beginning.
LEMMA BeginningOf ==
    ASSUME NEW s \in Seq(Int), NEW n \in Nat, n <= Len(s)
    PROVE  /\ SubSeq(s, 1, n) \in Seq(Int) /\ Len(SubSeq(s, 1, n)) = n
           /\ SubSeq(SubSeq(s, 1, n), 1, n) = SubSeq(s, 1, n)
<1>1. SubSeq(s, 1, n) \in Seq(Int) /\ Len(SubSeq(s, 1, n)) = n
  OBVIOUS
<1>2. PICK u \in Seq(Int) : u = SubSeq(s, 1, n) /\ Len(u) = n
  BY <1>1
<1>3. SubSeq(u, 1, Len(u)) = u
  BY <1>2
<1> QED BY <1>2, <1>3

LEMMA RecvfromKeeps ==
    ASSUME SocketsInv, NEW len \in 1 .. 2, Recvfrom(len)
    PROVE  SocketsInv'
<1>1. /\ socket.type # "datagram" /\ receiving = NoMsg /\ polled' = FALSE
      /\ UNCHANGED <<socket, told, sending, passing, untold>>
  BY DEF Recvfrom
<1>2. PICK n \in 1 .. Smaller(len, Len(wire)) :
          /\ RecvReturns(n, SubSeq(wire, 1, n))
          /\ wire' = SubSeq(wire, n + 1, Len(wire))
  BY DEF Recvfrom
<1>3. wire \in Seq(Int)
  BY <1>1 DEF SocketsInv, BytesInOrder
<1>4. n \in Nat /\ n <= Len(wire)
  <2>1. Len(wire) \in Nat
    BY <1>3
  <2> QED BY <2>1 DEF Smaller
<1>5. received' = received \o SubSeq(wire, 1, n) /\ receiving' = NoMsg
  <2>1. received' = received \o SubSeq(SubSeq(wire, 1, n), 1, n) /\ receiving' = NoMsg
    BY <1>2 DEF RecvReturns
  <2> QED BY <1>3, <1>4, <2>1, BeginningOf
<1>6. passing' \in Nat /\ ~untold'
  BY <1>1 DEF SocketsInv, SocketTypes
<1> QED BY <1>1, <1>2, <1>4, <1>5, <1>6, OneRecvKeeps

LEMMA UnixMsgRecvKeeps ==
    ASSUME SocketsInv, NEW p \in Pieces, NEW capacity \in 0 .. 2, UnixMsgRecv(p, capacity)
    PROVE  SocketsInv'
<1>1. /\ socket.type = "unix" /\ polled' = FALSE /\ passing' = 0
      /\ UNCHANGED <<socket, told, sending>>
  BY DEF UnixMsgRecv
<1>2. PICK n \in 1 .. Smaller(iov_total(p), Len(wire)) :
          /\ RecvReturns(n, Scatter(p, SubSeq(wire, 1, n)))
          /\ wire' = SubSeq(wire, n + 1, Len(wire))
  BY DEF UnixMsgRecv
<1>3. wire \in Seq(Int) /\ receiving = NoMsg /\ socket.type # "datagram"
  BY <1>1 DEF SocketsInv, BytesInOrder, ReceivesWhole
<1>4. p \in Seq(Nat) /\ iov_total(p) \in Nat
  BY BeforeIs, SocketsAssumption DEF SocketsAssumption
<1>5. n \in Nat /\ n <= Len(wire) /\ n <= iov_total(p)
  <2>1. Len(wire) \in Nat
    BY <1>3
  <2> QED BY <1>4, <2>1 DEF Smaller
<1>6. received' = received \o SubSeq(wire, 1, n) /\ receiving' = NoMsg
  <2>1. received' = received \o SubSeq(Scatter(p, SubSeq(wire, 1, n)), 1, n) /\ receiving' = NoMsg
    BY <1>2 DEF RecvReturns
  <2>2. PICK bytes \in Seq(Int) : bytes = SubSeq(wire, 1, n) /\ Len(bytes) = n
    BY <1>3, <1>5, BeginningOf
  <2>3. SubSeq(Scatter(p, bytes), 1, Len(bytes)) = bytes
    BY <1>4, <1>5, <2>2, ScatterKeeps
  <2> QED BY <2>1, <2>2, <2>3
<1>7. ~untold'
  <2>1. ~untold /\ passing \in Nat
    BY DEF SocketsInv, SocketTypes
  <2>2. PICK registered \in 0 .. Smaller(capacity, passing) :
            \E ctrunc \in {passing > capacity \/ registered < Smaller(capacity, passing)} :
                untold' = (untold \/ (registered < passing /\ ~ctrunc))
    BY DEF UnixMsgRecv
  <2>3. ~(registered < passing /\ ~(passing > capacity \/ registered < Smaller(capacity, passing)))
    BY <2>1 DEF Smaller
  <2> QED BY <2>1, <2>2, <2>3
<1>8. passing' \in Nat
  BY <1>1
<1> QED BY <1>1, <1>2, <1>3, <1>5, <1>6, <1>7, <1>8, OneRecvKeeps

LEMMA RecvDatagramKeeps ==
    ASSUME SocketsInv, NEW p \in Pieces, RecvDatagram(p)
    PROVE  SocketsInv'
<1>1. /\ socket.type = "datagram" /\ wire # <<>> /\ wire' = Tail(wire) /\ polled' = FALSE
      /\ UNCHANGED <<socket, told, sending, receiving, passing, untold>>
  BY DEF RecvDatagram
<1>2. PICK n \in {Smaller(iov_total(p), Len(wire[1]))} :
          received' = SubSeq(Scatter(p, SubSeq(wire[1], 1, n)), 1, n)
  BY DEF RecvDatagram
<1>3. /\ told \in {0, MaxBytes, 2 * MaxBytes} /\ MaxBytes >= 2
      /\ wire \in Seq(Seq(Int)) /\ \A j \in 1 .. Len(wire) : OfOneDatagram(wire[j])
  BY <1>1 DEF SocketsInv, DatagramsWhole
<1>4. PICK d \in Seq(Int) : d = wire[1] /\ OfOneDatagram(d)
  <2>1. 1 \in 1 .. Len(wire) /\ wire[1] \in Seq(Int)
    BY <1>1, <1>3
  <2> QED BY <1>3, <2>1
<1>5. p \in Seq(Nat) /\ iov_total(p) \in Nat
  BY BeforeIs, SocketsAssumption DEF SocketsAssumption
<1>6. n \in Nat /\ n <= Len(d) /\ n <= iov_total(p)
  <2>1. Len(d) \in Nat
    OBVIOUS
  <2> QED BY <1>2, <1>4, <1>5, <2>1 DEF Smaller
<1>7. received' = SubSeq(d, 1, n) /\ received' \in Seq(Int) /\ Len(received') = n
  <2>1. PICK bytes \in Seq(Int) : bytes = SubSeq(d, 1, n) /\ Len(bytes) = n
    BY <1>6, BeginningOf
  <2>2. SubSeq(Scatter(p, bytes), 1, Len(bytes)) = bytes
    BY <1>5, <1>6, <2>1, ScatterKeeps
  <2> QED BY <1>2, <1>4, <2>1, <2>2
<1>8. OfOneDatagram(received')
  <2>1. PICK k \in {0, MaxBytes} : d = From(k + 1, Len(d))
    BY <1>4 DEF OfOneDatagram
  <2>2. k + 1 \in Int /\ Len(d) \in Nat /\ n \in 0 .. Len(d)
    BY <1>6, SocketsAssumption DEF SocketsAssumption
  <2>3. SubSeq(d, 1, n) = From(k + 1, n)
    BY <2>1, <2>2, FromCut
  <2> QED BY <1>7, <2>3 DEF OfOneDatagram
<1>9. wire' \in Seq(Seq(Int)) /\ \A j \in 1 .. Len(wire') : OfOneDatagram(wire'[j])
  <2>1. /\ Tail(wire) \in Seq(Seq(Int)) /\ Len(Tail(wire)) = Len(wire) - 1
        /\ \A j \in 1 .. Len(wire) - 1 : Tail(wire)[j] = wire[j + 1]
    BY <1>1, <1>3
  <2>2. \A j \in 1 .. Len(wire) - 1 : j + 1 \in 1 .. Len(wire)
    BY <1>3
  <2> QED BY <1>1, <1>3, <2>1, <2>2
<1>10. SocketTypes'
  BY <1>1, <1>7 DEF SocketsInv, SocketTypes
<1>11. SendsWhole'
  BY <1>1 DEF SocketsInv, SendsWhole
<1>12. ReceivesWhole'
  BY <1>1 DEF SocketsInv, ReceivesWhole
<1>13. BytesInOrder'
  BY <1>1 DEF BytesInOrder
<1>14. DatagramsWhole'
  <2>1. OfOneDatagram(received)' /\ \A j \in 1 .. Len(wire') : OfOneDatagram(wire[j])'
    BY <1>8, <1>9 DEF OfOneDatagram
  <2> QED BY <1>1, <1>3, <1>9, <2>1 DEF DatagramsWhole
<1> QED BY <1>10, <1>11, <1>12, <1>13, <1>14 DEF SocketsInv

LEMMA SocketsNextInv == SocketsInv /\ [SocketsNext]_socketVars => SocketsInv'
<1> SUFFICES ASSUME SocketsInv, [SocketsNext]_socketVars PROVE SocketsInv'
  OBVIOUS
<1>1. CASE UNCHANGED socketVars
  <2>1. UNCHANGED <<socket, wire, told, sending, receiving, received, polled, passing, untold>>
    BY <1>1 DEF socketVars
  <2>2. SocketTypes'
    BY <2>1 DEF SocketsInv, SocketTypes
  <2>3. SendsWhole' /\ ReceivesWhole' /\ BytesInOrder' /\ DatagramsWhole'
    BY <2>1, NothingMoved
  <2> QED BY <2>2, <2>3 DEF SocketsInv
<1>2. CASE PeerAnswers \/ Connect \/ ConnectPolls \/ CallerPolls
  BY <1>2, ConnectingKeeps
<1>3. CASE SendPiece
  BY <1>3, SendPieceKeeps
<1>4. CASE SendPieceFails \/ SendDone
  BY <1>4, SendStopsKeeps
<1>5. CASE RecvPiece
  BY <1>5, RecvPieceKeeps
<1>6. CASE RecvPieceFails \/ RecvDone
  BY <1>6, RecvStopsKeeps
<1>7. CASE Poll \/ \E others \in {0, PollSlots} : Pselect(others)
  BY <1>7, PollingKeeps
<1>8. ASSUME NEW p \in Pieces, MsgSend(p) PROVE SocketsInv'
  BY <1>8, MsgSendKeeps
<1>9. ASSUME NEW p \in Pieces, SendDatagram(p) PROVE SocketsInv'
  BY <1>9, SendDatagramKeeps
<1>10. ASSUME NEW p \in Pieces, MsgRecv(p) PROVE SocketsInv'
  BY <1>10, MsgRecvKeeps
<1>11. ASSUME NEW p \in Pieces, RecvDatagram(p) PROVE SocketsInv'
  BY <1>11, RecvDatagramKeeps
<1>12. ASSUME NEW p \in Pieces, NEW fds \in 0 .. 2, UnixMsgSend(p, fds) PROVE SocketsInv'
  BY <1>12, UnixMsgSendKeeps
<1>13. ASSUME NEW p \in Pieces, NEW fds \in 0 .. 2, UnixMsgRecv(p, fds) PROVE SocketsInv'
  BY <1>13, UnixMsgRecvKeeps
<1>14. ASSUME NEW len \in 1 .. 2, Sendto(len) PROVE SocketsInv'
  BY <1>14, SendtoKeeps
<1>15. ASSUME NEW len \in 1 .. 2, Recvfrom(len) PROVE SocketsInv'
  BY <1>15, RecvfromKeeps
<1> QED
  BY <1>1, <1>2, <1>3, <1>4, <1>5, <1>6, <1>7, <1>8, <1>9, <1>10, <1>11, <1>12, <1>13, <1>14, <1>15
  DEF SocketsNext

LEMMA FirstOfDatagram ==
    ASSUME NEW m \in Nat, m >= 2
    PROVE  1 % m = 1 /\ (m + 1) % m = 1
<1>1. 1 % m = 1
  BY SMT
<1>2. (m + 1) % m = 1
  BY SMT
<1> QED BY <1>1, <1>2

LEMMA SocketsInvPromises == SocketsInv => MessagesIntact
<1> SUFFICES ASSUME SocketsInv PROVE MessagesIntact
  OBVIOUS
<1>1. ~untold /\ (socket.joined => socket.connected = "yes") /\ (polled => wire # <<>>)
  BY DEF SocketsInv, SocketTypes
<1>2. socket.type # "datagram" => received = From(1, Len(received))
  BY DEF SocketsInv, BytesInOrder
<1>3. ASSUME socket.type = "datagram", received # <<>>
      PROVE  received[1] % MaxBytes = 1 /\ received = From(received[1], Len(received))
  <2>1. MaxBytes >= 2 /\ MaxBytes \in Nat
    BY <1>3, SocketsAssumption DEF SocketsInv, DatagramsWhole, SocketsAssumption
  <2>2. PICK k \in {0, MaxBytes} : received = From(k + 1, Len(received))
    BY <1>3 DEF SocketsInv, DatagramsWhole, OfOneDatagram
  <2>3. received \in Seq(Int)
    BY DEF SocketsInv, SocketTypes
  <2>4. Len(received) \in Nat /\ 1 \in 1 .. Len(received)
    BY <1>3, <2>3
  <2>5. k + 1 \in Int
    BY <2>1
  <2>6. received[1] = (k + 1) + 1 - 1
    BY <2>2, <2>4, <2>5, FromIs
  <2>7. received[1] = k + 1
    BY <2>5, <2>6
  <2>8. (k + 1) % MaxBytes = 1
    <3>1. 0 + 1 = 1
      OBVIOUS
    <3> QED BY <2>1, <3>1, FirstOfDatagram
  <2> QED BY <2>2, <2>7, <2>8
<1> QED BY <1>1, <1>2, <1>3 DEF MessagesIntact

\* sysdeps.cpp:1953: "For streams MsgSend/MsgRecv loop over the iovecs; a
\* datagram must stay one datagram". However many pieces a message is in, where
\* the kernel's short counts and errors cut the calls, and how deep its buffers
\* are: a stream's receiver has the sender's bytes in order, none lost, repeated
\* or never written, a datagram's has the beginning of one, an fd that did not
\* arrive was reported, and neither connect() nor poll() reports too soon.
THEOREM MessagesArrive == SocketsSpec => []MessagesIntact
<1> QED BY SocketsInitInv, SocketsNextInv, SocketsInvPromises, PTL DEF SocketsSpec

-----------------------------------------------------------------------------
(* The sysdeps together.                                                   *)

\* What the run libc checks of fds, files, paths and messages: whichever part of
\* the sysdeps a program uses, none breaks what another promises.
THEOREM LibcPromises ==
    LibcSpec => /\ [](FdsKeepTheirHandles /\ NothingElseIsLost /\ AtFindsItsFile /\ MessagesIntact)
                /\ ImplementsPosix
<1>1. LibcInit => FdsInv /\ PathsInv /\ SocketsInv
  BY FdsInitInv, PathsInitInv, SocketsInitInv DEF LibcInit
<1>2. [LibcNext]_libcVars => /\ [FdNext]_fdVars /\ [FileNext]_fileVars
                             /\ [PathsNext]_pathVars /\ [SocketsNext]_socketVars
  BY DEF LibcNext, InThreads, libcVars
<1>3. FdsInv /\ [FdNext]_fdVars => FdsInv'
  BY FdNextInv
<1>4. PathsInv /\ [PathsNext]_pathVars => PathsInv'
  BY PathsNextInv
<1>5. SocketsInv /\ [SocketsNext]_socketVars => SocketsInv'
  BY SocketsNextInv
<1>6. FdsInv => FdsKeepTheirHandles /\ NothingElseIsLost
  BY FdInvPromises
<1>7. PathsInv => AtFindsItsFile
  BY DEF PathsInv
<1>8. SocketsInv => MessagesIntact
  BY SocketsInvPromises
<1>9. LibcSpec => [](FdsKeepTheirHandles /\ NothingElseIsLost /\ AtFindsItsFile /\ MessagesIntact)
  BY <1>1, <1>2, <1>3, <1>4, <1>5, <1>6, <1>7, <1>8, PTL DEF LibcSpec
<1>10. LibcSpec => FileSpec
  BY <1>2, PTL DEF LibcInit, FileSpec, LibcSpec
<1> QED BY <1>9, <1>10, FilesImplementPosix
=============================================================================
