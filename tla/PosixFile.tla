------------------------------ MODULE PosixFile ------------------------------
(***************************************************************************)
(* What POSIX promises of one file that is open several times: every call  *)
(* is atomic, and only read, write and lseek move an open file's offset.   *)
(* That a kernel may refuse to put an offset back is an event of its own.  *)
(***************************************************************************)
EXTENDS Integers, Sequences

CONSTANTS
    Opens,      \* the open files: descriptions of the one file
    Bytes,      \* what programs write
    Lengths,    \* how much they read
    MaxSize     \* bound on sizes and offsets

VARIABLES
    content,    \* the file: a sequence of bytes, 0 where nothing was written
    offset,     \* each open file's offset
    result,     \* what the last call through it returned
    misplaced   \* the open file whose offset was just not put back, if any

\* No byte is negative.
Error == <<-1>>

Least(a, b) == IF a < b THEN a ELSE b

\* One byte put at a position, after zeroes if that is past the end.
Put(file, at, b) ==
    [i \in 1 .. (IF at < Len(file) THEN Len(file) ELSE at + 1) |->
        IF i = at + 1 THEN b ELSE IF i <= Len(file) THEN file[i] ELSE 0]

\* Up to n bytes from a position.
Get(file, at, n) == SubSeq(file, at + 1, Least(at + n, Len(file)))

Resize(file, n) == [i \in 1 .. n |-> IF i <= Len(file) THEN file[i] ELSE 0]

PosixInit ==
    /\ content = <<>>
    /\ offset = [h \in Opens |-> 0]
    /\ result = [h \in Opens |-> <<>>]
    /\ misplaced = {}

Returns(h, r) == result' = [result EXCEPT ![h] = r]
Moves(h, at)  == offset' = [offset EXCEPT ![h] = at]

PosixWrite(h, b) ==
    /\ content' = Put(content, offset[h], b)
    /\ Moves(h, offset[h] + 1)
    /\ Returns(h, <<>>)

PosixRead(h, n) ==
    /\ Returns(h, Get(content, offset[h], n))
    /\ Moves(h, offset[h] + Len(Get(content, offset[h], n)))
    /\ UNCHANGED content

PosixSeek(h, at) ==
    /\ Moves(h, at)
    /\ Returns(h, <<>>)
    /\ UNCHANGED content

PosixPread(h, at, n) ==
    /\ Returns(h, Get(content, at, n))
    /\ UNCHANGED <<content, offset>>

PosixPwrite(h, at, b) ==
    /\ content' = Put(content, at, b)
    /\ Returns(h, <<>>)
    /\ UNCHANGED offset

PosixTruncate(h, n) ==
    /\ content' = Resize(content, n)
    /\ Returns(h, <<>>)
    /\ UNCHANGED offset

PosixFails(h) ==
    /\ Returns(h, Error)
    /\ UNCHANGED <<content, offset>>

\* An open file's offset is left where nothing is said about it, and the
\* program is not told.
PosixMisplaces(h) ==
    /\ Moves(h, offset'[h])
    /\ misplaced' = {h}
    /\ UNCHANGED <<content, result>>

PosixCall(h) ==
    \/ PosixFails(h)
    \/ \E b \in Bytes : PosixWrite(h, b)
    \/ \E n \in Lengths : PosixRead(h, n)
    \/ \E at \in 0 .. MaxSize :
          \/ PosixSeek(h, at)
          \/ PosixTruncate(h, at)
          \/ \E n \in Lengths : PosixPread(h, at, n)
          \/ \E b \in Bytes : PosixPwrite(h, at, b)

\* It was not just now any more.
PosixGoesOn == misplaced' = {} /\ UNCHANGED <<content, offset, result>>

PosixNext ==
    \/ PosixGoesOn
    \/ \E h \in Opens : \/ PosixMisplaces(h)
                        \/ PosixCall(h) /\ misplaced' = {}

PosixSpec == PosixInit /\ [][PosixNext]_<<content, offset, result, misplaced>>
=============================================================================
