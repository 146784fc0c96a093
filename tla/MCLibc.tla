------------------------------- MODULE MCLibc -------------------------------
(* Two fds besides the standard streams and three handles, so that the      *)
(* table is full with a handle to spare, for two threads; F_DUPFD from 0;   *)
(* two open files of one file; three paths for two directories and a path   *)
(* that is cut; messages with an empty piece and with one that is taken in  *)
(* part.                                                                    *)
EXTENDS Libc

CONSTANTS t1, t2

OneThread  == {t1}
TwoThreads == {t1, t2}
MCHandles == 3 .. 5
FromZero  == {0}
MCPieces  == {<<1>>, <<2, 1>>, <<1, 0, 2>>}
=============================================================================
