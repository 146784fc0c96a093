-------------------------------- MODULE Libc --------------------------------
(***************************************************************************)
(* The sysdeps of mlibc (outside/mlibc-sysdeps/instantos/sysdeps.cpp) as   *)
(* their callers use them: the fd table, the calls on an open file, the    *)
(* calls on paths and on sockets, and threads. None of the five uses state *)
(* of another, except that the first four find their handle in the fd      *)
(* table, which a call does once, first. A behaviour is therefore one of a *)
(* single part.                                                            *)
(***************************************************************************)
EXTENDS FdTable, FileIO, Paths, Sockets, ThreadStart

VARIABLE part   \* the part this behaviour is about

libcVars == <<part, fdVars, fileVars, pathVars, socketVars, threadVars>>

LibcInit ==
    /\ part \in {"fds", "files", "paths", "sockets", "threads"}
    /\ FdInit /\ FileInit /\ PathsInit /\ SocketsInit /\ ThreadsInit
    \* A part this behaviour is not about is in one of its initial states.
    /\ part # "paths" => where = CHOOSE p \in [Dirs -> Places] :
                                    \A d, e \in Dirs : d # e => p[d] # p[e]
    /\ part # "sockets" => socket.type = "stream"

InThreads(run) == part = "threads" /\ run /\ UNCHANGED <<part, fdVars, fileVars, pathVars, socketVars>>

LibcNext ==
    \/ part = "fds"     /\ FdNext      /\ UNCHANGED <<part, fileVars, pathVars, socketVars, threadVars>>
    \/ part = "files"   /\ FileNext    /\ UNCHANGED <<part, fdVars, pathVars, socketVars, threadVars>>
    \/ part = "paths"   /\ PathsNext   /\ UNCHANGED <<part, fdVars, fileVars, socketVars, threadVars>>
    \/ part = "sockets" /\ SocketsNext /\ UNCHANGED <<part, fdVars, fileVars, pathVars, threadVars>>
    \/ InThreads(ThreadsNext)

LibcSpec == LibcInit /\ [][LibcNext]_libcVars

\* The kernel runs every thread again and again (ThreadsFairness).
LibcFairness ==
    /\ WF_libcVars(InThreads(Parent))
    /\ \A w \in Workers : WF_libcVars(InThreads(Worker(w)))

LibcFairSpec == LibcSpec /\ LibcFairness
=============================================================================
