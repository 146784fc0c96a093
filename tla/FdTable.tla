------------------------------- MODULE FdTable -------------------------------
(***************************************************************************)
(* The file descriptors of an mlibc program on InstantOS                   *)
(* (outside/mlibc-sysdeps/instantos/sysdeps.cpp): fdTable maps the         *)
(* program's fds to kernel handles, and a table of DirStreams holds the    *)
(* directories read through an fd. An entry 0 is free, though 0 is also    *)
(* standard input's handle.                                                *)
(*                                                                         *)
(* The table has no lock. A call is cut between the system call, the scan  *)
(* for a free entry and the store into it; threads interleave there.       *)
(***************************************************************************)
EXTENDS Integers, FiniteSets

CONSTANTS
    MaxFd,      \* kMaxFd
    Handles,    \* kernel handles besides the standard streams'
    Threads,
    Minimums,   \* the minimum fds programs give F_DUPFD
    MaxDirs     \* kMaxDirs

ASSUME FdTableAssumption ==
    /\ MaxFd \in Nat /\ MaxFd > 3
    /\ Threads # {}
    /\ Handles \subseteq Nat \ (0 .. 2)
    /\ Minimums \subseteq 0 .. MaxFd - 1
    /\ MaxDirs \in Nat

VARIABLES
    fdTable,    \* fd -> handle, 0 when free
    live,       \* the kernel's open handles
    given,      \* fd -> the handle the program was told it stands for
    call,       \* what each thread is doing
    streams,    \* fds that own a DirStream (fromFd), one slot each
    lost,       \* handles a failed pipe() left open
    cloexec,    \* handles the kernel closes when the program execs
    stale,      \* fds whose entry an exec left with a handle that is closed
    clobbered   \* a call was sent to a handle of another fd, or two threads
                \* took one entry (history)

fdVars == <<fdTable, live, given, call, streams, lost, cloexec, stale, clobbered>>

Fds  == 0 .. MaxFd - 1
None == -1
Idle == [op |-> "idle"]

\* A call that registers handle a, then b (None for a call that has one):
\* `slot' is the fd its scan found, `r' the fd that a got.
Pairs == {"pipe", "socketpair", "recv"}
Calls == [op : {"one"}, min : Minimums \cup {3}, a : Handles, slot : Fds \cup {None}]
            \cup [op : Pairs, a : Handles, b : Handles, onB : BOOLEAN,
                  r : Fds \cup {None}, slot : Fds \cup {None}]
            \cup [op : {"close"}, fd : Fds]
            \cup {Idle}

Lowest(S)    == CHOOSE fd \in S : \A other \in S : fd <= other
MinOf(c)     == IF c.op = "one" THEN c.min ELSE 3
HandleOf(c)  == IF c.op = "one" \/ ~c.onB THEN c.a ELSE c.b
\* The entry a call has found free and has not stored into yet.
FoundBy(c)     == {fd \in Fds : c.op \in Pairs \cup {"one"} /\ fd = c.slot}
Does(t, c)   == call' = [call EXCEPT ![t] = c]

-----------------------------------------------------------------------------
FdInit ==
    /\ fdTable = [fd \in Fds |-> IF fd < 3 THEN fd ELSE 0]
    /\ live = {}
    /\ given = [fd \in Fds |-> IF fd < 3 THEN fd ELSE None]
    /\ call = [t \in Threads |-> Idle]
    /\ streams = {}
    /\ lost = {}
    /\ cloexec = {}
    /\ stale = {}
    /\ clobbered = FALSE

\* Open, Openat, Socket, Accept, Dup, instantos_handle_fd() and F_DUPFD: the
\* kernel gave a handle, to be registered from 3 or from F_DUPFD's argument up.
BeginOne(t) ==
    /\ call[t] = Idle
    /\ \E h \in Handles \ live, min \in Minimums \cup {3} :
          /\ live' = live \cup {h}
          /\ Does(t, [op |-> "one", min |-> min, a |-> h, slot |-> None])
    /\ UNCHANGED <<fdTable, given, streams, lost, cloexec, stale, clobbered>>

\* Pipe, Socketpair and a message that brought two fds.
BeginPair(t) ==
    /\ call[t] = Idle
    /\ \E op \in Pairs, h \in Handles \ live, k \in Handles \ live :
          /\ h # k
          /\ live' = live \cup {h, k}
          /\ Does(t, [op |-> op, a |-> h, b |-> k, onB |-> FALSE, r |-> None, slot |-> None])
    /\ UNCHANGED <<fdTable, given, streams, lost, cloexec, stale, clobbered>>

\* Mutant: entries in use are taken too.
FreeOrNot(min) == min .. MaxFd - 1

\* The entries register_fd_min() takes for free.
Free(min) == {fd \in min .. MaxFd - 1 : fdTable[fd] = 0}

\* register_fd_min() looks for the lowest free entry ...
Scan(t) ==
    /\ call[t].op \in Pairs \cup {"one"}
    /\ call[t].slot = None
    /\ Free(MinOf(call[t])) # {}
    /\ Does(t, [call[t] EXCEPT !.slot = Lowest(Free(MinOf(call[t])))])
    /\ UNCHANGED <<fdTable, live, given, streams, lost, cloexec, stale, clobbered>>

\* The end of a call: entries cleared, handles closed, handles left open, and
\* the fds the program gets.
End(t, table, cleared, closed, left, new) ==
    /\ fdTable' = [fd \in Fds |-> IF fd \in cleared THEN 0 ELSE table[fd]]
    /\ live' = live \ closed
    /\ lost' = lost \cup left
    /\ cloexec' = cloexec \ closed
    /\ given' = [fd \in Fds |-> IF fd \in new THEN fdTable'[fd] ELSE given[fd]]
    /\ Does(t, Idle)

GoOn(t, table, c) ==
    /\ fdTable' = table
    /\ Does(t, c)
    /\ UNCHANGED <<live, given, lost, cloexec>>

Got(fd) == IF fd = None THEN {} ELSE {fd}

\* Open and the like, once the handle has its fd (None: the table is full).
OneRegistered(t, table, fd) ==
    /\ call[t].op = "one"
    /\ End(t, table, {}, IF fd = None THEN {call[t].a} ELSE {}, {}, Got(fd))

\* Pipe: both handles are tried; when one found no room the one that did is
\* closed again, and only that one.
PipeRegistered(t, table, fd) ==
    LET c == call[t]
    IN  /\ c.op = "pipe"
        /\ \/ /\ ~c.onB
              /\ GoOn(t, table, [c EXCEPT !.onB = TRUE, !.r = fd, !.slot = None])
           \/ /\ c.onB /\ c.r # None /\ fd # None
              /\ End(t, table, {}, {}, {}, {c.r, fd})
           \/ /\ c.onB /\ (c.r = None \/ fd = None)
              /\ LET closed == (IF c.r # None THEN {c.a} ELSE {}) \cup (IF fd # None THEN {c.b} ELSE {})
                 IN  End(t, table, Got(c.r) \cup Got(fd), closed, {c.a, c.b} \ closed, {})

\* Mutant: the first fd's entry is not cleared when the second finds no room.
SocketpairKeepsFirst(t, table, fd) ==
    LET c == call[t]
    IN  /\ c.op = "socketpair"
        /\ \/ /\ ~c.onB /\ fd # None
              /\ GoOn(t, table, [c EXCEPT !.onB = TRUE, !.r = fd, !.slot = None])
           \/ /\ ~c.onB /\ fd = None
              /\ End(t, table, {}, {c.a, c.b}, {}, {})
           \/ /\ c.onB /\ fd # None
              /\ End(t, table, {}, {}, {}, {c.r, fd})
           \/ /\ c.onB /\ fd = None
              /\ End(t, table, {}, {c.a, c.b}, {}, {})

\* Socketpair: no room for either closes both.
SocketpairRegistered(t, table, fd) ==
    LET c == call[t]
    IN  /\ c.op = "socketpair"
        /\ \/ /\ ~c.onB /\ fd # None
              /\ GoOn(t, table, [c EXCEPT !.onB = TRUE, !.r = fd, !.slot = None])
           \/ /\ ~c.onB /\ fd = None
              /\ End(t, table, {}, {c.a, c.b}, {}, {})
           \/ /\ c.onB /\ fd # None
              /\ End(t, table, {}, {}, {}, {c.r, fd})
           \/ /\ c.onB /\ fd = None
              /\ End(t, table, {c.r}, {c.a, c.b}, {}, {})

\* unix_msg_recv(): an fd that finds no room is closed (MSG_CTRUNC).
RecvRegistered(t, table, fd) ==
    LET c == call[t]
        h == HandleOf(c)
    IN  /\ c.op = "recv"
        /\ \/ /\ ~c.onB
              /\ fdTable' = table
              /\ live' = live \ (IF fd = None THEN {h} ELSE {})
              /\ Does(t, [c EXCEPT !.onB = TRUE, !.r = fd, !.slot = None])
              /\ UNCHANGED <<given, lost, cloexec>>
           \/ /\ c.onB
              /\ End(t, table, {}, IF fd = None THEN {h} ELSE {}, {}, Got(c.r) \cup Got(fd))

Registered(t, table, fd) ==
    \/ OneRegistered(t, table, fd)
    \/ PipeRegistered(t, table, fd)
    \/ SocketpairRegistered(t, table, fd)
    \/ RecvRegistered(t, table, fd)

\* ... and stores the handle into it, also when another thread found it too ...
Store(t) ==
    LET c == call[t]
    IN  /\ c.op \in Pairs \cup {"one"}
        /\ c.slot # None
        /\ Registered(t, [fdTable EXCEPT ![c.slot] = HandleOf(c)], c.slot)
        /\ clobbered' = (clobbered \/ \E u \in Threads \ {t} : FoundBy(call[u]) = {c.slot})
        /\ UNCHANGED <<streams, stale>>

\* ... or finds none.
Full(t) ==
    LET c == call[t]
    IN  /\ c.op \in Pairs \cup {"one"}
        /\ c.slot = None
        /\ Free(MinOf(c)) = {}
        /\ Registered(t, fdTable, None)
        /\ UNCHANGED <<streams, stale, clobbered>>

\* The entry of an fd the program does not have names a handle that is open: an
\* exec left it there, and the kernel has given the handle out again.
Misdirected(fd) == fdTable[fd] \in live /\ given[fd] # fdTable[fd]

\* Whatever an entry holds is a handle to the kernel, 0 standard input's.
Open(fd) == fdTable[fd] \in live \cup {0, 1, 2}

\* Dup2: the kernel replaces what the target's handle stands for, or gives a new
\* handle for a free entry. (Taking an unused fd while other threads open files
\* is the program's own race.) The duplicate is not closed by an exec.
Dup2(t, fd, newfd) ==
    /\ call[t] = Idle
    /\ Open(fd) /\ fd # newfd
    /\ given[newfd] # None \/ \A u \in Threads : call[u] = Idle
    /\ \E h \in IF fdTable[newfd] # 0 \/ newfd < 3
               THEN {IF fdTable[newfd] = 0 THEN newfd ELSE fdTable[newfd]}
               ELSE Handles \ live :
          /\ live' = live \cup ({h} \cap Handles)
          /\ fdTable' = [fdTable EXCEPT ![newfd] = h]
          /\ given' = [given EXCEPT ![newfd] = h]
          /\ cloexec' = cloexec \ {h}
    /\ clobbered' = (clobbered \/ Misdirected(newfd))
    /\ stale' = stale \ {newfd}
    /\ UNCHANGED <<call, streams, lost>>

\* Close, of any fd: its DirStream goes first; the standard streams stay; the
\* kernel may refuse, a handle that is not open always; else the handle the
\* entry holds is closed ...
CloseFd(t, fd) ==
    /\ call[t] = Idle
    /\ streams' = streams \ {fd}
    /\ \/ UNCHANGED <<live, call, given, cloexec, clobbered>>
       \/ /\ fd >= 3 /\ fdTable[fd] \in live
          /\ live' = live \ {fdTable[fd]}
          /\ cloexec' = cloexec \ {fdTable[fd]}
          /\ Does(t, [op |-> "close", fd |-> fd])
          /\ given' = [given EXCEPT ![fd] = None]
          /\ clobbered' = (clobbered \/ Misdirected(fd))
    /\ UNCHANGED <<fdTable, lost, stale>>

\* ... and then the entry is cleared.
CloseClears(t) ==
    /\ call[t].op = "close"
    /\ fdTable' = [fdTable EXCEPT ![call[t].fd] = 0]
    /\ stale' = stale \ {call[t].fd}
    /\ Does(t, Idle)
    /\ UNCHANGED <<live, given, streams, lost, cloexec, clobbered>>

\* ReadEntries of a directory fd: its DirStream, or a new one if there is room.
ReadEntries(t, fd) ==
    /\ call[t] = Idle
    /\ fdTable[fd] \in live
    /\ fd \notin streams => Cardinality(streams) < MaxDirs
    /\ streams' = streams \cup {fd}
    /\ clobbered' = (clobbered \/ Misdirected(fd))
    /\ UNCHANGED <<fdTable, live, given, call, lost, cloexec, stale>>

\* Fcntl(F_SETFD): the flag is the handle's, in the kernel.
SetCloexec(t, fd) ==
    /\ call[t] = Idle
    /\ fdTable[fd] \in live \ cloexec
    /\ cloexec' = cloexec \cup {fdTable[fd]}
    /\ clobbered' = (clobbered \/ Misdirected(fd))
    /\ UNCHANGED <<fdTable, live, given, call, streams, lost, stale>>

\* A table fd as the kernel's slot, None for the standard streams' handles.
slot_for_fd(fd) == IF fdTable[fd] \in Handles THEN fdTable[fd] ELSE None

\* Ioctl with an in-fd the kernel accepts and an out-fd: a new handle, to be
\* registered by fd_for_slot() as any other. The caller's in-fd is put back.
Ioctl(t, fd) ==
    /\ call[t] = Idle
    /\ slot_for_fd(fd) \in live
    /\ \E h \in Handles \ live :
          /\ live' = live \cup {h}
          /\ Does(t, [op |-> "one", min |-> 3, a |-> h, slot |-> None])
    /\ UNCHANGED <<fdTable, given, streams, lost, cloexec, stale, clobbered>>

\* Execve: the table is stashed with the kernel, which closes the close-on-exec
\* handles; the new image's libc fetches the whole table again. It has no
\* directory snapshots.
Execve(t) ==
    /\ \A u \in Threads : call[u] = Idle
    /\ live' = live \ cloexec
    /\ given' = [fd \in Fds |-> IF given[fd] \in cloexec THEN None ELSE given[fd]]
    /\ stale' = stale \cup {fd \in Fds : fdTable[fd] \in cloexec}
    /\ streams' = {} /\ cloexec' = {}
    /\ UNCHANGED <<fdTable, call, lost, clobbered>>

-----------------------------------------------------------------------------
FdNext ==
    ~clobbered /\ \E t \in Threads :
        \/ BeginOne(t)
        \/ BeginPair(t)
        \/ Scan(t)
        \/ Store(t)
        \/ Full(t)
        \/ CloseClears(t)
        \/ Execve(t)
        \/ \E fd \in Fds : CloseFd(t, fd) \/ ReadEntries(t, fd) \/ SetCloexec(t, fd) \/ Ioctl(t, fd)
        \/ \E fd, newfd \in Fds : Dup2(t, fd, newfd)

FdSpec == FdInit /\ [][FdNext]_fdVars

-----------------------------------------------------------------------------
\* Every variable has the values the code's declarations allow.
FdTypeOK ==
    /\ fdTable \in [Fds -> Handles \cup {0, 1, 2}]
    /\ live \in SUBSET Handles
    /\ given \in [Fds -> Handles \cup {0, 1, 2, None}]
    /\ call \in [Threads -> Calls]
    /\ streams \in SUBSET Fds
    /\ lost \in SUBSET Handles
    /\ cloexec \in SUBSET live
    /\ stale \in SUBSET Fds
    /\ clobbered \in BOOLEAN

\* instantos/window.h:19: a handle "as an fd of this process, which then owns it": an fd
\* the program has stands for the open handle it was given for it, and for one
\* that no other fd stands for, whatever the program did with other fds and
\* through any number of execs. (Not after a call went to a handle of another
\* fd: a close(), a dup2() onto, an F_SETFD or a readdir() of an fd where an exec
\* left a closed handle reaches whoever the kernel gave that handle to since. Nor
\* after a thread stored into an entry that another had found free too.)
FdsKeepTheirHandles ==
    /\ FdTypeOK
    /\ ~clobbered => \A fd \in Fds : given[fd] # None =>
          /\ fdTable[fd] = given[fd]
          /\ given[fd] \in live \cup {0, 1, 2}
          /\ \A other \in Fds \ {fd} : given[fd] # given[other]

\* Between calls every open handle is one of the program's fds, or one of those
\* a failed pipe() left open; every entry in use is an fd the program has, or
\* one that an exec left; a directory's slot is in use only with its fd open: no
\* other error path, with the table full half-way, loses any of the three.
NothingElseIsLost ==
    ~clobbered /\ (\A t \in Threads : call[t] = Idle) =>
        /\ live \subseteq {given[fd] : fd \in Fds} \cup lost
        /\ \A fd \in Fds \ stale : fdTable[fd] # 0 => given[fd] # None
        /\ \A fd \in streams : given[fd] # None

\* sysdeps.cpp:792: "POSIX requires the LOWEST available fd >= arg": F_DUPFD
\* never takes an fd the program has.
DupTakesAvailableFd ==
    \A t \in Threads : call[t].op = "one" /\ call[t].slot # None => given[call[t].slot] = None
=============================================================================
