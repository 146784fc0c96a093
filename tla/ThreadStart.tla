----------------------------- MODULE ThreadStart -----------------------------
(***************************************************************************)
(* Starting and joining threads with the sysdeps                           *)
(* (outside/mlibc-sysdeps/instantos/sysdeps.cpp): PrepareStack, Clone, the *)
(* trampoline a new thread starts in, ThreadExit, and the futexes: waiting *)
(* is a yield and waking does nothing. What mlibc's pthread layer does     *)
(* between these calls is external, modelled as this code relies on it     *)
(* ("Joining is done entirely in userspace by mlibc (a futex spin on the   *)
(* TCB's didExit flag)").                                                  *)
(***************************************************************************)
EXTENDS Integers

CONSTANT Workers    \* the threads the program starts

VARIABLES
    tcb,        \* thread control blocks: [set, tid, cancel, didExit]
    stack,      \* what PrepareStack laid on a thread's stack: {} or its words
    step,       \* the step each worker is at
    parent,     \* [pc, who]: what the starting thread does, and about whom
    mutex,      \* who holds the mutex the workers' function takes: {} or {w}
    asleep,     \* threads the kernel does not run
    aborted     \* __ensure fired

threadVars == <<tcb, stack, step, parent, mutex, asleep, aborted>>

Starter == "parent"

ThreadsInit ==
    /\ tcb = [w \in Workers |-> [set |-> FALSE, tid |-> 0, cancel |-> FALSE, didExit |-> FALSE]]
    /\ stack = [w \in Workers |-> <<>>]
    /\ step = [w \in Workers |-> "none"]
    /\ parent = [pc |-> "run", who |-> {}]
    /\ mutex = {} /\ asleep = {} /\ aborted = FALSE

ParentAt(pc) == ~aborted /\ Starter \notin asleep /\ parent.pc = pc
WorkerAt(w, s) == ~aborted /\ w \notin asleep /\ step[w] = s

-----------------------------------------------------------------------------
\* Mutant: a thread that waits on a futex sleeps until it is woken.
FutexSleeps(t) == asleep' = asleep \cup {t}

\* FutexWait: whatever the word is and whatever the time-out, another thread
\* runs, and this one looks again.
FutexWait(t) == UNCHANGED asleep

\* FutexWake: nobody sleeps, so there is nobody to wake.
FutexWake == UNCHANGED asleep

-----------------------------------------------------------------------------
(* The starting thread                                                     *)

\* PrepareStack: on the caller's stack or a new one (for which there may be no
\* memory, and no thread starts): the entry, the TCB, the argument.
PrepareStack(w) ==
    /\ ParentAt("run") /\ step[w] = "none" /\ stack[w] = <<>>
    /\ \/ /\ stack' = [stack EXCEPT ![w] = <<"entry", w, "arg">>]
          /\ parent' = [pc |-> "clone", who |-> {w}]
          /\ UNCHANGED step
       \/ /\ step' = [step EXCEPT ![w] = "failed"]
          /\ UNCHANGED <<stack, parent>>
    /\ UNCHANGED <<tcb, mutex, asleep, aborted>>

\* Clone: the thread runs from here on, before its id is known to anyone.
Clone(w) ==
    /\ ParentAt("clone") /\ parent.who = {w}
    /\ \E s \in {"entry", "failed"} :
          /\ step' = [step EXCEPT ![w] = s]
          /\ parent' = [parent EXCEPT !.pc = IF s = "entry" THEN "publish" ELSE "run"]
    /\ UNCHANGED <<tcb, stack, mutex, asleep, aborted>>

\* pthread_create (external) stores the id and wakes the thread.
PublishTid(w) ==
    /\ ParentAt("publish") /\ parent.who = {w}
    /\ tcb' = [tcb EXCEPT ![w].tid = 1]
    /\ parent' = [pc |-> "run", who |-> {}]
    /\ FutexWake
    /\ UNCHANGED <<stack, step, mutex, aborted>>

\* pthread_join (external): waits on didExit until it is set.
BeginJoin(w) ==
    /\ ParentAt("run") /\ tcb[w].tid # 0
    /\ parent' = [pc |-> "join", who |-> {w}]
    /\ UNCHANGED <<tcb, stack, step, mutex, asleep, aborted>>

JoinWaits(w) ==
    /\ ParentAt("join") /\ parent.who = {w} /\ ~tcb[w].didExit
    /\ FutexWait(Starter)
    /\ UNCHANGED <<tcb, stack, step, parent, mutex, aborted>>

JoinEnds(w) ==
    /\ ParentAt("join") /\ parent.who = {w} /\ tcb[w].didExit
    /\ parent' = [pc |-> "run", who |-> {}]
    /\ UNCHANGED <<tcb, stack, step, mutex, asleep, aborted>>

-----------------------------------------------------------------------------
(* A new thread: __mlibc_thread_entry and __mlibc_thread_trampoline         *)

\* The words are taken off the stack and the TCB installed, or else the
\* process ends.
TcbSet(w) ==
    /\ WorkerAt(w, "entry")
    /\ \/ /\ tcb' = [tcb EXCEPT ![stack[w][2]].set = TRUE]
          /\ step' = [step EXCEPT ![w] = "tid"]
          /\ UNCHANGED aborted
       \/ aborted' = TRUE /\ UNCHANGED <<tcb, step>>
    /\ UNCHANGED <<stack, parent, mutex, asleep>>

WaitForTid(w) ==
    /\ WorkerAt(w, "tid")
    /\ \/ /\ tcb[w].tid = 0
          /\ FutexWait(w)
          /\ UNCHANGED <<tcb, step>>
       \/ /\ tcb[w].tid # 0
          /\ tcb' = [tcb EXCEPT ![w].cancel = TRUE]
          /\ step' = [step EXCEPT ![w] = "function"]
          /\ UNCHANGED asleep
    /\ UNCHANGED <<stack, parent, mutex, aborted>>

\* The thread's function (external): it takes a mutex, whose lock waits on a
\* futex, and gives it back.
LockMutex(w) ==
    /\ WorkerAt(w, "function") /\ mutex # {w}
    /\ IF mutex = {} THEN mutex' = {w} /\ UNCHANGED asleep ELSE FutexWait(w) /\ UNCHANGED mutex
    /\ UNCHANGED <<tcb, stack, step, parent, aborted>>

UnlockMutex(w) ==
    /\ WorkerAt(w, "function") /\ mutex = {w}
    /\ mutex' = {}
    /\ step' = [step EXCEPT ![w] = "exit"]
    /\ FutexWake
    /\ UNCHANGED <<tcb, stack, parent, aborted>>

\* thread_exit (external) stores didExit and wakes the joiner; ThreadExit ends
\* the thread.
ThreadExit(w) ==
    /\ WorkerAt(w, "exit")
    /\ tcb' = [tcb EXCEPT ![w].didExit = TRUE]
    /\ step' = [step EXCEPT ![w] = "gone"]
    /\ FutexWake
    /\ UNCHANGED <<stack, parent, mutex, aborted>>

-----------------------------------------------------------------------------
Parent ==
    \E w \in Workers :
        \/ PrepareStack(w) \/ Clone(w) \/ PublishTid(w)
        \/ BeginJoin(w) \/ JoinWaits(w) \/ JoinEnds(w)

Worker(w) ==
    TcbSet(w) \/ WaitForTid(w) \/ LockMutex(w) \/ UnlockMutex(w) \/ ThreadExit(w)

ThreadsNext == Parent \/ \E w \in Workers : Worker(w)

\* The kernel runs every thread again and again.
ThreadsFairness ==
    /\ WF_threadVars(Parent)
    /\ \A w \in Workers : WF_threadVars(Worker(w))

ThreadsSpec == ThreadsInit /\ [][ThreadsNext]_threadVars /\ ThreadsFairness

-----------------------------------------------------------------------------
\* sysdeps.cpp:1057: "Joining is done entirely in userspace by mlibc (a futex
\* spin on the TCB's didExit flag)": a join ends, although FutexWake wakes nobody
\* and the thread may run, and wait for its id, before the id is published.
JoinReturns == parent.pc = "join" ~> (parent.pc # "join" \/ aborted)
=============================================================================
