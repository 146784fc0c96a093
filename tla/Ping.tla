-------------------------------- MODULE Ping --------------------------------
(***************************************************************************)
(* ping (net-tools/src/ping.c): echo requests numbered modulo SeqMod and   *)
(* replies that get lost, come late, out of order or twice. A request is   *)
(* known by its number (1, 2, ...); sent_at holds, in place of the time a  *)
(* request was sent, its number, and 0 when answered or unsent.            *)
(***************************************************************************)
EXTENDS Integers, FiniteSets

CONSTANTS
    SeqMod,     \* MAX_TRACKED
    Counts      \* the counts ping is asked for (-c)

ASSUME PingAssumption == SeqMod \in Nat \ {0} /\ Counts \subseteq Nat \ {0}

VARIABLES
    count,      \* -c
    stop,       \* set by the SIGINT handler
    ping,       \* [pc, transmitted, received, duplicates, errors]
    sent_at,    \* sequence number -> request
    echoed,     \* requests on their way; a reply may come at any time
    answered    \* requests a reply came for

pingVars == <<count, stop, ping, sent_at, echoed, answered>>

Seqs   == 0 .. SeqMod - 1
SeqOf(n) == n % SeqMod

PingInit ==
    /\ count \in Counts
    /\ stop = FALSE
    /\ ping = [pc |-> "send", transmitted |-> 0, received |-> 0, duplicates |-> 0, errors |-> 0]
    /\ sent_at = [s \in Seqs |-> 0]
    /\ echoed = {}
    /\ answered = {}

on_interrupt ==
    /\ ~stop /\ ping.pc # "done"
    /\ stop' = TRUE
    /\ UNCHANGED <<count, ping, sent_at, echoed, answered>>

\* The top of the loop: a request if one is due and left to send.
SendDue ==
    /\ ping.pc = "send" /\ ~stop
    /\ LET n == ping.transmitted + 1
       IN  \/ /\ UNCHANGED <<sent_at, echoed>>
              /\ ping' = [ping EXCEPT !.pc = "break"]
           \/ /\ ping.transmitted < count
              /\ sent_at' = [sent_at EXCEPT ![SeqOf(n)] = n]
              /\ echoed' = echoed \cup {n}
              /\ ping' = [ping EXCEPT !.pc = "break", !.transmitted = n]
           \/ /\ ping.transmitted < count
              /\ ping' = [ping EXCEPT !.pc = "break", !.transmitted = n, !.errors = @ + 1]
              /\ UNCHANGED <<sent_at, echoed>>
    /\ UNCHANGED <<count, stop, answered>>

Stopped ==
    /\ ping.pc = "send" /\ stop
    /\ ping' = [ping EXCEPT !.pc = "done"]
    /\ UNCHANGED <<count, stop, sent_at, echoed, answered>>

\* All sent, and all answered or failed, or the time after the last is over.
BreakOrPoll ==
    /\ ping.pc = "break"
    /\ LET all == ping.transmitted = count
       IN  \/ /\ all
              /\ ping' = [ping EXCEPT !.pc = "done"]
           \/ /\ ~(all /\ ping.received + ping.errors >= count)
              /\ ping' = [ping EXCEPT !.pc = "poll"]
    /\ UNCHANGED <<count, stop, sent_at, echoed, answered>>

\* No packet in time, an error, or something that is no echo reply.
PollNothing ==
    /\ ping.pc = "poll"
    /\ ping' = [ping EXCEPT !.pc = "send"]
    /\ UNCHANGED <<count, stop, sent_at, echoed, answered>>

\* Mutant: the entry of an answered request is not cleared.
CountsAgain(n) ==
    /\ ping.pc = "poll"
    /\ answered' = answered \cup {n}
    /\ IF sent_at[SeqOf(n)] = 0
       THEN ping' = [ping EXCEPT !.pc = "send", !.duplicates = @ + 1]
       ELSE ping' = [ping EXCEPT !.pc = "send", !.received = @ + 1]
    /\ UNCHANGED <<count, stop, echoed, sent_at>>

\* A reply: the first for its number counts, another is a duplicate.
Reply(n) ==
    /\ ping.pc = "poll"
    /\ answered' = answered \cup {n}
    /\ IF sent_at[SeqOf(n)] = 0
       THEN /\ ping.duplicates < count
            /\ ping' = [ping EXCEPT !.pc = "send", !.duplicates = @ + 1]
            /\ UNCHANGED sent_at
       ELSE /\ ping' = [ping EXCEPT !.pc = "send", !.received = @ + 1]
            /\ sent_at' = [sent_at EXCEPT ![SeqOf(n)] = 0]
    /\ UNCHANGED <<count, stop, echoed>>

-----------------------------------------------------------------------------
PingNext ==
    \/ on_interrupt \/ SendDue \/ Stopped \/ BreakOrPoll \/ PollNothing
    \/ \E n \in echoed : Reply(n)

PingSpec == PingInit /\ [][PingNext]_pingVars

-----------------------------------------------------------------------------
\* The statistics ping.c:173 prints: as long as no sequence number is used
\* again, "received" is the number of requests that were answered, however
\* often and in whatever order, and every request sent is counted once: as
\* received, as an error, or still outstanding.
RequestsAccounted ==
    ping.transmitted <= SeqMod =>
        /\ ping.received = Cardinality(answered)
        /\ ping.transmitted = ping.received + ping.errors + Cardinality({s \in Seqs : sent_at[s] # 0})
=============================================================================
