------------------------------- MODULE Lookup -------------------------------
(***************************************************************************)
(* nslookup and host (net-tools/src/nslookup.c): one question per record   *)
(* type, each from a new socket with a new random ID, over a network that  *)
(* loses, delays, reorders and repeats packets. IDs and ports come from    *)
(* small sets, so that a late answer to an earlier question may meet the   *)
(* port, the ID or both again.                                             *)
(***************************************************************************)
EXTENDS Integers, Sequences

CONSTANTS
    Ids,        \* what getentropy() may return
    Ports       \* ports the kernel gives a socket

VARIABLES
    queries,    \* questions on their way to the server
    packets,    \* its answers on their way back
    lookup,     \* the program
    r           \* the answer buffer: the question it answers and its ID, whether
                \* it is cut (TC) and whether it is a mixture of two messages

lookupVars == <<queries, packets, lookup, r>>

Attempts == 3
Empty == [of |-> 0, id |-> 0, tc |-> FALSE, mixed |-> FALSE]

\* host asks for three types by default, nslookup for A; -t and -type give one.
Plans == {<<"host", <<"A", "AAAA", "MX">> >>, <<"host", <<"A">> >>,
          <<"nslookup", <<"A">> >>, <<"nslookup", <<"MX">> >>}

\* main() up to the first question; without a server it ends with 2.
LookupInit ==
    /\ queries = {} /\ packets = {}
    /\ r = Empty
    /\ \E plan \in Plans, pc \in {"ask", "exit"} :
          lookup = [pc |-> pc, style |-> plan[1], types |-> plan[2], t |-> 1, drawn |-> << >>,
                    attempt |-> 0, broken |-> FALSE, printed |-> FALSE,
                    status |-> IF pc = "exit" THEN 2 ELSE 0]

Step(next) == lookup' = next /\ UNCHANGED <<queries, packets>>
Id    == lookup.drawn[lookup.t].id
Port  == lookup.drawn[lookup.t].port
Exits(status) == Step([lookup EXCEPT !.pc = "exit", !.status = status])

-----------------------------------------------------------------------------
\* The server, or nobody, answers a question: in full or cut to fit (TC).
ServerReplies ==
    /\ lookup.pc # "exit"
    /\ \E q \in queries, tc \in BOOLEAN :
          /\ queries' = queries \ {q}
          /\ packets' = packets \cup {[to |-> q.port, msg |-> [of |-> q.of, id |-> q.id, tc |-> tc,
                                                               mixed |-> FALSE]]}
    /\ UNCHANGED <<lookup, r>>

-----------------------------------------------------------------------------
\* A name that does not fit ends it; otherwise a new ID and a new socket.
Ask ==
    /\ lookup.pc = "ask"
    /\ \/ Exits(2)
       \/ \E id \in Ids, port \in Ports :
             Step([lookup EXCEPT !.pc = "send", !.drawn = Append(@, [id |-> id, port |-> port]),
                                 !.attempt = 0, !.broken = FALSE])
    /\ UNCHANGED r

\* exchange_udp(): the question is sent up to three times. With no answer, or
\* when it cannot be sent, "connection timed out".
SendQuery ==
    /\ lookup.pc = "send"
    /\ \/ /\ lookup.attempt < Attempts
          /\ queries' = queries \cup {[of |-> lookup.t, id |-> Id, port |-> Port]}
          /\ lookup' = [lookup EXCEPT !.pc = "wait", !.attempt = @ + 1]
          /\ UNCHANGED packets
       \/ Exits(1)
    /\ UNCHANGED r

WaitEnds ==
    /\ lookup.pc = "wait"
    /\ Step([lookup EXCEPT !.pc = "send"])
    /\ UNCHANGED r

\* Mutant: the ID is not compared.
AnyId(msg) == TRUE

\* "The answer must come from the server and carry our ID."
OurId(msg) == msg.id = Id

\* recvfrom() writes to r before the packet is looked at. TC asks again over TCP.
ReceiveAnswer ==
    /\ lookup.pc = "wait"
    /\ \E p \in {p \in packets : p.to = Port} :
          /\ r' = p.msg
          /\ Step([lookup EXCEPT !.pc = IF ~OurId(p.msg) THEN "wait" ELSE IF p.msg.tc THEN "tcp" ELSE "print"])

\* A packet of another host or one shorter than a header.
ReceiveOther ==
    /\ lookup.pc = "wait"
    /\ r' = Empty
    /\ UNCHANGED <<queries, packets, lookup>>

\* exchange_tcp() reads the whole answer to r, over the cut one ...
TcpAnswers ==
    /\ lookup.pc = "tcp"
    /\ r' = [of |-> lookup.t, id |-> Id, tc |-> FALSE, mixed |-> FALSE]
    /\ Step([lookup EXCEPT !.pc = "print"])

\* ... or fails before it reads any of it ...
TcpRefused ==
    /\ lookup.pc = "tcp"
    /\ Step([lookup EXCEPT !.pc = "print", !.broken = TRUE])
    /\ UNCHANGED r

\* ... or in the middle of it: the length stays that of the cut answer, whose
\* first bytes are now others.
TcpBreaksOff ==
    /\ lookup.pc = "tcp"
    /\ r' = [r EXCEPT !.mixed = TRUE]
    /\ Step([lookup EXCEPT !.pc = "print", !.broken = TRUE])

\* The answer section: an rcode or a message that cannot be parsed ends it;
\* there are records, of which print_record() prints those it can read, or none.
PrintAnswer ==
    /\ lookup.pc = "print"
    /\ \/ Exits(1)
       \/ \E some \in BOOLEAN : Step([lookup EXCEPT !.pc = "next", !.printed = @ \/ some])
       \/ /\ Len(lookup.types) = 1 /\ lookup.types[1] # "A"
          /\ Step([lookup EXCEPT !.pc = "next", !.status = 1])
    /\ UNCHANGED r

\* The next type, or the end: "has no address", "No answer".
NextType ==
    /\ lookup.pc = "next"
    /\ IF lookup.t < Len(lookup.types)
       THEN Step([lookup EXCEPT !.pc = "ask", !.t = @ + 1])
       ELSE Exits(IF ~lookup.printed /\ (Len(lookup.types) > 1 \/ (lookup.style = "nslookup" /\ lookup.types[1] = "A"))
                  THEN 1 ELSE lookup.status)
    /\ UNCHANGED r

-----------------------------------------------------------------------------
LookupNext ==
    \/ ServerReplies \/ Ask \/ SendQuery \/ WaitEnds \/ ReceiveAnswer \/ ReceiveOther
    \/ TcpAnswers \/ TcpRefused \/ TcpBreaksOff \/ PrintAnswer \/ NextType

LookupSpec == LookupInit /\ [][LookupNext]_lookupVars

-----------------------------------------------------------------------------
\* nslookup.c:1: "UDP, falling back to TCP for a truncated answer": what is
\* printed for a question carries its ID, and is one whole message, unless the
\* TCP exchange failed. It answers that very question, however late, often and
\* out of order the answers to earlier questions come, unless an earlier one had
\* the same ID and the same port.
PrintedIsOneAnswer ==
    lookup.pc = "print" =>
        /\ r.id = Id
        /\ (r.tc \/ r.mixed) => lookup.broken
        /\ r.of # lookup.t => lookup.drawn[r.of] = lookup.drawn[lookup.t]
=============================================================================
