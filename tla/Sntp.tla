-------------------------------- MODULE Sntp --------------------------------
(***************************************************************************)
(* sntp (net-tools/src/sntp.c): one time server asked over a network that  *)
(* loses, delays, reorders and repeats packets: one that is never taken is *)
(* lost, and a reply stays in its set, so that it may come twice.          *)
(*                                                                         *)
(* Time passes in steps of 2, so that the mean of two differences, the     *)
(* offset, is a whole number.                                              *)
(***************************************************************************)
EXTENDS Integers

CONSTANTS
    MaxTime,    \* the end of time
    Skews,      \* by how much the local clock may be off
    Timeout,    \* -W
    Retries     \* -r

ASSUME SntpAssumption ==
    /\ MaxTime \in Nat /\ Timeout \in Nat /\ Retries \in Nat \ {0}
    /\ Skews \subseteq {2 * k : k \in -MaxTime .. MaxTime}

VARIABLES
    time,       \* the true time, which is the server's
    skew,       \* the local clock less the true time
    requests,   \* transmit times of the requests in flight
    serving,    \* requests that reached the server: [originate, receive]
    replies,    \* replies in flight
    sntp        \* the program

sntpVars == <<time, skew, requests, serving, replies, sntp>>

now_unix == time + skew
Abs(n)   == IF n < 0 THEN -n ELSE n

SntpInit ==
    /\ time = 0
    /\ skew \in Skews
    /\ requests = {} /\ serving = {} /\ replies = {}
    /\ sntp = [pc |-> "query", tries |-> 0, t1 |-> 0, deadline |-> 0, reply |-> <<>>,
               offset |-> 0, delay |-> 0, target |-> 0, late |-> 0]

-----------------------------------------------------------------------------
(* Time, the network and the server *)

Running == sntp.pc \notin {"failed", "done"}

TimePasses ==
    /\ Running /\ time < MaxTime
    /\ time' = time + 2
    /\ sntp' = [sntp EXCEPT !.late = IF sntp.pc = "set" THEN @ + 2 ELSE @]
    /\ UNCHANGED <<skew, requests, serving, replies>>

\* A request reaches the server, some time after it was sent.
ServerReceives ==
    /\ Running
    /\ \E t1 \in requests :
          /\ requests' = requests \ {t1}
          /\ serving' = serving \cup {[originate |-> t1, receive |-> time]}
    /\ UNCHANGED <<time, skew, replies, sntp>>

\* Its answer, in order or with a stratum or leap indicator that says not to
\* use it.
ServerAnswers ==
    /\ Running
    /\ \E s \in serving, ok \in BOOLEAN :
          /\ serving' = serving \ {s}
          /\ replies' = replies \cup {[originate |-> s.originate, receive |-> s.receive,
                                      transmit |-> time, ok |-> ok]}
    /\ UNCHANGED <<time, skew, requests, sntp>>

-----------------------------------------------------------------------------
(* The program *)

Sntp(next) ==
    /\ sntp' = next
    /\ UNCHANGED <<time, serving, replies>>

\* query(): the request carries the local time, or cannot be sent.
Send ==
    /\ sntp.pc = "query"
    /\ \/ /\ requests' = requests \cup {now_unix}
          /\ Sntp([sntp EXCEPT !.pc = "check", !.t1 = now_unix, !.deadline = now_unix + Timeout])
       \/ /\ Sntp([sntp EXCEPT !.pc = "failed"])
          /\ UNCHANGED requests
    /\ UNCHANGED skew

\* The deadline is looked at before each wait; main() then tries again.
CheckDeadline ==
    /\ sntp.pc = "check"
    /\ Sntp(IF now_unix < sntp.deadline THEN [sntp EXCEPT !.pc = "poll"]
            ELSE [sntp EXCEPT !.tries = @ + 1,
                              !.pc = IF sntp.tries + 1 < Retries THEN "query" ELSE "failed"])
    /\ UNCHANGED <<skew, requests>>

\* poll() ends without a packet, or with an error other than EINTR.
PollEnds ==
    /\ sntp.pc = "poll"
    /\ \E pc \in {"check", "failed"} : Sntp([sntp EXCEPT !.pc = pc])
    /\ UNCHANGED <<skew, requests>>

\* A packet is received; the clock is read after that.
Receive ==
    /\ sntp.pc = "poll"
    /\ \E r \in replies : Sntp([sntp EXCEPT !.pc = "stamp", !.reply = r])
    /\ UNCHANGED <<skew, requests>>

\* Mutant: a reply to any request is taken.
IsReply(reply) == TRUE

\* "A reply to this request": our transmit time echoed back.
IsOurReply(reply) == reply.originate = sntp.t1

\* t4 is read: a packet that is not our reply is dropped, a refusal ends it.
Stamp ==
    LET r  == sntp.reply
        t4 == now_unix
    IN  /\ sntp.pc = "stamp"
        /\ \/ /\ ~IsOurReply(r)
              /\ Sntp([sntp EXCEPT !.pc = "check", !.reply = <<>>])
           \/ /\ IsOurReply(r) /\ ~r.ok
              /\ Sntp([sntp EXCEPT !.pc = "failed", !.reply = <<>>])
           \/ /\ IsOurReply(r) /\ r.ok
              /\ Sntp([sntp EXCEPT !.pc = "got", !.reply = <<>>,
                    !.offset = ((r.receive - sntp.t1) + (r.transmit - t4)) \div 2,
                    !.delay = (t4 - sntp.t1) - (r.transmit - r.receive)])
        /\ UNCHANGED <<skew, requests>>

\* -s: the clock is read once more ...
ReadClock ==
    /\ sntp.pc = "got"
    /\ Sntp([sntp EXCEPT !.pc = "set", !.target = now_unix + sntp.offset])
    /\ UNCHANGED <<skew, requests>>

\* ... and set, unless that is refused.
SetClock ==
    /\ sntp.pc = "set"
    /\ \/ /\ skew' = sntp.target - time
          /\ Sntp([sntp EXCEPT !.pc = "done"])
       \/ /\ Sntp([sntp EXCEPT !.pc = "failed"])
          /\ UNCHANGED skew
    /\ UNCHANGED requests

-----------------------------------------------------------------------------
SntpNext ==
    \/ TimePasses \/ ServerReceives \/ ServerAnswers
    \/ Send \/ CheckDeadline \/ PollEnds \/ Receive \/ Stamp \/ ReadClock \/ SetClock

SntpSpec == SntpInit /\ [][SntpNext]_sntpVars

-----------------------------------------------------------------------------
\* sntp.c:2: "prints how far the local clock is off": the offset is wrong by at
\* most half of the delay printed with it, although late answers to earlier
\* tries are still about; and -s leaves the clock as close to the true time,
\* but for the time between reading and setting it.
OffsetWithinDelay ==
    /\ sntp.pc \in {"got", "set"} => 2 * Abs(skew + sntp.offset) <= sntp.delay
    /\ sntp.pc = "done" => 2 * Abs(skew + sntp.late) <= sntp.delay
=============================================================================
