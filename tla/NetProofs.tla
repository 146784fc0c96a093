------------------------------ MODULE NetProofs ------------------------------
(***************************************************************************)
(* Proofs about the network programs of NetSystem, for every number of     *)
(* requests, tries, IDs, ports and netcfg processes, and every course of   *)
(* the clock.                                                              *)
(***************************************************************************)
EXTENDS NetSystem, FiniteSetTheorems, TLAPS

(***************************************************************************)
(* sntp                                                                    *)
(***************************************************************************)

\* Time passes in steps of 2, and clocks are off by multiples of it.
Even == {2 * k : k \in Int}

\* Half of an even number is a whole one.
LEMMA EvenNumbers ==
    /\ Even \subseteq Int
    /\ \A m, n \in Even : m + n \in Even /\ m - n \in Even
    /\ \A m \in Even : 2 * (m \div 2) = m /\ m \div 2 \in Int
<1>1. Even \subseteq Int
  BY DEF Even
<1>2. ASSUME NEW m \in Even, NEW n \in Even PROVE m + n \in Even /\ m - n \in Even
  <2>1. PICK j \in Int, k \in Int : m = 2 * j /\ n = 2 * k
    BY DEF Even
  <2>2. /\ m + n = 2 * (j + k) /\ j + k \in Int
        /\ m - n = 2 * (j - k) /\ j - k \in Int
    BY <2>1
  <2> QED BY <2>2 DEF Even
<1>3. ASSUME NEW m \in Even PROVE 2 * (m \div 2) = m /\ m \div 2 \in Int
  <2>1. PICK k \in Int : m = 2 * k
    BY DEF Even
  <2> QED BY <2>1
<1> QED BY <1>1, <1>2, <1>3

Replies == [originate : Int, receive : Int, transmit : Int, ok : BOOLEAN]

SntpTypeOK ==
    /\ time \in Int /\ skew \in Int
    /\ replies \in SUBSET Replies
    /\ serving \in SUBSET [originate : Int, receive : Int]
    /\ requests \in SUBSET Int
    /\ sntp \in [pc : {"query", "check", "poll", "stamp", "got", "set", "done", "failed"},
                 tries : Int, t1 : Int, deadline : Int, reply : Replies \cup {<<>>},
                 offset : Int, delay : Int, target : Int, late : Int]

\* A request was sent, at the local time `originate`, before the server received it.
RequestInOrder(originate, receive) ==
    originate \in Even /\ receive \in Even /\ originate - skew <= receive

ReplyInOrder(p) ==
    /\ RequestInOrder(p.originate, p.receive) /\ p.transmit \in Even
    /\ p.receive <= p.transmit /\ p.transmit <= time

\* As long as the clock is not set, what the packets carry is in order.
PacketsInOrder ==
    sntp.pc # "done" =>
        /\ time \in Even /\ skew \in Even
        /\ \A t1 \in requests : RequestInOrder(t1, time)
        /\ \A s \in serving : RequestInOrder(s.originate, s.receive) /\ s.receive <= time
        /\ \A p \in replies : ReplyInOrder(p)

\* The reply that is looked at was received, and the clock is set to what it
\* was found to be, but for the time since.
SntpSteps ==
    /\ sntp.pc = "stamp" => sntp.reply \in replies
    /\ sntp.pc \notin {"set", "done", "failed"} => sntp.late = 0
    /\ sntp.pc = "set" => sntp.target = time - sntp.late + skew + sntp.offset

SntpInv == SntpTypeOK /\ PacketsInOrder /\ SntpSteps /\ OffsetWithinDelay

LEMMA SntpInitInv == SntpInit => SntpInv
<1> SUFFICES ASSUME SntpInit PROVE SntpInv
  OBVIOUS
<1>1. 0 \in Even /\ Skews \subseteq Even
  BY SntpAssumption DEF Even
<1> QED BY <1>1, EvenNumbers DEF SntpInit, SntpInv, SntpTypeOK, Replies, PacketsInOrder, SntpSteps, OffsetWithinDelay

\* What Stamp computes from a reply in order is wrong by at most half the delay.
LEMMA StampIsClose ==
    ASSUME NEW t1 \in Even, NEW rcv \in Even, NEW xmit \in Even, NEW now \in Even, NEW off \in Even,
           t1 - off <= rcv, rcv <= xmit, xmit <= now
    PROVE  LET offset == ((rcv - t1) + (xmit - (now + off))) \div 2
               delay  == ((now + off) - t1) - (xmit - rcv)
           IN  offset \in Int /\ delay \in Int /\ 2 * Abs(off + offset) <= delay
<1> DEFINE sum == (rcv - t1) + (xmit - (now + off))
           offset == sum \div 2
<1>1. sum \in Even
  BY EvenNumbers
<1>2. 2 * offset = sum /\ offset \in Int
  BY <1>1, EvenNumbers
<1>3. {t1, rcv, xmit, now, off} \subseteq Int
  BY EvenNumbers
<1> HIDE DEF offset
<1> QED BY <1>2, <1>3 DEF Abs, offset

LEMMA SntpNextInv == SntpInv /\ [SntpNext]_sntpVars => SntpInv'
<1> SUFFICES ASSUME SntpInv, [SntpNext]_sntpVars PROVE SntpInv'
  OBVIOUS
<1> USE DEF SntpInv
<1>e. 2 \in Even
  BY DEF Even
<1>1. CASE TimePasses
  <2>1. time \in Even => time' \in Even
    BY <1>1, <1>e, EvenNumbers DEF TimePasses
  <2>2. SntpTypeOK'
    <3>1. PICK late \in Int : late = IF sntp.pc = "set" THEN sntp.late + 2 ELSE sntp.late
      BY DEF SntpTypeOK
    <3>2. sntp' = [sntp EXCEPT !.late = late]
      BY <1>1, <3>1 DEF TimePasses
    <3>3. time' \in Int /\ UNCHANGED <<skew, requests, serving, replies>>
      BY <1>1 DEF TimePasses, SntpTypeOK
    <3> QED BY <3>2, <3>3 DEF SntpTypeOK
  <2>3. PacketsInOrder'
    BY <1>1, <2>1, SMTT(20) DEF TimePasses, Running, SntpTypeOK, Replies, PacketsInOrder, RequestInOrder, ReplyInOrder
  <2>4. SntpSteps'
    BY <1>1 DEF TimePasses, SntpTypeOK, SntpSteps, Running
  <2>5. OffsetWithinDelay'
    BY <1>1 DEF TimePasses, SntpTypeOK, OffsetWithinDelay, Running
  <2> QED BY <2>2, <2>3, <2>4, <2>5
<1>2. CASE ServerReceives
  <2>1. SntpTypeOK'
    BY <1>2 DEF ServerReceives, Running, SntpTypeOK
  <2>2. PacketsInOrder'
    BY <1>2 DEF ServerReceives, Running, SntpTypeOK, Replies, PacketsInOrder, RequestInOrder, ReplyInOrder
  <2>3. SntpSteps'
    BY <1>2 DEF ServerReceives, Running, SntpTypeOK, SntpSteps
  <2>4. OffsetWithinDelay'
    BY <1>2 DEF ServerReceives, Running, SntpTypeOK, OffsetWithinDelay
  <2> QED BY <2>1, <2>2, <2>3, <2>4
<1>3. CASE ServerAnswers
  <2>1. SntpTypeOK'
    BY <1>3 DEF ServerAnswers, Running, SntpTypeOK, Replies
  <2>2. PacketsInOrder'
    BY <1>3 DEF ServerAnswers, Running, SntpTypeOK, Replies, PacketsInOrder, RequestInOrder, ReplyInOrder
  <2>3. SntpSteps'
    BY <1>3 DEF ServerAnswers, Running, SntpTypeOK, SntpSteps
  <2>4. OffsetWithinDelay'
    BY <1>3 DEF ServerAnswers, Running, SntpTypeOK, OffsetWithinDelay
  <2> QED BY <2>1, <2>2, <2>3, <2>4
<1>4. CASE Send
  <2>a. PICK t1 \in Int, deadline \in Int :
            /\ t1 = now_unix /\ deadline = now_unix + Timeout
            /\ sntp.pc # "done" => t1 \in Even /\ t1 - skew <= time
    <3>1. now_unix \in Int /\ now_unix + Timeout \in Int /\ now_unix - skew <= time
      BY SntpAssumption DEF SntpTypeOK, now_unix
    <3>2. sntp.pc # "done" => now_unix \in Even
      BY EvenNumbers DEF PacketsInOrder, now_unix
    <3> HIDE DEF SntpInv
    <3> QED BY <3>1, <3>2
  <2>b. /\ UNCHANGED <<time, skew, serving, replies>>
        /\ requests' \in {requests, requests \cup {t1}}
        /\ \/ sntp' = [sntp EXCEPT !.pc = "check", !.t1 = t1, !.deadline = deadline]
           \/ sntp' = [sntp EXCEPT !.pc = "failed"]
    BY <1>4, <2>a DEF Send, Sntp
  <2>1. SntpTypeOK'
    BY <2>b DEF SntpTypeOK
  <2>2. PacketsInOrder'
    <3>1. sntp.pc # "done"
      BY <1>4 DEF Send
    <3> QED BY <2>a, <2>b, <3>1 DEF PacketsInOrder, RequestInOrder, ReplyInOrder
  <2>3. SntpSteps'
    BY <1>4, EvenNumbers DEF Send, Sntp, SntpTypeOK, SntpSteps, now_unix
  <2>4. OffsetWithinDelay'
    BY <1>4 DEF Send, Sntp, SntpTypeOK, OffsetWithinDelay
  <2> QED BY <2>1, <2>2, <2>3, <2>4
<1>5. CASE CheckDeadline
  <2>1. SntpTypeOK'
    <3>1. PICK tries \in Int : tries = sntp.tries + 1
      BY DEF SntpTypeOK
    <3>2. /\ UNCHANGED <<time, skew, requests, serving, replies>>
          /\ \/ sntp' = [sntp EXCEPT !.pc = "poll"]
             \/ \E pc \in {"query", "failed"} : sntp' = [sntp EXCEPT !.tries = tries, !.pc = pc]
      BY <1>5, <3>1 DEF CheckDeadline, Sntp
    <3> QED BY <3>2 DEF SntpTypeOK
  <2>2. PacketsInOrder'
    BY <1>5 DEF CheckDeadline, Sntp, SntpTypeOK, Replies, PacketsInOrder, RequestInOrder, ReplyInOrder
  <2>3. SntpSteps'
    BY <1>5 DEF CheckDeadline, Sntp, SntpTypeOK, SntpSteps
  <2>4. OffsetWithinDelay'
    BY <1>5 DEF CheckDeadline, Sntp, SntpTypeOK, OffsetWithinDelay
  <2> QED BY <2>1, <2>2, <2>3, <2>4
<1>6. CASE PollEnds
  <2>1. SntpTypeOK'
    BY <1>6 DEF PollEnds, Sntp, SntpTypeOK
  <2>2. PacketsInOrder'
    BY <1>6 DEF PollEnds, Sntp, SntpTypeOK, Replies, PacketsInOrder, RequestInOrder, ReplyInOrder
  <2>3. SntpSteps'
    BY <1>6 DEF PollEnds, Sntp, SntpTypeOK, SntpSteps
  <2>4. OffsetWithinDelay'
    BY <1>6 DEF PollEnds, Sntp, SntpTypeOK, OffsetWithinDelay
  <2> QED BY <2>1, <2>2, <2>3, <2>4
<1>7. CASE Receive
  <2>1. SntpTypeOK'
    <3>1. PICK p \in Replies : sntp' = [sntp EXCEPT !.pc = "stamp", !.reply = p]
      BY <1>7 DEF Receive, Sntp, SntpTypeOK
    <3>2. UNCHANGED <<time, skew, requests, serving, replies>>
      BY <1>7 DEF Receive, Sntp
    <3> QED BY <3>1, <3>2 DEF SntpTypeOK
  <2>2. PacketsInOrder'
    BY <1>7 DEF Receive, Sntp, SntpTypeOK, Replies, PacketsInOrder, RequestInOrder, ReplyInOrder
  <2>3. SntpSteps'
    BY <1>7 DEF Receive, Sntp, SntpTypeOK, SntpSteps
  <2>4. OffsetWithinDelay'
    BY <1>7 DEF Receive, Sntp, SntpTypeOK, OffsetWithinDelay
  <2> QED BY <2>1, <2>2, <2>3, <2>4
<1>8. CASE Stamp
  <2>a. UNCHANGED <<time, skew, requests, serving, replies>>
    BY <1>8 DEF Stamp, Sntp
  <2>1. CASE IsOurReply(sntp.reply) /\ sntp.reply.ok
    <3>1. /\ sntp.reply \in Replies /\ sntp.t1 = sntp.reply.originate
          /\ sntp.t1 - skew <= sntp.reply.receive
          /\ sntp.reply.receive <= sntp.reply.transmit /\ sntp.reply.transmit <= time
      BY <1>8, <2>1 DEF Stamp, IsOurReply, SntpTypeOK, Replies, PacketsInOrder, RequestInOrder, ReplyInOrder, SntpSteps
    <3>2. PICK offset \in Int, delay \in Int :
              /\ offset = ((sntp.reply.receive - sntp.t1) + (sntp.reply.transmit - now_unix)) \div 2
              /\ delay = (now_unix - sntp.t1) - (sntp.reply.transmit - sntp.reply.receive)
              /\ 2 * Abs(skew + offset) <= delay
      <4>1. /\ sntp.reply.originate \in Even /\ sntp.reply.receive \in Even
            /\ sntp.reply.transmit \in Even /\ time \in Even /\ skew \in Even
        BY <1>8 DEF Stamp, SntpSteps, PacketsInOrder, RequestInOrder, ReplyInOrder
      <4> DEFINE offset == ((sntp.reply.receive - sntp.t1) + (sntp.reply.transmit - now_unix)) \div 2
                 delay  == (now_unix - sntp.t1) - (sntp.reply.transmit - sntp.reply.receive)
      <4>2. sntp.t1 \in Even
        BY <3>1, <4>1
      <4>3. offset \in Int /\ delay \in Int /\ 2 * Abs(skew + offset) <= delay
        BY <3>1, <4>1, <4>2, StampIsClose DEF now_unix
      <4> HIDE DEF offset, delay
      <4>4. \E o, d \in Int : o = offset /\ d = delay /\ 2 * Abs(skew + o) <= d
        BY <4>3
      <4> QED BY <4>4 DEF offset, delay
    <3>3. sntp' = [sntp EXCEPT !.pc = "got", !.reply = <<>>, !.offset = offset, !.delay = delay]
      BY <1>8, <2>1, <3>2 DEF Stamp, Sntp
    <3>4. SntpTypeOK'
      BY <2>a, <3>3 DEF SntpTypeOK
    <3>5. sntp'.pc = "got" /\ sntp'.late = sntp.late /\ sntp'.offset = offset /\ sntp'.delay = delay
      BY <3>3 DEF SntpTypeOK
    <3>6. OffsetWithinDelay'
      BY <2>a, <3>2, <3>5 DEF OffsetWithinDelay
    <3> QED BY <1>8, <2>a, <3>4, <3>5, <3>6 DEF Stamp, PacketsInOrder, RequestInOrder, ReplyInOrder, SntpSteps
  <2>2. CASE ~(IsOurReply(sntp.reply) /\ sntp.reply.ok)
    <3>1. \E pc \in {"check", "failed"} : sntp' = [sntp EXCEPT !.pc = pc, !.reply = <<>>]
      BY <1>8, <2>2 DEF Stamp, Sntp
    <3>2. SntpTypeOK'
      BY <2>a, <3>1 DEF SntpTypeOK
    <3>3. sntp'.pc \in {"check", "failed"} /\ sntp'.late = sntp.late
      BY <3>1 DEF SntpTypeOK
    <3> QED BY <1>8, <2>a, <3>2, <3>3 DEF Stamp, PacketsInOrder, RequestInOrder, ReplyInOrder, SntpSteps, OffsetWithinDelay
  <2> QED BY <2>1, <2>2
<1>9. CASE ReadClock
  <2>1. SntpTypeOK'
    <3>1. PICK target \in Int : target = now_unix + sntp.offset
      BY DEF SntpTypeOK, now_unix
    <3>2. /\ UNCHANGED <<time, skew, requests, serving, replies>>
          /\ sntp' = [sntp EXCEPT !.pc = "set", !.target = target]
      BY <1>9, <3>1 DEF ReadClock, Sntp
    <3> QED BY <3>2 DEF SntpTypeOK
  <2>2. PacketsInOrder'
    BY <1>9, EvenNumbers DEF ReadClock, Sntp, SntpTypeOK, Replies, PacketsInOrder, RequestInOrder, ReplyInOrder, now_unix
  <2>3. SntpSteps'
    BY <1>9, EvenNumbers DEF ReadClock, Sntp, SntpTypeOK, SntpSteps, now_unix
  <2>4. OffsetWithinDelay'
    BY <1>9 DEF ReadClock, Sntp, SntpTypeOK, OffsetWithinDelay
  <2> QED BY <2>1, <2>2, <2>3, <2>4
<1>10. CASE SetClock
  <2>1. SntpTypeOK'
    BY <1>10, SMTT(20) DEF SetClock, Sntp, SntpTypeOK
  <2>2. PacketsInOrder'
    BY <1>10 DEF SetClock, Sntp, SntpTypeOK, Replies, PacketsInOrder, RequestInOrder, ReplyInOrder
  <2>3. SntpSteps'
    BY <1>10 DEF SetClock, Sntp, SntpTypeOK, SntpSteps
  <2>4. OffsetWithinDelay'
    <3>1. CASE sntp' = [sntp EXCEPT !.pc = "failed"]
      BY <3>1 DEF SntpTypeOK, OffsetWithinDelay
    <3>2. CASE skew' = sntp.target - time /\ sntp' = [sntp EXCEPT !.pc = "done"]
      <4>1. sntp.target = time - sntp.late + skew + sntp.offset /\ 2 * Abs(skew + sntp.offset) <= sntp.delay
        BY <1>10 DEF SetClock, SntpSteps, OffsetWithinDelay
      <4>2. sntp'.pc = "done" /\ sntp'.late = sntp.late /\ sntp'.delay = sntp.delay
        BY <3>2 DEF SntpTypeOK
      <4>3. skew' + sntp.late = skew + sntp.offset
        BY <3>2, <4>1, SMTT(20) DEF SntpTypeOK
      <4> QED BY <4>1, <4>2, <4>3 DEF OffsetWithinDelay
    <3> QED BY <1>10, <3>1, <3>2 DEF SetClock, Sntp
  <2> QED BY <2>1, <2>2, <2>3, <2>4
<1>11. CASE UNCHANGED sntpVars
  BY <1>11 DEF sntpVars, SntpTypeOK, Replies, PacketsInOrder, RequestInOrder, ReplyInOrder, SntpSteps, OffsetWithinDelay
<1> QED
  BY <1>1, <1>2, <1>3, <1>4, <1>5, <1>6, <1>7, <1>8, <1>9, <1>10, <1>11 DEF SntpNext

\* sntp.c:2, for every delay of every packet and any number of tries: the
\* offset printed, and the clock set by -s, are wrong by at most half the delay.
THEOREM OffsetIsClose == SntpSpec => []OffsetWithinDelay
<1>1. SntpSpec => []SntpInv
  BY SntpInitInv, SntpNextInv, PTL DEF SntpSpec
<1>2. SntpInv => OffsetWithinDelay
  BY DEF SntpInv
<1> QED BY <1>1, <1>2, PTL

(***************************************************************************)
(* ping                                                                    *)
(***************************************************************************)

\* As long as no sequence number is used again, each names one request.
LEMMA SeqsDiffer ==
    /\ \A n \in Nat : SeqOf(n) \in Seqs
    /\ \A m, n \in 1 .. SeqMod : SeqOf(m) = SeqOf(n) => m = n
BY PingAssumption DEF SeqOf, Seqs

Outstanding == {s \in Seqs : sent_at[s] # 0}

PingTypeOK ==
    /\ count \in Nat /\ stop \in BOOLEAN
    /\ ping \in [pc : {"send", "break", "poll", "done"}, transmitted : Nat, received : Nat,
                 duplicates : Nat, errors : Nat]
    /\ sent_at \in [Seqs -> Nat]
    /\ echoed \subseteq 1 .. ping.transmitted
    /\ answered \subseteq echoed

\* sent_at holds the requests that are still to be answered, each in its place.
SentAtInOrder ==
    /\ \A s \in Outstanding : sent_at[s] \in echoed /\ SeqOf(sent_at[s]) = s
    /\ \A n \in echoed : IF n \in answered THEN sent_at[SeqOf(n)] = 0 ELSE sent_at[SeqOf(n)] = n

PingInv ==
    /\ PingTypeOK
    /\ ping.transmitted <= SeqMod => SentAtInOrder
    /\ RequestsAccounted

LEMMA PingInitInv == PingInit => PingInv
<1> SUFFICES ASSUME PingInit PROVE PingInv
  OBVIOUS
<1>1. Outstanding = {}
  BY DEF PingInit, Outstanding
<1>2. PingTypeOK
  BY PingAssumption DEF PingInit, PingTypeOK
<1>3. SentAtInOrder
  BY <1>1 DEF PingInit, SentAtInOrder
<1>4. RequestsAccounted
  BY <1>1, FS_EmptySet DEF PingInit, RequestsAccounted, Outstanding
<1> QED BY <1>2, <1>3, <1>4 DEF PingInv

\* The sets ping counts are finite.
LEMMA PingFinite ==
    PingTypeOK => /\ IsFiniteSet(answered) /\ IsFiniteSet(Outstanding)
                  /\ Cardinality(answered) \in Nat /\ Cardinality(Outstanding) \in Nat
<1> SUFFICES ASSUME PingTypeOK PROVE IsFiniteSet(answered) /\ IsFiniteSet(Outstanding)
  BY FS_CardinalityType
<1>1. IsFiniteSet(1 .. ping.transmitted) /\ IsFiniteSet(Seqs)
  BY FS_Interval, PingAssumption DEF PingTypeOK, Seqs
<1>2. answered \subseteq 1 .. ping.transmitted /\ Outstanding \subseteq Seqs
  BY DEF PingTypeOK, Outstanding
<1> QED BY <1>1, <1>2, FS_Subset

LEMMA PingNextInv == PingInv /\ [PingNext]_pingVars => PingInv'
<1> SUFFICES ASSUME PingInv, [PingNext]_pingVars PROVE PingInv'
  OBVIOUS
<1> USE DEF PingInv
<1>a. ASSUME UNCHANGED <<count, sent_at, echoed, answered>>, stop' \in BOOLEAN,
             NEW pc \in {"send", "break", "poll", "done"},
             ping' = [ping EXCEPT !.pc = pc]
      PROVE  PingInv'
  <2>1. PingTypeOK'
    BY <1>a DEF PingTypeOK
  <2> QED BY <1>a, <2>1 DEF PingTypeOK, SentAtInOrder, RequestsAccounted, Outstanding
<1>1. CASE on_interrupt
  <2>1. PingTypeOK'
    BY <1>1 DEF on_interrupt, PingTypeOK
  <2> QED BY <1>1, <2>1 DEF on_interrupt, SentAtInOrder, RequestsAccounted, Outstanding
<1>2. CASE SendDue
  <2>1. PICK n \in Nat : n = ping.transmitted + 1
    BY DEF PingTypeOK
  <2>2. CASE UNCHANGED <<sent_at, echoed>> /\ ping' = [ping EXCEPT !.pc = "break"]
    BY <1>2, <2>2, <1>a DEF SendDue, PingTypeOK
  <2>3. CASE /\ sent_at' = [sent_at EXCEPT ![SeqOf(n)] = n]
             /\ echoed' = echoed \cup {n}
             /\ ping' = [ping EXCEPT !.pc = "break", !.transmitted = n]
    <3>1. PingTypeOK'
      <4>1. sent_at' \in [Seqs -> Nat]
        BY <2>3 DEF PingTypeOK
      <4>2. ping' \in [pc : {"send", "break", "poll", "done"}, transmitted : Nat, received : Nat,
                       duplicates : Nat, errors : Nat] /\ ping'.transmitted = n
        BY <2>3 DEF PingTypeOK
      <4> QED BY <1>2, <2>1, <2>3, <4>1, <4>2 DEF SendDue, PingTypeOK
    <3>2. /\ ping'.transmitted = ping.transmitted + 1 /\ ping'.received = ping.received
          /\ ping'.errors = ping.errors /\ answered' = answered
      BY <1>2, <2>1, <2>3 DEF SendDue, PingTypeOK
    <3> SUFFICES ASSUME n <= SeqMod PROVE SentAtInOrder' /\ RequestsAccounted'
      BY <2>1, <3>1, <3>2 DEF RequestsAccounted
    <3>3. ping.transmitted <= SeqMod /\ SentAtInOrder
      BY <2>1, PingAssumption DEF PingTypeOK
    <3>4. n \notin echoed /\ n \in 1 .. SeqMod /\ echoed \subseteq 1 .. SeqMod
      BY <2>1, PingAssumption DEF PingTypeOK
    <3>5. SeqOf(n) \in Seqs /\ \A m \in echoed : SeqOf(m) \in Seqs /\ SeqOf(m) # SeqOf(n)
      BY <3>4, SeqsDiffer
    <3>6. sent_at[SeqOf(n)] = 0
      BY <3>3, <3>4, <3>5, SeqsDiffer DEF SentAtInOrder, Outstanding
    <3>7. Outstanding' = Outstanding \cup {SeqOf(n)} /\ SeqOf(n) \notin Outstanding
      BY <2>3, <3>4, <3>5, <3>6 DEF Outstanding, PingTypeOK
    <3>8. SentAtInOrder'
      <4>1. \A s \in Outstanding' : sent_at'[s] \in echoed' /\ SeqOf(sent_at'[s]) = s
        BY <2>3, <3>3, <3>5, <3>7 DEF SentAtInOrder, Outstanding, PingTypeOK
      <4>2. \A m \in echoed' : IF m \in answered THEN sent_at'[SeqOf(m)] = 0 ELSE sent_at'[SeqOf(m)] = m
        BY <2>3, <3>3, <3>4, <3>5 DEF SentAtInOrder, PingTypeOK
      <4> QED BY <3>2, <4>1, <4>2 DEF SentAtInOrder
    <3>9. Cardinality(Outstanding') = Cardinality(Outstanding) + 1
      BY <3>7, PingFinite, FS_AddElement
    <3> QED BY <3>2, <3>3, <3>8, <3>9, PingFinite DEF RequestsAccounted, Outstanding, PingTypeOK
  <2>4. CASE /\ ping' = [ping EXCEPT !.pc = "break", !.transmitted = n, !.errors = @ + 1]
             /\ UNCHANGED <<sent_at, echoed>>
    <3>1. PICK e \in Nat : e = ping.errors + 1
      BY DEF PingTypeOK
    <3>2. ping' = [ping EXCEPT !.pc = "break", !.transmitted = n, !.errors = e]
      BY <2>4, <3>1
    <3>3. /\ ping' \in [pc : {"send", "break", "poll", "done"}, transmitted : Nat, received : Nat,
                        duplicates : Nat, errors : Nat]
          /\ ping'.transmitted = n /\ ping'.received = ping.received /\ ping'.errors = e
      BY <3>2 DEF PingTypeOK
    <3>4. PingTypeOK'
      BY <1>2, <2>1, <2>4, <3>3 DEF SendDue, PingTypeOK
    <3> QED BY <1>2, <2>1, <2>4, <3>1, <3>3, <3>4, PingFinite, PingAssumption
            DEF SendDue, SentAtInOrder, RequestsAccounted, Outstanding, PingTypeOK
  <2> QED BY <1>2, <2>1, <2>2, <2>3, <2>4 DEF SendDue
<1>3. CASE Stopped
  BY <1>3, <1>a DEF Stopped, PingTypeOK
<1>4. CASE BreakOrPoll
  BY <1>4, <1>a DEF BreakOrPoll, PingTypeOK
<1>5. CASE PollNothing
  BY <1>5, <1>a DEF PollNothing, PingTypeOK
<1>6. ASSUME NEW n \in echoed, Reply(n) PROVE PingInv'
  <2>1. n \in Nat \ {0} /\ SeqOf(n) \in Seqs
    BY SeqsDiffer DEF PingTypeOK
  <2>2. CASE sent_at[SeqOf(n)] = 0
    <3>1. PICK d \in Nat : d = ping.duplicates + 1
      BY DEF PingTypeOK
    <3>2. ping' = [ping EXCEPT !.pc = "send", !.duplicates = d] /\ UNCHANGED sent_at
      BY <1>6, <2>2, <3>1 DEF Reply
    <3>3. /\ ping' \in [pc : {"send", "break", "poll", "done"}, transmitted : Nat, received : Nat,
                        duplicates : Nat, errors : Nat]
          /\ ping'.transmitted = ping.transmitted /\ ping'.received = ping.received
          /\ ping'.errors = ping.errors
      BY <3>2 DEF PingTypeOK
    <3>4. PingTypeOK'
      BY <1>6, <3>2, <3>3 DEF Reply, PingTypeOK
    <3>5. ping.transmitted <= SeqMod => answered' = answered
      BY <1>6, <2>1, <2>2 DEF Reply, SentAtInOrder
    <3>6. ping.transmitted <= SeqMod => SentAtInOrder'
      BY <1>6, <3>2, <3>3, <3>5 DEF Reply, SentAtInOrder, Outstanding
    <3>7. RequestsAccounted'
      BY <1>6, <3>2, <3>3, <3>5 DEF Reply, RequestsAccounted, Outstanding
    <3> QED BY <3>3, <3>4, <3>6, <3>7
  <2>3. CASE sent_at[SeqOf(n)] # 0
    <3>1. PICK e \in Nat : e = ping.received + 1
      BY DEF PingTypeOK
    <3>2. /\ ping' = [ping EXCEPT !.pc = "send", !.received = e]
          /\ sent_at' = [sent_at EXCEPT ![SeqOf(n)] = 0]
      BY <1>6, <2>3, <3>1 DEF Reply
    <3>3. /\ ping' \in [pc : {"send", "break", "poll", "done"}, transmitted : Nat, received : Nat,
                        duplicates : Nat, errors : Nat]
          /\ ping'.transmitted = ping.transmitted /\ ping'.received = e
          /\ ping'.errors = ping.errors
      BY <3>2 DEF PingTypeOK
    <3>t. sent_at' \in [Seqs -> Nat]
      BY <3>2 DEF PingTypeOK
    <3>4. PingTypeOK'
      BY <1>6, <3>t, <3>3 DEF Reply, PingTypeOK
    <3> SUFFICES ASSUME ping.transmitted <= SeqMod PROVE SentAtInOrder' /\ RequestsAccounted'
      BY <3>3, <3>4 DEF RequestsAccounted
    <3>5. n \notin answered /\ answered' = answered \cup {n} /\ echoed' = echoed
      BY <1>6, <2>3 DEF Reply, SentAtInOrder
    <3>6. \A m \in echoed : m # n => SeqOf(m) \in Seqs /\ SeqOf(m) # SeqOf(n)
      BY SeqsDiffer, PingAssumption DEF PingTypeOK
    <3>7. Outstanding' = Outstanding \ {SeqOf(n)} /\ SeqOf(n) \in Outstanding
      BY <2>1, <2>3, <3>2 DEF Outstanding, PingTypeOK
    <3>8. SentAtInOrder'
      <4>1. \A s \in Outstanding' : sent_at'[s] \in echoed' /\ SeqOf(sent_at'[s]) = s
        BY <3>2, <3>5, <3>7 DEF SentAtInOrder, Outstanding, PingTypeOK
      <4>2. \A m \in echoed : IF m \in answered' THEN sent_at'[SeqOf(m)] = 0 ELSE sent_at'[SeqOf(m)] = m
        BY <2>1, <3>2, <3>5, <3>6 DEF SentAtInOrder, PingTypeOK
      <4> QED BY <3>5, <4>1, <4>2 DEF SentAtInOrder
    <3>9. /\ Cardinality(answered') = Cardinality(answered) + 1
          /\ Cardinality(Outstanding') = Cardinality(Outstanding) - 1
      BY <3>5, <3>7, PingFinite, FS_AddElement, FS_RemoveElement
    <3> QED BY <3>1, <3>3, <3>8, <3>9, PingFinite DEF RequestsAccounted, Outstanding, PingTypeOK
  <2> QED BY <2>2, <2>3
<1>7. CASE UNCHANGED pingVars
  BY <1>7 DEF pingVars, PingTypeOK, SentAtInOrder, RequestsAccounted, Outstanding
<1> QED BY <1>1, <1>2, <1>3, <1>4, <1>5, <1>6, <1>7 DEF PingNext

\* ping.c:173, for every count and every number of sequence numbers, however
\* late, often and out of order the replies come: each request is accounted once.
THEOREM PingAccounts == PingSpec => []RequestsAccounted
<1>1. PingSpec => []PingInv
  BY PingInitInv, PingNextInv, PTL DEF PingSpec
<1>2. PingInv => RequestsAccounted
  BY DEF PingInv
<1> QED BY <1>1, <1>2, PTL

(***************************************************************************)
(* nslookup and host                                                       *)
(***************************************************************************)
Styles   == {plan[1] : plan \in Plans}
Types    == {plan[2] : plan \in Plans}
Drawn    == [id : Ids, port : Ports]
Messages == [of : Nat, id : Ids \cup {0}, tc : BOOLEAN, mixed : BOOLEAN]
Lookups  == [pc : {"ask", "send", "wait", "tcp", "print", "next", "exit"},
             style : Styles, types : Types, t : Nat \ {0}, drawn : Seq(Drawn), attempt : Nat,
             broken : BOOLEAN, printed : BOOLEAN, status : Nat]

LookupTypeOK ==
    /\ lookup \in Lookups
    /\ queries \in SUBSET [of : Nat, id : Ids, port : Ports]
    /\ packets \in SUBSET [to : Ports, msg : Messages]
    /\ r \in Messages

\* A question has drawn its ID and port once it is asked.
QuestionsDraw ==
    /\ lookup.pc = "ask" => Len(lookup.drawn) = lookup.t - 1
    /\ lookup.pc \in {"send", "wait", "tcp", "print", "next"} => Len(lookup.drawn) = lookup.t

\* What is on its way carries the ID and the port of the question it is for.
PacketsMatch ==
    /\ \A q \in queries : q.of \in 1 .. Len(lookup.drawn) /\ lookup.drawn[q.of] = [id |-> q.id, port |-> q.port]
    /\ \A p \in packets :
          /\ p.msg.of \in 1 .. Len(lookup.drawn) /\ ~p.msg.mixed
          /\ lookup.drawn[p.msg.of] = [id |-> p.msg.id, port |-> p.to]

\* The buffer, once an answer with our ID was taken from our port.
BufferMatches ==
    /\ lookup.pc \in {"tcp", "print"} =>
          r.id = Id /\ r.of \in 1 .. Len(lookup.drawn) /\ lookup.drawn[r.of] = lookup.drawn[lookup.t]
    /\ lookup.pc = "print" => (r.tc \/ r.mixed => lookup.broken)

LookupInv == LookupTypeOK /\ QuestionsDraw /\ PacketsMatch /\ BufferMatches

LEMMA LookupInitInv == LookupInit => LookupInv
<1> SUFFICES ASSUME LookupInit PROVE LookupInv
  OBVIOUS
<1>1. PICK plan \in Plans, pc \in {"ask", "exit"} :
          lookup = [pc |-> pc, style |-> plan[1], types |-> plan[2], t |-> 1, drawn |-> << >>,
                    attempt |-> 0, broken |-> FALSE, printed |-> FALSE,
                    status |-> IF pc = "exit" THEN 2 ELSE 0]
  BY DEF LookupInit
<1>2. plan[1] \in Styles /\ plan[2] \in Types
  BY DEF Styles, Types
<1>3. lookup \in Lookups /\ Len(lookup.drawn) = 0 /\ lookup.t = 1 /\ lookup.pc \in {"ask", "exit"}
  BY <1>1, <1>2 DEF Lookups
<1> QED BY <1>3 DEF LookupInit, Empty, Messages, LookupInv, LookupTypeOK, QuestionsDraw, PacketsMatch, BufferMatches

LEMMA LookupNextInv == LookupInv /\ [LookupNext]_lookupVars => LookupInv'
<1> SUFFICES ASSUME LookupInv, [LookupNext]_lookupVars PROVE LookupInv'
  OBVIOUS
<1> USE DEF LookupInv
<1>d. Len(lookup.drawn) \in Nat /\ lookup.t \in Nat
  BY DEF LookupTypeOK, Lookups
\* A step that keeps the questions drawn, the packets and the buffer.
<1>a. ASSUME UNCHANGED <<queries, packets, r>>, lookup' \in Lookups,
             lookup'.drawn = lookup.drawn, QuestionsDraw',
             lookup'.pc \notin {"tcp", "print"}
      PROVE  LookupInv'
  BY <1>a DEF LookupTypeOK, PacketsMatch, BufferMatches
<1>b. ASSUME NEW s \in Nat, Exits(s), UNCHANGED r PROVE LookupInv'
  <2>1. lookup' \in Lookups /\ lookup'.drawn = lookup.drawn /\ lookup'.pc = "exit"
    BY <1>b DEF Exits, Step, LookupTypeOK, Lookups
  <2> QED BY <1>a, <1>b, <2>1 DEF Exits, Step, QuestionsDraw
<1>1. CASE ServerReplies
  <2>1. PICK q \in queries, tc \in BOOLEAN :
            /\ queries' = queries \ {q}
            /\ packets' = packets \cup {[to |-> q.port, msg |-> [of |-> q.of, id |-> q.id, tc |-> tc,
                                                                 mixed |-> FALSE]]}
    BY <1>1 DEF ServerReplies
  <2>2. UNCHANGED <<lookup, r>>
    BY <1>1 DEF ServerReplies
  <2>3. LookupTypeOK'
    <3>1. q \in [of : Nat, id : Ids, port : Ports]
      BY DEF LookupTypeOK
    <3>2. [of |-> q.of, id |-> q.id, tc |-> tc, mixed |-> FALSE] \in Messages
      BY <3>1 DEF Messages
    <3>3. [to |-> q.port, msg |-> [of |-> q.of, id |-> q.id, tc |-> tc, mixed |-> FALSE]]
              \in [to : Ports, msg : Messages]
      BY <3>1, <3>2
    <3>4. packets' \in SUBSET [to : Ports, msg : Messages]
      BY <2>1, <3>3, Zenon DEF LookupTypeOK
    <3> QED BY <2>1, <2>2, <3>4 DEF LookupTypeOK
  <2>4. PacketsMatch'
    BY <2>1, <2>2 DEF PacketsMatch
  <2> QED BY <2>2, <2>3, <2>4 DEF QuestionsDraw, BufferMatches, Id
<1>2. CASE Ask
  <2>1. CASE Exits(2)
    BY <1>2, <1>b, <2>1 DEF Ask
  <2>2. ASSUME NEW id \in Ids, NEW port \in Ports,
               Step([lookup EXCEPT !.pc = "send", !.drawn = Append(@, [id |-> id, port |-> port]),
                                   !.attempt = 0, !.broken = FALSE])
        PROVE  LookupInv'
    <3>1. PICK drawn \in Seq(Drawn) : drawn = Append(lookup.drawn, [id |-> id, port |-> port])
      <4>1. [id |-> id, port |-> port] \in Drawn /\ lookup.drawn \in Seq(Drawn)
        BY DEF Drawn, LookupTypeOK, Lookups
      <4>2. PICK d \in Drawn : d = [id |-> id, port |-> port]
        BY <4>1
      <4>3. Append(lookup.drawn, d) \in Seq(Drawn)
        BY <4>1
      <4> QED BY <4>2, <4>3, Zenon
    <3>2. lookup' = [lookup EXCEPT !.pc = "send", !.drawn = drawn, !.attempt = 0, !.broken = FALSE]
      BY <2>2, <3>1 DEF Step
    <3>3. lookup' \in Lookups /\ lookup'.drawn = drawn /\ lookup'.pc = "send" /\ lookup'.t = lookup.t
      BY <3>2 DEF LookupTypeOK, Lookups
    <3>4. Len(drawn) = Len(lookup.drawn) + 1 /\ \A k \in 1 .. Len(lookup.drawn) : drawn[k] = lookup.drawn[k]
      BY <3>1 DEF LookupTypeOK, Lookups, Drawn
    <3>5. UNCHANGED <<queries, packets, r>>
      BY <1>2, <2>2 DEF Ask, Step
    <3>6. PacketsMatch'
      BY <1>d, <3>3, <3>4, <3>5 DEF PacketsMatch
    <3>7. QuestionsDraw'
      <4>1. Len(lookup.drawn) = lookup.t - 1
        BY <1>2 DEF QuestionsDraw, Ask
      <4> QED BY <1>d, <3>3, <3>4, <4>1 DEF QuestionsDraw
    <3> QED BY <3>3, <3>5, <3>6, <3>7 DEF LookupTypeOK, BufferMatches
  <2> QED BY <1>2, <2>1, <2>2 DEF Ask
<1>3. CASE SendQuery
  <2>1. CASE Exits(1)
    BY <1>3, <1>b, <2>1 DEF SendQuery
  <2>2. CASE /\ queries' = queries \cup {[of |-> lookup.t, id |-> Id, port |-> Port]}
             /\ lookup' = [lookup EXCEPT !.pc = "wait", !.attempt = @ + 1]
             /\ UNCHANGED packets
    <3>1. PICK attempt \in Nat : attempt = lookup.attempt + 1
      BY DEF LookupTypeOK, Lookups
    <3>2. lookup' = [lookup EXCEPT !.pc = "wait", !.attempt = attempt]
      BY <2>2, <3>1
    <3>3. lookup' \in Lookups /\ lookup'.drawn = lookup.drawn /\ lookup'.pc = "wait" /\ lookup'.t = lookup.t
      BY <3>2 DEF LookupTypeOK, Lookups
    <3>4. lookup.t \in 1 .. Len(lookup.drawn) /\ lookup.drawn[lookup.t] \in Drawn
      BY <1>3 DEF SendQuery, LookupTypeOK, Lookups, QuestionsDraw
    <3>5. lookup.drawn[lookup.t] = [id |-> Id, port |-> Port] /\ Id \in Ids /\ Port \in Ports
      BY <3>4 DEF Drawn, Id, Port
    <3>6. PacketsMatch'
      BY <2>2, <3>3, <3>4, <3>5 DEF PacketsMatch
    <3>7. LookupTypeOK'
      BY <1>3, <2>2, <3>3, <3>4, <3>5 DEF SendQuery, LookupTypeOK
    <3> QED BY <1>3, <3>3, <3>6, <3>7 DEF SendQuery, QuestionsDraw, BufferMatches
  <2> QED BY <1>3, <2>1, <2>2 DEF SendQuery
<1>4. CASE WaitEnds
  <2>1. lookup' \in Lookups /\ lookup'.drawn = lookup.drawn /\ lookup'.pc = "send" /\ lookup'.t = lookup.t
    BY <1>4 DEF WaitEnds, Step, LookupTypeOK, Lookups
  <2> QED BY <1>4, <1>a, <2>1 DEF WaitEnds, Step, QuestionsDraw
<1>5. CASE ReceiveAnswer
  <2>1. PICK p \in packets :
            /\ p.to = Port /\ r' = p.msg
            /\ Step([lookup EXCEPT !.pc = IF ~OurId(p.msg) THEN "wait" ELSE IF p.msg.tc THEN "tcp" ELSE "print"])
    BY <1>5 DEF ReceiveAnswer
  <2>2. /\ lookup' \in Lookups /\ lookup'.drawn = lookup.drawn /\ lookup'.t = lookup.t
        /\ lookup'.broken = lookup.broken /\ lookup'.pc \in {"wait", "tcp", "print"}
        /\ lookup'.pc # "wait" => OurId(p.msg)
        /\ lookup'.pc = "print" => ~p.msg.tc
    BY <2>1 DEF Step, LookupTypeOK, Lookups
  <2>3. /\ p.msg \in Messages /\ p.msg.of \in 1 .. Len(lookup.drawn) /\ ~p.msg.mixed
        /\ lookup.drawn[p.msg.of] = [id |-> p.msg.id, port |-> p.to]
    BY DEF LookupTypeOK, PacketsMatch
  <2>4. lookup.drawn[lookup.t] \in Drawn
    BY <1>5 DEF ReceiveAnswer, LookupTypeOK, Lookups, QuestionsDraw
  <2>5. OurId(p.msg) => p.msg.id = Id /\ lookup.drawn[p.msg.of] = lookup.drawn[lookup.t]
    BY <2>1, <2>3, <2>4 DEF OurId, Id, Port, Drawn
  <2>6. LookupTypeOK' /\ PacketsMatch' /\ QuestionsDraw'
    BY <1>5, <2>1, <2>2, <2>3 DEF ReceiveAnswer, Step, LookupTypeOK, PacketsMatch, QuestionsDraw
  <2> QED BY <2>1, <2>2, <2>3, <2>5, <2>6 DEF BufferMatches, Id
<1>6. CASE ReceiveOther
  BY <1>6 DEF ReceiveOther, Empty, LookupTypeOK, Messages, QuestionsDraw, PacketsMatch, BufferMatches
<1>7. CASE TcpAnswers
  <2>1. /\ lookup' \in Lookups /\ lookup'.drawn = lookup.drawn /\ lookup'.t = lookup.t
        /\ lookup'.pc = "print"
    BY <1>7 DEF TcpAnswers, Step, LookupTypeOK, Lookups
  <2>2. lookup.t \in 1 .. Len(lookup.drawn) /\ lookup.drawn[lookup.t] \in Drawn /\ Id \in Ids
    <3>1. Len(lookup.drawn) = lookup.t /\ lookup.t \in Nat \ {0} /\ lookup.drawn \in Seq(Drawn)
      BY <1>7 DEF TcpAnswers, LookupTypeOK, Lookups, QuestionsDraw
    <3>2. lookup.t \in 1 .. Len(lookup.drawn) /\ lookup.drawn[lookup.t] \in Drawn
      BY <3>1
    <3> QED BY <3>2 DEF Id, Drawn
  <2>3. r' \in Messages /\ r'.of = lookup.t /\ r'.id = Id /\ ~r'.tc /\ ~r'.mixed
    BY <1>7, <1>d, <2>2 DEF TcpAnswers, Messages
  <2>4. LookupTypeOK' /\ PacketsMatch' /\ QuestionsDraw'
    BY <1>7, <2>1, <2>3 DEF TcpAnswers, Step, LookupTypeOK, PacketsMatch, QuestionsDraw
  <2> QED BY <2>1, <2>2, <2>3, <2>4 DEF BufferMatches, Id
<1>8. CASE TcpRefused
  <2>1. /\ lookup' \in Lookups /\ lookup'.drawn = lookup.drawn /\ lookup'.t = lookup.t
        /\ lookup'.pc = "print" /\ lookup'.broken
    BY <1>8 DEF TcpRefused, Step, LookupTypeOK, Lookups
  <2> QED BY <1>8, <2>1 DEF TcpRefused, Step, LookupTypeOK, PacketsMatch, QuestionsDraw, BufferMatches, Id
<1>9. CASE TcpBreaksOff
  <2>1. /\ lookup' \in Lookups /\ lookup'.drawn = lookup.drawn /\ lookup'.t = lookup.t
        /\ lookup'.pc = "print" /\ lookup'.broken
    BY <1>9 DEF TcpBreaksOff, Step, LookupTypeOK, Lookups
  <2>2. r' \in Messages /\ r'.of = r.of /\ r'.id = r.id
    BY <1>9 DEF TcpBreaksOff, LookupTypeOK, Messages
  <2> QED BY <1>9, <2>1, <2>2 DEF TcpBreaksOff, Step, LookupTypeOK, PacketsMatch, QuestionsDraw, BufferMatches, Id
<1>10. CASE PrintAnswer
  <2>1. CASE Exits(1)
    BY <1>10, <1>b, <2>1 DEF PrintAnswer
  <2>2. CASE \/ \E some \in BOOLEAN : Step([lookup EXCEPT !.pc = "next", !.printed = @ \/ some])
             \/ Step([lookup EXCEPT !.pc = "next", !.status = 1])
    <3>1. lookup' \in Lookups /\ lookup'.drawn = lookup.drawn /\ lookup'.pc = "next" /\ lookup'.t = lookup.t
      <4>1. CASE Step([lookup EXCEPT !.pc = "next", !.status = 1])
        BY <4>1 DEF Step, LookupTypeOK, Lookups
      <4>2. ASSUME NEW some \in BOOLEAN, Step([lookup EXCEPT !.pc = "next", !.printed = @ \/ some])
            PROVE  /\ lookup' \in Lookups /\ lookup'.drawn = lookup.drawn
                   /\ lookup'.pc = "next" /\ lookup'.t = lookup.t
        <5>1. PICK b \in BOOLEAN : b = (lookup.printed \/ some)
          OBVIOUS
        <5>2. lookup' = [lookup EXCEPT !.pc = "next", !.printed = b]
          BY <4>2, <5>1 DEF Step
        <5> QED BY <5>2 DEF LookupTypeOK, Lookups
      <4> QED BY <2>2, <4>1, <4>2
    <3> QED BY <1>10, <1>a, <2>2, <3>1 DEF PrintAnswer, Step, QuestionsDraw
  <2> QED BY <1>10, <2>1, <2>2 DEF PrintAnswer
<1>11. CASE NextType
  <2>1. CASE \E s \in Nat : Exits(s)
    BY <1>11, <1>b, <2>1 DEF NextType
  <2>2. CASE Step([lookup EXCEPT !.pc = "ask", !.t = @ + 1])
    <3>1. PICK u \in Nat \ {0} : u = lookup.t + 1
      BY DEF LookupTypeOK, Lookups
    <3>2. lookup' = [lookup EXCEPT !.pc = "ask", !.t = u]
      BY <2>2, <3>1 DEF Step
    <3>3. lookup' \in Lookups /\ lookup'.drawn = lookup.drawn /\ lookup'.pc = "ask" /\ lookup'.t = u
      BY <3>2 DEF LookupTypeOK, Lookups
    <3>4. QuestionsDraw'
      BY <1>11, <1>d, <3>1, <3>3 DEF NextType, QuestionsDraw
    <3> QED BY <1>11, <1>a, <2>2, <3>3, <3>4 DEF NextType, Step
  <2> QED BY <1>11, <2>1, <2>2 DEF NextType, LookupTypeOK, Lookups
<1>12. CASE UNCHANGED lookupVars
  BY <1>12 DEF lookupVars, LookupTypeOK, QuestionsDraw, PacketsMatch, BufferMatches, Id
<1> QED BY <1>1, <1>2, <1>3, <1>4, <1>5, <1>6, <1>7, <1>8, <1>9, <1>10, <1>11, <1>12 DEF LookupNext

\* nslookup.c:1, for every set of IDs and ports: what is printed for a question
\* is a whole answer that carries its ID, and answers another question only if
\* that one had drawn the same ID and port.
THEOREM LookupPrintsAnswers == LookupSpec => []PrintedIsOneAnswer
<1>1. LookupSpec => []LookupInv
  BY LookupInitInv, LookupNextInv, PTL DEF LookupSpec
<1>2. LookupInv => PrintedIsOneAnswer
  BY DEF LookupInv, BufferMatches, PrintedIsOneAnswer
<1> QED BY <1>1, <1>2, PTL

(***************************************************************************)
(* The network manager and netcfg                                          *)
(***************************************************************************)
Configs  == [generation : Generations, flags : SUBSET Flags, client : BOOLEAN, leases : Generations]
WatchPcs == WritePcs \cup {<<s>> : s \in {"start", "none", "get", "sleep", "sync"}}
Watchers == [pc : WatchPcs, generation : Generations, clock : {"not yet", "due", "synced"},
             failed : BOOLEAN, whole : BOOLEAN]
Netcfgs  == [pc : {"off", "set", "wait", "ok", "failed"}, cmd : Commands \cup {"none"},
             generation : Generations, leases : Generations]

\* A temporary file that is about to be put in place is whole, or a write() fell short.
TempWhole == \A f \in Files : watcher.pc = <<"rename", f>> => watcher.whole \/ cut

\* Every lease is a configuration.
LeasesConfigure == net.leases < net.generation

\* A netcfg that waits has not seen a lease: one that it would take for the
\* answer came after it began.
WaitsForLease ==
    \A a \in Admins : admin[a].pc \in {"set", "wait"} =>
        /\ admin[a].leases <= net.leases
        /\ net.leases = admin[a].leases /\ net.generation # admin[a].generation => net.flags # Flags

NetworkInv == ReadersSeeWhole /\ TempWhole /\ LeasesConfigure /\ WaitsForLease /\ NetcfgSawLease

\* The steps the watcher can be at.
LEMMA WatcherSteps ==
    /\ \A f \in Files : /\ <<"open", f>> \in WatchPcs /\ <<"write", f>> \in WatchPcs
                        /\ <<"rename", f>> \in WatchPcs /\ AfterFile(f) \in WatchPcs
    /\ \A s \in {"start", "none", "get", "sleep", "sync"} : <<s>> \in WatchPcs
    /\ \A f, g \in Files : /\ <<"open", f>> # <<"rename", g>> /\ <<"write", f>> # <<"rename", g>>
                           /\ AfterFile(f) # <<"rename", g>>
    /\ \A s \in {"start", "none", "get", "sleep", "sync"}, f \in Files : <<s>> # <<"rename", f>>
<1>1. \A f \in Files : /\ <<"open", f>> \in WatchPcs /\ <<"write", f>> \in WatchPcs
                       /\ <<"rename", f>> \in WatchPcs
  BY DEF WatchPcs, WritePcs
<1>2. \A s \in {"start", "none", "get", "sleep", "sync"} : <<s>> \in WatchPcs
  BY DEF WatchPcs
<1>3. \A s \in {"start", "none", "get", "sleep", "sync"}, f \in Files : <<s>> # <<"rename", f>>
  OBVIOUS
<1>4. \A f, g \in Files : <<"open", f>> # <<"rename", g>> /\ <<"write", f>> # <<"rename", g>>
  OBVIOUS
<1>5. "hosts" \in Files
  BY DEF Files
<1> QED BY <1>1, <1>2, <1>3, <1>4, <1>5 DEF AfterFile

LEMMA NetworkInitInv == NetworkInit => NetworkInv
<1> SUFFICES ASSUME NetworkInit PROVE NetworkInv
  OBVIOUS
<1>1. net \in Configs /\ LeasesConfigure
  BY NetworkAssumption DEF NetworkInit, FirstConfig, Configs, Generations, LeasesConfigure
<1>2. 0 \in Generations
  BY NetworkAssumption DEF Generations
<1>3. watcher \in Watchers /\ watcher.pc = <<"start">>
  BY <1>2, WatcherSteps DEF NetworkInit, Starting, Watchers
<1>4. files \in [Files -> Content] /\ \A f \in Files : files[f].whole
  BY <1>2 DEF NetworkInit, OldFile, Content
<1>5. admin \in [Admins -> Netcfgs] /\ \A a \in Admins : admin[a].pc = "off"
  BY <1>2 DEF NetworkInit, NotRun, Netcfgs
<1>6. NetworkTypeOK
  BY <1>1, <1>3, <1>4, <1>5 DEF NetworkTypeOK, Configs, WatchPcs, Watchers, Netcfgs, NetworkInit
<1> QED BY <1>1, <1>3, <1>4, <1>5, <1>6, WatcherSteps
        DEF NetworkInv, ReadersSeeWhole, TempWhole, WaitsForLease, NetcfgSawLease

\* The configuration stays, or becomes a new one, which has the flags of a
\* lease only when it is one.
NetMoves ==
    \/ UNCHANGED net
    \/ /\ net' \in Configs /\ LeasesConfigure'
       /\ net'.generation > net.generation /\ net'.leases >= net.leases
       /\ net'.flags = Flags => net'.leases > net.leases

LEMMA ConfigureMoves ==
    ASSUME NetworkInv, NEW flags \in SUBSET Flags, NEW client \in BOOLEAN, NEW leases \in Nat,
           Configure(flags, client, leases), leases \in {net.leases, net.leases + 1},
           flags = Flags => leases = net.leases + 1
    PROVE  NetMoves
<1>1. net \in Configs /\ net.leases < net.generation
  BY DEF NetworkInv, ReadersSeeWhole, NetworkTypeOK, Configs, LeasesConfigure
<1>2. PICK g \in Generations : g = net.generation + 1
  BY <1>1, NetworkAssumption DEF Configure, Configs, Generations
<1>3. leases \in Generations /\ leases < g /\ leases >= net.leases /\ g > net.generation
  BY <1>1, <1>2, NetworkAssumption DEF Configs, Generations
<1>4. net' = [generation |-> g, flags |-> flags, client |-> client, leases |-> leases]
  BY <1>2 DEF Configure
<1>5. /\ net' \in Configs /\ net'.generation = g /\ net'.leases = leases /\ net'.flags = flags
  BY <1>3, <1>4 DEF Configs
<1>6. flags = Flags => leases > net.leases
  BY <1>1 DEF Configs, Generations
<1> QED BY <1>3, <1>5, <1>6 DEF NetMoves, LeasesConfigure

LEMMA SetEffectMoves ==
    ASSUME NetworkInv, NEW cmd \in Commands, SetEffect(cmd)
    PROVE  NetMoves /\ (cmd = "dhcp" => net'.flags # Flags /\ net'.leases = net.leases)
<1>1. net.leases \in Nat
  <2>1. net \in Configs
    BY DEF NetworkInv, ReadersSeeWhole, NetworkTypeOK, Configs
  <2> QED BY <2>1, NetworkAssumption DEF Configs, Generations
<1>2. {} # Flags /\ {"up"} # Flags /\ {} \in SUBSET Flags /\ {"up"} \in SUBSET Flags
  BY DEF Flags
<1>3. CASE cmd = "dhcp"
  <2>1. Configure({}, TRUE, net.leases)
    BY <1>3 DEF SetEffect
  <2>2. NetMoves
    BY <1>1, <1>2, <2>1, ConfigureMoves
  <2>3. net'.flags = {} /\ net'.leases = net.leases
    BY <2>1 DEF Configure
  <2> QED BY <1>2, <2>2, <2>3
<1>4. CASE cmd = "static"
  <2>1. Configure({"up"}, FALSE, net.leases)
    BY <1>4 DEF SetEffect
  <2> QED BY <1>1, <1>2, <1>4, <2>1, ConfigureMoves
<1>5. CASE cmd = "down"
  <2>1. Configure({}, FALSE, net.leases)
    BY <1>5 DEF SetEffect
  <2> QED BY <1>1, <1>2, <1>5, <2>1, ConfigureMoves
<1>6. CASE cmd = "renew"
  BY <1>6 DEF SetEffect, NetMoves
<1> QED BY <1>3, <1>4, <1>5, <1>6 DEF Commands

LEMMA NetworkNextInv == NetworkInv /\ [NetworkNext]_networkVars => NetworkInv'
<1> SUFFICES ASSUME NetworkInv, [NetworkNext]_networkVars PROVE NetworkInv'
  OBVIOUS
<1>t. /\ net \in Configs /\ watcher \in Watchers /\ files \in [Files -> Content] /\ cut \in BOOLEAN
      /\ admin \in [Admins -> Netcfgs]
  BY DEF NetworkInv, ReadersSeeWhole, NetworkTypeOK, Configs, Watchers, WatchPcs, Netcfgs
<1>n. net.generation \in Nat /\ net.leases \in Nat /\ \A a \in Admins : admin[a].leases \in Nat
  BY <1>t, NetworkAssumption DEF Configs, Generations, Netcfgs
<1>u. ASSUME net' \in Configs, watcher' \in Watchers, files' \in [Files -> Content], cut' \in BOOLEAN,
             admin' \in [Admins -> Netcfgs]
      PROVE  NetworkTypeOK'
  BY <1>u DEF NetworkTypeOK, Configs, Watchers, WatchPcs, Netcfgs
\* The kernel's steps.
<1>k. ASSUME NetMoves, UNCHANGED <<watcher, files, cut, admin>> PROVE NetworkInv'
  <2>1. CASE UNCHANGED net
    BY <1>k, <2>1 DEF NetworkInv, ReadersSeeWhole, NetworkTypeOK, TempWhole, LeasesConfigure, WaitsForLease, NetcfgSawLease
  <2>2. CASE ~UNCHANGED net
    <3>1. /\ net' \in Configs /\ LeasesConfigure' /\ net'.leases >= net.leases
          /\ net'.flags = Flags => net'.leases > net.leases
      BY <1>k, <2>2 DEF NetMoves
    <3>2. net'.leases \in Nat
      BY <3>1, NetworkAssumption DEF Configs, Generations
    <3>3. NetworkTypeOK'
      BY <1>k, <1>t, <1>u, <3>1
    <3>4. WaitsForLease' /\ NetcfgSawLease'
      BY <1>k, <1>n, <3>1, <3>2 DEF NetworkInv, WaitsForLease, NetcfgSawLease
    <3> QED BY <1>k, <3>1, <3>3, <3>4 DEF NetworkInv, ReadersSeeWhole, TempWhole
  <2> QED BY <2>1, <2>2
\* The watcher's.
<1>w. ASSUME UNCHANGED <<net, admin>>, watcher' \in Watchers, files' \in [Files -> Content], cut' \in BOOLEAN,
             cut => cut', \A f \in Files : files'[f].whole \/ cut', TempWhole'
      PROVE  NetworkInv'
  <2>1. NetworkTypeOK'
    BY <1>t, <1>u, <1>w
  <2> QED BY <1>w, <2>1 DEF NetworkInv, ReadersSeeWhole, LeasesConfigure, WaitsForLease, NetcfgSawLease
<1>v. ASSUME UNCHANGED <<net, admin, files, cut>>, watcher' \in Watchers,
             \A f \in Files : watcher'.pc # <<"rename", f>>
      PROVE  NetworkInv'
  BY <1>t, <1>v, <1>w DEF NetworkInv, ReadersSeeWhole, TempWhole
<1>g. ASSUME NEW pc \in WatchPcs PROVE GoTo(pc) \in Watchers /\ GoTo(pc).pc = pc
                                       /\ Fails(pc) \in Watchers /\ Fails(pc).pc = pc
  BY <1>t DEF GoTo, Fails, Watchers
\* netcfg's.
<1>c. ASSUME NEW a \in Admins, NEW next \in Netcfgs, Admin(a, next), NetMoves,
             /\ next.pc \in {"set", "wait"} =>
                   /\ next.leases <= net'.leases
                   /\ net'.leases = next.leases /\ net'.generation # next.generation => net'.flags # Flags
             /\ next.pc = "ok" /\ next.cmd \in {"dhcp", "renew"} => net'.leases > next.leases
      PROVE  NetworkInv'
  <2>1. /\ net' \in Configs /\ LeasesConfigure' /\ net'.leases >= net.leases /\ net'.leases \in Nat
        /\ net' = net \/ (net'.flags = Flags => net'.leases > net.leases)
    BY <1>c, <1>t, <1>n, NetworkAssumption DEF NetMoves, Configs, Generations, NetworkInv, LeasesConfigure
  <2>2. /\ admin' = [admin EXCEPT ![a] = next] /\ UNCHANGED <<watcher, files, cut>>
        /\ admin' \in [Admins -> Netcfgs]
    BY <1>c, <1>t DEF Admin
  <2>3. NetworkTypeOK'
    BY <1>t, <1>u, <2>1, <2>2
  <2>4. WaitsForLease' /\ NetcfgSawLease'
    <3>1. \A b \in Admins : b # a => admin'[b] = admin[b]
      BY <1>t, <2>2
    <3>2. admin'[a] = next
      BY <1>t, <2>2
    <3> QED BY <1>c, <1>n, <2>1, <3>1, <3>2 DEF NetworkInv, WaitsForLease, NetcfgSawLease
  <2> QED BY <2>1, <2>2, <2>3, <2>4 DEF NetworkInv, ReadersSeeWhole, TempWhole
<1>f. Failed \in Netcfgs /\ Failed.pc = "failed"
  BY NetworkAssumption DEF Failed, NotRun, Netcfgs, Generations
<1>1. CASE LeaseArrives
  <2>1. PICK leases \in Nat : leases = net.leases + 1
    BY <1>n
  <2>2. Configure(Flags, TRUE, leases)
    BY <1>1, <2>1 DEF LeaseArrives
  <2>3. NetMoves
    BY <2>1, <2>2, ConfigureMoves
  <2> QED BY <1>1, <1>k, <2>3 DEF LeaseArrives
<1>2. CASE LeaseEnds
  <2>1. {} # Flags
    BY DEF Flags
  <2>2. NetMoves
    BY <1>2, <1>n, <2>1, ConfigureMoves DEF LeaseEnds
  <2> QED BY <1>2, <1>k, <2>2 DEF LeaseEnds
<1>3. ASSUME NEW cmd \in Commands, OthersSet(cmd) PROVE NetworkInv'
  BY <1>3, <1>k, SetEffectMoves DEF OthersSet
<1>4. CASE StartWatcher
  BY <1>4, <1>g, <1>v, WatcherSteps DEF StartWatcher, Watcher
<1>5. CASE GetConfig
  <2>1. PICK clock \in {"not yet", "due", "synced"} :
            clock = IF watcher.clock = "not yet" /\ "up" \in net.flags THEN "due" ELSE watcher.clock
    BY <1>t DEF Watchers
  <2>2. watcher' = [watcher EXCEPT !.pc = <<"open", "resolv">>, !.generation = net.generation,
                                   !.failed = FALSE, !.clock = clock]
    BY <1>5, <2>1 DEF GetConfig, Watcher
  <2>3. "resolv" \in Files /\ net.generation \in Generations
    BY <1>t DEF Files, Configs
  <2>4. watcher' \in Watchers /\ watcher'.pc = <<"open", "resolv">>
    BY <1>t, <2>2, <2>3, WatcherSteps DEF Watchers
  <2> QED BY <1>5, <1>v, <2>3, <2>4, WatcherSteps DEF GetConfig, Watcher
<1>6. CASE GetConfigFails
  BY <1>6, <1>g, <1>v, WatcherSteps DEF GetConfigFails, Watcher
<1>7. CASE WatcherSleeps
  BY <1>7, <1>g, <1>v, WatcherSteps DEF WatcherSleeps, Watcher
<1>8. ASSUME NEW f \in Files, OpenTemp(f) PROVE NetworkInv'
  <2>1. PICK pc \in WatchPcs : /\ watcher' = GoTo(pc) \/ watcher' = Fails(pc)
                               /\ \A g \in Files : pc # <<"rename", g>>
    BY <1>8, WatcherSteps DEF OpenTemp, Watcher
  <2>2. UNCHANGED <<net, admin, files, cut>>
    BY <1>8 DEF OpenTemp, Watcher
  <2> QED BY <1>g, <1>v, <2>1, <2>2
<1>9. ASSUME NEW f \in Files, WriteTemp(f) PROVE NetworkInv'
  <2>1. PICK whole \in BOOLEAN :
            /\ cut' = (cut \/ ~whole)
            /\ Watcher([GoTo(<<"rename", f>>) EXCEPT !.whole = whole, !.failed = @ \/ ~whole])
    BY <1>9 DEF WriteTemp
  <2>2. PICK failed \in BOOLEAN : failed = (GoTo(<<"rename", f>>).failed \/ ~whole)
    OBVIOUS
  <2>3. watcher' = [GoTo(<<"rename", f>>) EXCEPT !.whole = whole, !.failed = failed]
    BY <2>1, <2>2 DEF Watcher
  <2>4. watcher' \in Watchers /\ watcher'.whole = whole
    <3>1. GoTo(<<"rename", f>>) \in Watchers
      BY <1>g, WatcherSteps
    <3> QED BY <2>3, <3>1 DEF Watchers
  <2>5. /\ UNCHANGED <<net, admin, files>> /\ cut' \in BOOLEAN /\ (cut => cut') /\ TempWhole'
        /\ \A g \in Files : files'[g].whole \/ cut'
    BY <1>9, <1>t, <2>1, <2>4 DEF WriteTemp, Watcher, TempWhole, NetworkInv, ReadersSeeWhole
  <2> QED BY <1>t, <1>w, <2>4, <2>5
<1>10. ASSUME NEW f \in Files, RenameTemp(f) PROVE NetworkInv'
  <2>1. watcher.whole \/ cut
    BY <1>10 DEF RenameTemp, At, NetworkInv, TempWhole
  <2>2. AfterFile(f) \in WatchPcs /\ \A g \in Files : AfterFile(f) # <<"rename", g>>
    BY WatcherSteps
  <2>3. \/ watcher' = [GoTo(AfterFile(f)) EXCEPT !.whole = FALSE]
        \/ watcher' = [Fails(AfterFile(f)) EXCEPT !.whole = FALSE]
    BY <1>10 DEF RenameTemp, Watcher
  <2>4. watcher' \in Watchers /\ watcher'.pc = AfterFile(f)
    BY <1>g, <2>2, <2>3 DEF Watchers
  <2>5. Text(watcher.whole) \in Content /\ Text(watcher.whole).whole = watcher.whole
    BY <1>t DEF Text, Watchers, Content
  <2>6. UNCHANGED <<net, admin, cut>> /\ (files' = files \/ files' = [files EXCEPT ![f] = Text(watcher.whole)])
    BY <1>10 DEF RenameTemp, Watcher
  <2>7. files' \in [Files -> Content] /\ \A g \in Files : files'[g].whole \/ cut
    BY <1>t, <2>1, <2>5, <2>6 DEF NetworkInv, ReadersSeeWhole
  <2> QED BY <1>t, <1>w, <2>2, <2>4, <2>6, <2>7 DEF TempWhole
<1>11. CASE SyncClock
  <2>1. PICK clock \in {"not yet", "due", "synced"} :
            clock = IF GoTo(<<"get">>).clock = "due" THEN "synced" ELSE GoTo(<<"get">>).clock
    BY <1>g, WatcherSteps DEF Watchers
  <2>2. watcher' = [GoTo(<<"get">>) EXCEPT !.clock = clock]
    BY <1>11, <2>1 DEF SyncClock, Watcher
  <2>3. watcher' \in Watchers /\ watcher'.pc = <<"get">>
    <3>1. GoTo(<<"get">>) \in Watchers /\ GoTo(<<"get">>).pc = <<"get">>
      BY <1>g, WatcherSteps
    <3> QED BY <2>2, <3>1 DEF Watchers
  <2> QED BY <1>11, <1>v, <2>3, WatcherSteps DEF SyncClock, Watcher
<1>12. ASSUME NEW a \in Admins, NEW cmd \in Commands, NetcfgStarts(a, cmd) PROVE NetworkInv'
  <2> DEFINE next == [pc |-> "set", cmd |-> cmd, generation |-> net.generation, leases |-> net.leases]
  <2>1. NetMoves /\ net' = net
    BY <1>12 DEF NetcfgStarts, NetMoves
  <2>2. CASE Admin(a, next)
    <3>1. next \in Netcfgs /\ next.pc = "set" /\ next.leases = net.leases /\ next.generation = net.generation
      BY <1>t DEF Netcfgs, Configs
    <3> HIDE DEF next
    <3> QED BY <1>c, <1>n, <2>1, <2>2, <3>1
  <2>3. CASE Admin(a, Failed)
    BY <1>c, <1>f, <2>1, <2>3
  <2> QED BY <1>12, <2>2, <2>3 DEF NetcfgStarts
<1>13. ASSUME NEW a \in Admins, NetcfgSets(a) PROVE NetworkInv'
  <2>a. admin[a] \in Netcfgs /\ admin[a].leases \in Nat /\ admin[a].pc = "set"
    BY <1>13, <1>t, <1>n DEF NetcfgSets
  <2>1. CASE Admin(a, Failed) /\ UNCHANGED net
    BY <1>c, <1>f, <2>1 DEF NetMoves
  <2>2. CASE SetEffect(admin[a].cmd)
    <3>1. PICK pc \in {"wait", "ok"} : pc = IF admin[a].cmd \in {"dhcp", "renew"} THEN "wait" ELSE "ok"
      OBVIOUS
    <3>2. PICK leases \in Generations : leases = IF admin[a].cmd = "dhcp" THEN net.leases ELSE admin[a].leases
      BY <1>t, <2>a DEF Netcfgs, Configs
    <3> DEFINE next == [admin[a] EXCEPT !.pc = pc, !.leases = leases]
    <3>3. CASE Admin(a, next)
      <4>1. /\ next \in Netcfgs /\ next.pc = pc /\ next.leases = leases /\ next.cmd = admin[a].cmd
            /\ next.generation = admin[a].generation
        BY <2>a DEF Netcfgs
      <4>2. admin[a].cmd \in Commands
        BY <2>2 DEF SetEffect, Commands
      <4>3. NetMoves /\ (admin[a].cmd = "dhcp" => net'.flags # Flags /\ net'.leases = net.leases)
        BY <2>2, <4>2, SetEffectMoves
      <4>4. net'.leases \in Nat /\ leases \in Nat /\ net'.leases >= net.leases
        BY <1>t, <1>n, <4>3, NetworkAssumption DEF NetMoves, Configs, Generations
      <4>5. admin[a].cmd = "renew" => net' = net
        BY <2>2 DEF SetEffect
      <4>6. pc = "wait" => /\ leases <= net'.leases
                           /\ net'.leases = leases /\ net'.generation # admin[a].generation => net'.flags # Flags
        BY <1>13, <1>n, <2>a, <3>1, <3>2, <4>3, <4>4, <4>5 DEF NetworkInv, WaitsForLease
      <4>7. pc = "ok" => admin[a].cmd \notin {"dhcp", "renew"}
        BY <3>1
      <4> HIDE DEF next
      <4> QED BY <1>c, <3>3, <4>1, <4>3, <4>6, <4>7
    <3>4. CASE ~Admin(a, next)
      BY <1>13, <3>1, <3>2, <3>4, <2>1 DEF NetcfgSets
    <3> QED BY <3>3, <3>4
  <2> QED BY <1>13, <2>1, <2>2 DEF NetcfgSets
<1>14. ASSUME NEW a \in Admins, wait_for(a) PROVE NetworkInv'
  <2>a. admin[a] \in Netcfgs /\ admin[a].leases \in Nat /\ admin[a].pc = "wait"
    BY <1>14, <1>t, <1>n DEF wait_for
  <2>1. NetMoves /\ net' = net
    BY <1>14 DEF wait_for, NetMoves
  <2>2. PICK pc \in {"wait", "ok"} : pc = IF net.flags = Flags THEN "ok" ELSE "wait"
    OBVIOUS
  <2> DEFINE next == [admin[a] EXCEPT !.generation = net.generation, !.pc = pc]
  <2>3. Admin(a, next)
    BY <1>14, <2>2 DEF wait_for
  <2>4. /\ next \in Netcfgs /\ next.pc = pc /\ next.leases = admin[a].leases
        /\ next.generation = net.generation
    BY <1>t, <2>a DEF Netcfgs, Configs
  <2>5. admin[a].leases <= net.leases /\ (pc = "ok" => net.leases > admin[a].leases)
    BY <1>14, <1>n, <2>a, <2>2 DEF wait_for, NetworkInv, WaitsForLease
  <2> HIDE DEF next
  <2> QED BY <1>c, <2>1, <2>3, <2>4, <2>5
<1>15. ASSUME NEW a \in Admins, NetcfgGivesUp(a) PROVE NetworkInv'
  BY <1>15, <1>c, <1>f DEF NetcfgGivesUp, NetMoves
<1>16. CASE UNCHANGED networkVars
  BY <1>16 DEF networkVars, NetworkInv, ReadersSeeWhole, NetworkTypeOK, TempWhole, LeasesConfigure, WaitsForLease, NetcfgSawLease
<1> QED
  BY <1>1, <1>2, <1>3, <1>4, <1>5, <1>6, <1>7, <1>8, <1>9, <1>10, <1>11, <1>12, <1>13, <1>14, <1>15, <1>16
  DEF NetworkNext, WatcherStep

\* main.cpp:42, for any number of netcfgs and configurations and wherever a
\* reader comes: it finds a file that is whole, or a write() fell short.
THEOREM ReadersAlwaysSeeWhole == NetworkSpec => []ReadersSeeWhole
<1>1. NetworkSpec => []NetworkInv
  BY NetworkInitInv, NetworkNextInv, PTL DEF NetworkSpec
<1>2. NetworkInv => ReadersSeeWhole
  BY DEF NetworkInv
<1> QED BY <1>1, <1>2, PTL

\* netcfg.c:8, for any number of them at a time: one that reports success saw a
\* lease that came after it began.
THEOREM NetcfgSeesItsLease == NetworkSpec => []NetcfgSawLease
<1>1. NetworkSpec => []NetworkInv
  BY NetworkInitInv, NetworkNextInv, PTL DEF NetworkSpec
<1>2. NetworkInv => NetcfgSawLease
  BY DEF NetworkInv
<1> QED BY <1>1, <1>2, PTL

(***************************************************************************)
(* The programs together                                                   *)
(***************************************************************************)

\* What the programs promise holds of the system they form: a step of one is a
\* step of its own specification, and leaves the others as they are.
THEOREM NetPromises ==
    NetSpec => [](ReadersSeeWhole /\ NetcfgSawLease /\ OffsetWithinDelay /\ RequestsAccounted /\ PrintedIsOneAnswer)
<1> DEFINE Inv == NetworkInv /\ SntpInv /\ PingInv /\ LookupInv
<1>1. NetInit => Inv
  BY NetworkInitInv, SntpInitInv, PingInitInv, LookupInitInv DEF NetInit
<1>2. [NetNext]_netVars => /\ [NetworkNext]_networkVars /\ [SntpNext]_sntpVars
                           /\ [PingNext]_pingVars /\ [LookupNext]_lookupVars
  BY DEF NetNext, netVars
<1>3. Inv /\ [NetNext]_netVars => Inv'
  BY <1>2, NetworkNextInv, SntpNextInv, PingNextInv, LookupNextInv
<1>4. Inv => ReadersSeeWhole /\ NetcfgSawLease /\ OffsetWithinDelay /\ RequestsAccounted /\ PrintedIsOneAnswer
  BY DEF NetworkInv, SntpInv, PingInv, LookupInv, BufferMatches, PrintedIsOneAnswer
<1> QED BY <1>1, <1>3, <1>4, PTL DEF NetSpec
=============================================================================
