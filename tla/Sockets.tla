------------------------------- MODULE Sockets -------------------------------
(***************************************************************************)
(* The socket calls of the sysdeps                                         *)
(* (outside/mlibc-sysdeps/instantos/sysdeps.cpp): connect(), sendmsg(),    *)
(* recvmsg(), sendto(), recvfrom(), poll() and select() between a sending  *)
(* and a receiving program. The kernel sends and receives one flat buffer  *)
(* at a time and takes or gives fewer bytes than it was asked to; the      *)
(* calls take buffers in several pieces.                                   *)
(*                                                                         *)
(* The sender's bytes are 1, 2, 3, ...; it goes on behind the bytes a call *)
(* reported as sent, and tries again after an error.                       *)
(***************************************************************************)
EXTENDS Integers, Sequences

CONSTANTS
    Pieces,     \* lengths of the pieces of a message: sequences of numbers
    Buffered,   \* bytes (or datagrams) the kernel holds for a receiver
    MaxBytes,   \* bytes the sender sends (a bound)
    PollSlots   \* fds select() passes on: pfds[64]

ASSUME SocketsAssumption ==
    /\ Pieces \subseteq Seq(Nat)
    /\ {Buffered, MaxBytes, PollSlots} \subseteq Nat
    /\ \A p \in Pieces : \A i \in DOMAIN p : p[i] < MaxBytes

VARIABLES
    socket,     \* [type, connected, joined]: what it is and what connect() said
    connecting, \* the step connect() is at
    wire,       \* what was sent and not received: bytes, or datagrams
    told,       \* bytes the sender was told are sent
    sending,    \* the sendmsg() under way: [pieces, next, total]
    receiving,  \* the recvmsg() under way: [pieces, next, total, data]
    received,   \* what the receiver has of a stream, or its last datagram
    polled,     \* the last poll() or select() said there is something to read
    passing,    \* file descriptors on their way with the bytes of a Unix socket
    untold      \* some of them are gone and the receiver was not told

socketVars == <<socket, connecting, wire, told, sending, receiving, received, polled,
                passing, untold>>

NoMsg == [pieces |-> <<>>, next |-> 0, total |-> 0, data |-> <<>>]

Smaller(a, b) == IF a < b THEN a ELSE b

\* The bytes in the first pieces of a message, those before piece i, and all of
\* them (iov_total).
Sums(p) == LET sum[j \in 0 .. Len(p)] == IF j = 0 THEN 0 ELSE sum[j - 1] + p[j]
           IN  sum
Before(p, i) == Sums(p)[i - 1]
iov_total(p) == Before(p, Len(p) + 1)

\* n bytes from byte k on.
From(k, n) == [i \in 1 .. n |-> k + i - 1]

SocketsInit ==
    /\ socket \in [type : {"stream", "datagram", "unix"}, connected : {"no"}, joined : {FALSE}]
    /\ connecting = "idle"
    /\ wire = <<>> /\ told = 0
    /\ sending = NoMsg /\ receiving = NoMsg
    /\ received = <<>>
    /\ polled = FALSE
    /\ passing = 0 /\ untold = FALSE

-----------------------------------------------------------------------------
(* The handshake (external): the packet pump and the peer finish it.       *)

PeerAnswers ==
    /\ socket.connected = "trying"
    /\ \E c \in {"yes", "refused"} : socket' = [socket EXCEPT !.connected = c]
    /\ UNCHANGED <<connecting, wire, told, sending, receiving, received, polled, passing, untold>>

\* connect() asks the kernel, which is done at once, fails, or answers EAGAIN;
\* on a socket that does not block the caller gets EINPROGRESS for that.
Connect ==
    /\ connecting = "idle" /\ socket.connected = "no"
    /\ \E now \in {"yes", "no", "trying"} :
          /\ socket' = [socket EXCEPT !.connected = now, !.joined = now = "yes"]
          /\ \E blocking \in BOOLEAN :
                connecting' = IF now # "trying" THEN "idle"
                              ELSE IF blocking THEN "poll" ELSE "inprogress"
    /\ UNCHANGED <<wire, told, sending, receiving, received, polled, passing, untold>>

\* What the poll of a blocking connect() returns: interrupted (again),
\* an error of its own, an error or the end of the socket, or writable.
ConnectPolls ==
    /\ connecting = "poll"
    /\ \/ UNCHANGED <<connecting, socket>>
       \/ connecting' = "idle" /\ UNCHANGED socket
       \/ socket.connected = "refused" /\ connecting' = "idle" /\ UNCHANGED socket
       \/ socket.connected = "yes" /\ connecting' = "idle" /\ socket' = [socket EXCEPT !.joined = TRUE]
    /\ UNCHANGED <<wire, told, sending, receiving, received, polled, passing, untold>>

\* A program whose connect() is in progress polls for POLLOUT itself.
CallerPolls ==
    /\ connecting = "inprogress" /\ socket.connected # "trying"
    /\ connecting' = "idle"
    /\ socket' = [socket EXCEPT !.joined = socket.connected = "yes"]
    /\ UNCHANGED <<wire, told, sending, receiving, received, polled, passing, untold>>

-----------------------------------------------------------------------------
(* Sending                                                                 *)

\* A stream's kernel SEND: n of the len bytes from byte k are taken, where
\* there is room for them.
KernelSends(k, len, n) ==
    /\ n \in 1 .. len /\ Len(wire) + n <= Buffered
    /\ wire' = wire \o From(k, n)

\* sendmsg() on a stream goes over the pieces. SCM_RIGHTS on a socket that is
\* not of AF_UNIX is refused first (EINVAL, nothing happens).
MsgSend(p) ==
    /\ socket.joined /\ socket.type = "stream" /\ sending = NoMsg
    /\ told + iov_total(p) <= MaxBytes
    /\ sending' = [NoMsg EXCEPT !.pieces = p, !.next = 1]
    /\ UNCHANGED <<socket, connecting, wire, told, receiving, received, polled, passing, untold>>

SendReturns(total) == told' = told + total /\ sending' = NoMsg

\* Mutant: a piece that was taken in part does not end the call.
SendPieceOn ==
    LET p == sending.pieces
        i == sending.next
    IN  /\ i \in 1 .. Len(p)
        /\ \/ /\ p[i] = 0
              /\ sending' = [sending EXCEPT !.next = @ + 1]
              /\ UNCHANGED <<wire, told>>
           \/ \E n \in 1 .. p[i] :
                 /\ KernelSends(told + Before(p, i) + 1, p[i], n)
                 /\ sending' = [sending EXCEPT !.next = @ + 1, !.total = @ + n]
                 /\ UNCHANGED told
        /\ UNCHANGED <<socket, connecting, receiving, received, polled, passing, untold>>

\* One piece: an empty one is skipped, one that is taken in part ends the call.
SendPiece ==
    LET p == sending.pieces
        i == sending.next
    IN  /\ i \in 1 .. Len(p)
        /\ \/ /\ p[i] = 0
              /\ sending' = [sending EXCEPT !.next = @ + 1]
              /\ UNCHANGED <<wire, told>>
           \/ \E n \in 1 .. p[i] :
                 /\ KernelSends(told + Before(p, i) + 1, p[i], n)
                 /\ IF n < p[i] THEN SendReturns(sending.total + n)
                    ELSE /\ sending' = [sending EXCEPT !.next = @ + 1, !.total = @ + n]
                         /\ UNCHANGED told
        /\ UNCHANGED <<socket, connecting, receiving, received, polled, passing, untold>>

\* SEND fails (no room, a signal, the peer is gone): what was sent before it is
\* reported if there is any, the error if there is none.
SendPieceFails ==
    /\ sending.next \in 1 .. Len(sending.pieces)
    /\ SendReturns(sending.total)
    /\ UNCHANGED <<socket, connecting, wire, receiving, received, polled, passing, untold>>

SendDone ==
    /\ sending # NoMsg /\ sending.next = Len(sending.pieces) + 1
    /\ SendReturns(sending.total)
    /\ UNCHANGED <<socket, connecting, wire, receiving, received, polled, passing, untold>>

\* sendto() on a stream is one SEND.
Sendto(len) ==
    /\ socket.joined /\ socket.type # "datagram" /\ sending = NoMsg /\ told + len <= MaxBytes
    /\ \E n \in 1 .. len : KernelSends(told + 1, len, n) /\ told' = told + n
    /\ UNCHANGED <<socket, connecting, sending, receiving, received, polled, passing, untold>>

\* A datagram, by sendto() or gathered by sendmsg(): all of its pieces in one
\* SEND. The network may lose it. The bytes of the datagrams are numbered from
\* multiples of MaxBytes on.
SendDatagram(p) ==
    /\ socket.type = "datagram" /\ iov_total(p) > 0 /\ told < 2 * MaxBytes
    /\ wire' \in {wire} \cup {Append(wire, From(told + 1, iov_total(p)))}
    /\ Len(wire') <= Buffered
    /\ told' = told + MaxBytes
    /\ UNCHANGED <<socket, connecting, sending, receiving, received, polled, passing, untold>>

\* unix_msg_send(): the pieces gathered and handed over with the handles of the
\* fds in one SENDMSG; with an fd that is not open nothing is (EBADF).
UnixMsgSend(p, fds) ==
    /\ socket.joined /\ socket.type = "unix" /\ told + iov_total(p) <= MaxBytes
    /\ \E n \in 1 .. iov_total(p) : KernelSends(told + 1, iov_total(p), n) /\ told' = told + n
    /\ passing' = passing + fds
    /\ UNCHANGED <<socket, connecting, sending, receiving, received, polled, untold>>

-----------------------------------------------------------------------------
(* Receiving                                                               *)

\* The caller's buffers: the bytes received, then what was in them before (0).
Blank(p) == [i \in 1 .. iov_total(p) |-> 0]
PutAt(data, at, bytes) ==
    [i \in DOMAIN data |-> IF i \in at .. at + Len(bytes) - 1 THEN bytes[i - at + 1] ELSE data[i]]

\* A scatter of bytes over pieces fills them one after the other.
PieceOf(p, bytes, i) == SubSeq(bytes, Before(p, i) + 1, Smaller(Before(p, i + 1), Len(bytes)))
Filled(p, bytes) ==
    LET fill[i \in 0 .. Len(p)] == IF i = 0 THEN Blank(p)
                                   ELSE PutAt(fill[i - 1], Before(p, i) + 1, PieceOf(p, bytes, i))
    IN  fill
Scatter(p, bytes) == Filled(p, bytes)[Len(p)]

\* The caller takes the first `total` bytes of its buffers for received.
RecvReturns(total, data) ==
    /\ received' = received \o SubSeq(data, 1, total)
    /\ receiving' = NoMsg

MsgRecv(p) ==
    /\ socket.type = "stream" /\ receiving = NoMsg
    /\ receiving' = [NoMsg EXCEPT !.pieces = p, !.next = 1, !.data = Blank(p)]
    /\ UNCHANGED <<socket, connecting, wire, told, sending, received, polled, passing, untold>>

\* One piece: RECV blocks while there is nothing; a piece that is not filled
\* ends the call.
RecvPiece ==
    LET p == receiving.pieces
        i == receiving.next
    IN  /\ i \in 1 .. Len(p)
        /\ \/ /\ p[i] = 0
              /\ receiving' = [receiving EXCEPT !.next = @ + 1]
              /\ UNCHANGED <<wire, received>>
           \/ \E n \in 1 .. Smaller(p[i], Len(wire)) :
                 /\ wire' = SubSeq(wire, n + 1, Len(wire))
                 /\ \E data \in {PutAt(receiving.data, Before(p, i) + 1, SubSeq(wire, 1, n))} :
                       IF n < p[i] THEN RecvReturns(receiving.total + n, data)
                       ELSE /\ receiving' = [receiving EXCEPT !.next = @ + 1, !.total = @ + n,
                                                              !.data = data]
                            /\ UNCHANGED received
        /\ polled' = FALSE
        /\ UNCHANGED <<socket, connecting, told, sending, passing, untold>>

RecvPieceFails ==
    /\ receiving.next \in 1 .. Len(receiving.pieces)
    /\ RecvReturns(receiving.total, receiving.data)
    /\ UNCHANGED <<socket, connecting, wire, told, sending, polled, passing, untold>>

RecvDone ==
    /\ receiving # NoMsg /\ receiving.next = Len(receiving.pieces) + 1
    /\ RecvReturns(receiving.total, receiving.data)
    /\ UNCHANGED <<socket, connecting, wire, told, sending, polled, passing, untold>>

Recvfrom(len) ==
    /\ socket.type # "datagram" /\ receiving = NoMsg
    /\ \E n \in 1 .. Smaller(len, Len(wire)) :
          /\ RecvReturns(n, SubSeq(wire, 1, n))
          /\ wire' = SubSeq(wire, n + 1, Len(wire))
    /\ polled' = FALSE
    /\ UNCHANGED <<socket, connecting, told, sending, passing, untold>>

\* The first datagram, by recvfrom() or scattered by recvmsg(); what the
\* buffers have no room for is gone.
RecvDatagram(p) ==
    /\ socket.type = "datagram" /\ wire # <<>>
    /\ \E n \in {Smaller(iov_total(p), Len(wire[1]))} :
          received' = SubSeq(Scatter(p, SubSeq(wire[1], 1, n)), 1, n)
    /\ wire' = Tail(wire)
    /\ polled' = FALSE
    /\ UNCHANGED <<socket, connecting, told, sending, receiving, passing, untold>>

\* unix_msg_recv(): bytes and at most `capacity` handles, each of which becomes
\* an fd, or is closed and MSG_CTRUNC set if the table is full; the kernel sets
\* it for those it kept back.
UnixMsgRecv(p, capacity) ==
    /\ socket.type = "unix" /\ iov_total(p) > 0
    /\ \E n \in 1 .. Smaller(iov_total(p), Len(wire)) :
          /\ RecvReturns(n, Scatter(p, SubSeq(wire, 1, n)))
          /\ wire' = SubSeq(wire, n + 1, Len(wire))
    /\ \E registered \in 0 .. Smaller(capacity, passing) :
          \E ctrunc \in {passing > capacity \/ registered < Smaller(capacity, passing)} :
              untold' = (untold \/ (registered < passing /\ ~ctrunc))
    /\ passing' = 0
    /\ polled' = FALSE
    /\ UNCHANGED <<socket, connecting, told, sending>>

-----------------------------------------------------------------------------
(* Waiting for something to read                                           *)

\* poll() of an open socket; a time-out reports nothing.
Poll ==
    /\ polled' \in {FALSE, wire # <<>>}
    /\ UNCHANGED <<socket, connecting, wire, told, sending, receiving, received, passing, untold>>

\* select(): the socket comes after `others` fds of the set, and those past the
\* last slot are neither watched nor refused.
Pselect(others) ==
    /\ polled' \in {FALSE, others < PollSlots /\ wire # <<>>}
    /\ UNCHANGED <<socket, connecting, wire, told, sending, receiving, received, passing, untold>>

-----------------------------------------------------------------------------
SocketsNext ==
    \/ PeerAnswers \/ Connect \/ ConnectPolls \/ CallerPolls
    \/ SendPiece \/ SendPieceFails \/ SendDone
    \/ RecvPiece \/ RecvPieceFails \/ RecvDone
    \/ Poll
    \/ \E others \in {0, PollSlots} : Pselect(others)
    \/ \E p \in Pieces :
          \/ MsgSend(p) \/ SendDatagram(p) \/ MsgRecv(p) \/ RecvDatagram(p)
          \/ \E fds \in 0 .. 2 : UnixMsgSend(p, fds) \/ UnixMsgRecv(p, fds)
    \/ \E len \in 1 .. 2 : Sendto(len) \/ Recvfrom(len)

SocketsSpec == SocketsInit /\ [][SocketsNext]_socketVars

-----------------------------------------------------------------------------
\* sysdeps.cpp:1953: "For streams MsgSend/MsgRecv loop over the iovecs; a
\* datagram must stay one datagram". A stream's receiver has the sender's bytes
\* in order, none lost, repeated or never written, whatever short counts and
\* errors end the calls;
\* a datagram's receiver has the beginning of one datagram; an fd that did not
\* arrive was reported; connect() succeeds on connections only, and poll() and
\* select() report a socket only if there is something to read.
MessagesIntact ==
    /\ socket.type # "datagram" => received = From(1, Len(received))
    /\ socket.type = "datagram" /\ received # <<>> =>
          /\ received[1] % MaxBytes = 1
          /\ received = From(received[1], Len(received))
    /\ ~untold
    /\ socket.joined => socket.connected = "yes"
    /\ polled => wire # <<>>
=============================================================================
