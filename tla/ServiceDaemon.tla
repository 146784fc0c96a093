---------------------------- MODULE ServiceDaemon ----------------------------
(***************************************************************************)
(* The services behind a message queue. Four loops do it:                  *)
(*   daemon   service-common/include/service_daemon.hpp                    *)
(*   font     font-manager/src/main.cpp                                    *)
(*   manager  process-manager, storage-manager, network-manager            *)
(*   input    input-manager, whose queue is the kernel's event queue       *)
(* A behaviour is one of a single service of some kind and its clients,    *)
(* each of which sends one request, waits for the answer, and may die.     *)
(***************************************************************************)
EXTENDS Integers, Sequences, SequencesExt

CONSTANTS Clients

VARIABLES
    kind,       \* which of the loops
    font,       \* whether load_font() succeeded
    service,    \* [pc, message, status]
    queue,      \* messages to the service
    client,     \* [state, message, status] of each
    fault       \* the service met a failed call or a payload it cannot decode

serviceVars == <<kind, font, service, queue, client, fault>>

ServiceKinds == {"daemon", "font", "manager", "input"}
Opcodes == {"Hello", "FontInfo", "GlyphMetrics", "GlyphRow", "unknown"}

\* What clients send to this kind. size: the whole request, less than its opcode needs, or less than a header.
\* row: whether the glyph has that row, and fits the reply.
Requests ==
    {m \in [op : Opcodes, version : BOOLEAN, size : {"whole", "short", "tiny"}, row : BOOLEAN] :
        /\ m.size # "whole" => m.version /\ m.row
        /\ m.size = "tiny" => m.op = "unknown"
        /\ m.op # "GlyphRow" => m.row
        /\ kind # "font" => m.op \in {"Hello", "unknown"}}

NoMessage == [op |-> "unknown", version |-> FALSE, size |-> "tiny", row |-> FALSE]
Notice    == [from |-> "none", request |-> FALSE, body |-> NoMessage]

ServiceInit ==
    /\ kind \in ServiceKinds
    /\ font \in BOOLEAN
    /\ (kind # "font" => font)
    /\ service = [pc |-> "start", message |-> Notice, status |-> "none"]
    /\ queue = <<>>
    /\ client = [c \in Clients |-> [state |-> "idle", message |-> NoMessage, status |-> "none"]]
    /\ fault = FALSE

-----------------------------------------------------------------------------
(* The clients *)

ClientStep == UNCHANGED <<kind, font, service, fault>>

\* service_connect() finds a service once it is registered.
SendRequest(c, body) ==
    /\ service.pc \notin {"start", "ended"}
    /\ client[c].state = "idle"
    /\ client' = [client EXCEPT ![c] = [state |-> "waiting", message |-> body, status |-> "none"]]
    /\ queue' = Append(queue, [from |-> c, request |-> TRUE, body |-> body])
    /\ ClientStep

\* A message that wants no answer.
SendNotice ==
    /\ service.pc \notin {"start", "ended"}
    /\ Notice \notin ToSet(queue)
    /\ queue' = Append(queue, Notice)
    /\ UNCHANGED client
    /\ ClientStep

ClientDies(c) ==
    /\ client[c].state = "waiting"
    /\ client' = [client EXCEPT ![c].state = "dead"]
    /\ UNCHANGED queue
    /\ ClientStep

-----------------------------------------------------------------------------
(* The loops *)

Service(next) ==
    /\ service' = next
    /\ UNCHANGED <<kind, font>>

To(pc)  == [service EXCEPT !.pc = pc, !.message = Notice, !.status = "none"]

\* queue_create() and service_register(), either of which may fail.
Register ==
    /\ service.pc = "start"
    /\ \/ Service(To("receive")) /\ UNCHANGED fault
       \/ Service(To("ended")) /\ fault' = TRUE
    /\ UNCHANGED <<queue, client>>

Receive ==
    /\ service.pc = "receive" /\ queue # <<>>
    /\ Service([service EXCEPT !.pc = "handle", !.message = Head(queue)])
    /\ queue' = Tail(queue)
    /\ UNCHANGED <<client, fault>>

\* queue_receive() fails: two of the loops end, the others go on.
ReceiveFails ==
    /\ service.pc = "receive" /\ kind \in {"daemon", "font"}
    /\ Service(To("ended"))
    /\ fault' = TRUE
    /\ UNCHANGED <<queue, client>>

\* The version is looked at before the opcode.
validate_header(m, op) ==
    IF ~m.version THEN "BAD_VERSION" ELSE IF m.op # op THEN "BAD_OPCODE" ELSE "OK"

\* The font manager answers Hello also without a font ...
build_hello_reply(m) == validate_header(m, "Hello")

\* ... what is asked of the font itself only with one. Heights are clamped, so
\* none is refused.
WithFont(m, op) ==
    IF validate_header(m, op) = "OK" /\ ~font THEN "BAD_PAYLOAD" ELSE validate_header(m, op)

build_font_info_reply(m)     == WithFont(m, "FontInfo")

build_glyph_metrics_reply(m) == WithFont(m, "GlyphMetrics")

\* A row the glyph does not have, or one wider than the reply.
build_glyph_row_reply(m) ==
    IF WithFont(m, "GlyphRow") = "OK" /\ ~m.row THEN "BAD_PAYLOAD" ELSE WithFont(m, "GlyphRow")

\* main() chooses by the opcode, before the version is looked at.
FontStatus(m) ==
    CASE m.op = "Hello"        -> build_hello_reply(m)
      [] m.op = "FontInfo"     -> build_font_info_reply(m)
      [] m.op = "GlyphMetrics" -> build_glyph_metrics_reply(m)
      [] m.op = "GlyphRow"     -> build_glyph_row_reply(m)
      [] m.op = "unknown"      -> "BAD_OPCODE"

ReplyStatus(m) ==
    CASE kind = "daemon"  -> validate_header(m, "Hello")
      [] kind = "font"    -> FontStatus(m)
      [] kind = "manager" -> "OK"

\* Only a request is answered; input-manager's messages are for the kernel's
\* event queue, and the font manager drops what has no header.
Answers(message) ==
    /\ message.request
    /\ kind # "input"
    /\ kind = "font" => message.body.size # "tiny"

\* decode_message() refuses what is too short for the request.
Decodes(m) == kind = "manager" \/ m.size = "whole" \/ (kind = "font" /\ m.op = "unknown")

\* Mutant: after a message that wants no answer the loop ends.
EndsOnNotice ==
    /\ service.pc = "handle" /\ ~Answers(service.message)
    /\ Service(To("ended"))
    /\ UNCHANGED <<queue, client, fault>>

Ignore ==
    /\ service.pc = "handle" /\ ~Answers(service.message)
    /\ Service(To("receive"))
    /\ UNCHANGED <<queue, client, fault>>

\* build_..._reply(): a payload that cannot be decoded ends the service.
BuildReply ==
    /\ service.pc = "handle" /\ Answers(service.message)
    /\ IF Decodes(service.message.body)
       THEN /\ Service([service EXCEPT !.pc = "reply", !.status = ReplyStatus(service.message.body)])
            /\ UNCHANGED fault
       ELSE /\ Service(To("ended"))
            /\ fault' = TRUE
    /\ UNCHANGED <<queue, client>>

\* queue_reply() reaches a client that still waits.
QueueReply ==
    /\ service.pc = "reply"
    /\ \E c \in {service.message.from} :
          /\ client[c].state = "waiting"
          /\ client' = [client EXCEPT ![c].state = "answered", ![c].status = service.status]
    /\ Service(To("receive"))
    /\ UNCHANGED <<queue, fault>>

\* It fails, as it may when the client is gone: two of the loops end.
ReplyFails ==
    /\ service.pc = "reply"
    /\ client[service.message.from].state = "dead"
    /\ Service(To(IF kind = "manager" THEN "receive" ELSE "ended"))
    /\ fault' = TRUE
    /\ UNCHANGED <<queue, client>>

ServiceLoop == Register \/ Receive \/ Ignore \/ BuildReply \/ QueueReply \/ ReplyFails

-----------------------------------------------------------------------------
ServiceNext ==
    \/ ServiceLoop \/ ReceiveFails
    \/ \E c \in Clients : ClientDies(c) \/ \E m \in Requests : SendRequest(c, m)
    \/ SendNotice

\* The service's process is scheduled.
ServiceFairness == WF_serviceVars(ServiceLoop)

-----------------------------------------------------------------------------
\* The loops of service_daemon.hpp:71 and font-manager/src/main.cpp:378: a
\* request is answered, as that request and no other deserves, in whatever order
\* clients send, die and send what cannot be decoded, unless the service ended
\* over a fault; the managers' loops go on whatever happens.
EventuallyAnswered ==
    \A c \in Clients :
        (client[c].state = "waiting" /\ Answers([request |-> TRUE, body |-> client[c].message])) ~>
            \/ client[c].state = "dead"
            \/ client[c].state = "answered" /\ client[c].status = ReplyStatus(client[c].message)
            \/ service.pc = "ended" /\ fault /\ kind # "manager"
=============================================================================
