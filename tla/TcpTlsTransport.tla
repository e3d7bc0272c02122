-------------------------- MODULE TcpTlsTransport --------------------------
(***************************************************************************)
(* WireGuard messages over the TCP/TLS connection to a relay               *)
(* (rustlib/src/quicwg.rs: into_wg_send_recv, WgSender, WgReceiver).       *)
(*                                                                         *)
(* A task of its own writes to the stream what two queues of a watch       *)
(* channel hold: packets of the user, and confirmations of the operations  *)
(* read from the stream.  Reading happens in a select!, which may let go of*)
(* the read half way through a message.                                    *)
(***************************************************************************)
EXTENDS Naturals, Sequences

CONSTANTS
  MaxQueued,     \* 1000 packets
  MaxMessages,   \* how many messages the relay sends, a bound
  MaxPackets     \* how many packets the user sends, a bound

ASSUME BoundsAssumption == {MaxQueued, MaxMessages, MaxPackets} \subseteq Nat \ {0}

VARIABLES
  inbound,     \* messages the relay has written and the client not yet read
  sent,        \* the operations among all the relay has written
  half,        \* part of the first inbound message has been read
  receiving,   \* "no", "yes", or the "error" receive_wg_message returned
  received,    \* operations received
  queuedOks,   \* queued_oks
  queue,       \* queued_packets
  signal,      \* the watch channel has a version the task has not seen
  pc,          \* where the task is
  oks,         \* oks_in_progress
  packet,      \* packet_in_progress, a sequence of at most one
  confirmed,   \* confirmations the task has written
  carried,     \* packets the task has written
  accepted,    \* packets put into the queue
  offered      \* number of packets the user has sent

vars == <<inbound, sent, half, receiving, received, queuedOks, queue, signal, pc, oks,
          packet, confirmed, carried, accepted, offered>>

queues == <<queuedOks, queue, signal>>
stream == <<confirmed, carried>>
task == <<pc, oks, packet, stream>>
reader == <<half, receiving, received>>
user == <<accepted, offered>>

Init ==
  /\ inbound = << >> /\ sent = << >> /\ half = FALSE /\ receiving = "no"
  /\ received = << >> /\ queuedOks = << >> /\ queue = << >> /\ signal = FALSE
  /\ pc = "check" /\ oks = << >> /\ packet = << >> /\ confirmed = << >> /\ carried = << >>
  /\ accepted = << >> /\ offered = 0

\* What the relay may send: operations (WireGuard and others), responses, and
\* messages that recv_message skips for their length or an unknown code.
Kinds == {"wg", "op", "ok", "error", "skipped"}
IsOp(kind) == kind \in {"wg", "op"}

-----------------------------------------------------------------------------
(* Environment                                                             *)

RelaySends ==
  /\ Len(sent) + Len(inbound) < MaxMessages
  /\ \E kind \in Kinds :
       LET context == Len(sent) + 1
       IN  /\ inbound' = Append(inbound, [kind |-> kind, context |-> context])
           /\ sent' = IF IsOp(kind) THEN Append(sent, context) ELSE sent
  /\ UNCHANGED <<reader, queues, task, user>>

-----------------------------------------------------------------------------
(* WgSender::send_wg_message                                               *)

\* Operators whose name begins with "Bad" are faulty variants of the operator
\* that follows them; only the sensitivity checks of PROJECT.json use them.

\* The task is not told.
BadNotified(changed) == signal

\* send_modify and send_if_modified make a new version when something changed.
Notified(changed) == signal \/ changed

HasRoom == Len(queue) < MaxQueued

Send ==
  /\ pc # "aborted" /\ offered < MaxPackets
  /\ offered' = offered + 1
  /\ IF HasRoom
     THEN queue' = Append(queue, offered') /\ accepted' = Append(accepted, offered')
     ELSE UNCHANGED <<queue, accepted>>
  /\ signal' = Notified(TRUE)
  /\ UNCHANGED <<inbound, sent, reader, queuedOks, task>>

-----------------------------------------------------------------------------
(* WgReceiver::receive_wg_message                                          *)

Receive ==
  /\ pc # "aborted" /\ receiving = "no"
  /\ receiving' = "yes"
  /\ UNCHANGED <<inbound, sent, half, received, queues, task, user>>

\* What was read is lost with the future.
BadKept == FALSE

\* The stream holds the read that was begun.
Kept == half

\* A timer of the select! is due first.
LetGo ==
  /\ receiving = "yes"
  /\ receiving' = "no"
  /\ half' = Kept
  /\ inbound' = IF half /\ ~Kept THEN Tail(inbound) ELSE inbound
  /\ UNCHANGED <<sent, received, queues, task, user>>

ReadPart ==
  /\ receiving = "yes" /\ inbound # << >> /\ ~half
  /\ half' = TRUE
  /\ UNCHANGED <<inbound, sent, receiving, received, queues, task, user>>

\* What receive_wg_message does after a message of this kind.
After(kind) ==
  CASE kind = "wg" -> "no"
    [] kind \in {"op", "error"} -> "error"
    [] kind \in {"ok", "skipped"} -> "yes"

\* Every operation is confirmed, also one that ends the connection.
Confirms(kind) == IsOp(kind)

ReadRest ==
  /\ receiving = "yes" /\ half
  /\ LET message == Head(inbound)
     IN  /\ receiving' = After(message.kind)
         /\ received' = IF IsOp(message.kind) THEN Append(received, message.context)
                        ELSE received
         /\ queuedOks' = IF Confirms(message.kind) THEN Append(queuedOks, message.context)
                         ELSE queuedOks
         /\ signal' = Notified(Confirms(message.kind))
  /\ inbound' = Tail(inbound)
  /\ half' = FALSE
  /\ UNCHANGED <<sent, queue, task, user>>

\* The stream ends or fails.
ReadFails ==
  /\ receiving = "yes"
  /\ receiving' = "error"
  /\ UNCHANGED <<inbound, sent, half, received, queues, task, user>>

-----------------------------------------------------------------------------
(* The task                                                                *)

\* send_if_modified: confirmations come before packets.
TakeOks ==
  /\ pc = "check" /\ queuedOks # << >>
  /\ oks' = queuedOks
  /\ queuedOks' = oks
  /\ pc' = "oks"
  /\ signal' = Notified(TRUE)
  /\ UNCHANGED <<inbound, sent, reader, queue, packet, stream, user>>

\* The packet stays in the queue.
BadTakePacket ==
  /\ pc = "check" /\ queuedOks = << >> /\ queue # << >>
  /\ packet' = <<Head(queue)>>
  /\ pc' = "packet"
  /\ UNCHANGED <<inbound, sent, reader, queues, oks, stream, user>>

TakePacket ==
  /\ pc = "check" /\ queuedOks = << >> /\ queue # << >>
  /\ packet' = <<Head(queue)>>
  /\ queue' = Tail(queue)
  /\ pc' = "packet"
  /\ signal' = Notified(TRUE)
  /\ UNCHANGED <<inbound, sent, reader, queuedOks, oks, stream, user>>

TakeNothing ==
  /\ pc = "check" /\ queuedOks = << >> /\ queue = << >>
  /\ pc' = "wait"
  /\ UNCHANGED <<inbound, sent, reader, queues, oks, packet, stream, user>>

WritePacket ==
  /\ pc = "packet"
  /\ carried' = carried \o packet
  /\ packet' = << >>
  /\ pc' = "check"
  /\ UNCHANGED <<inbound, sent, reader, queues, oks, confirmed, user>>

WriteOk ==
  /\ pc = "oks"
  /\ confirmed' = Append(confirmed, Head(oks))
  /\ oks' = Tail(oks)
  /\ pc' = IF Len(oks) = 1 THEN "check" ELSE "oks"
  /\ UNCHANGED <<inbound, sent, reader, queues, packet, carried, user>>

\* The task ends; nobody is told.
WriteFails ==
  /\ pc \in {"packet", "oks"}
  /\ pc' = "failed"
  /\ UNCHANGED <<inbound, sent, reader, queues, oks, packet, stream, user>>

\* changed returns at once if a version has not been seen.
Wake ==
  /\ pc = "wait" /\ signal
  /\ signal' = FALSE
  /\ pc' = "check"
  /\ UNCHANGED <<inbound, sent, reader, queuedOks, queue, oks, packet, stream, user>>

\* After an error, or when the tunnel is given up, the connection is dropped and
\* AbortOnDrop ends the task.
Drop ==
  /\ pc # "aborted"
  /\ pc' = "aborted"
  /\ receiving' = "error"
  /\ UNCHANGED <<inbound, sent, half, received, queues, oks, packet, stream, user>>

Dropped == pc = "aborted" /\ UNCHANGED vars

Task == TakeOks \/ TakePacket \/ TakeNothing \/ WritePacket \/ WriteOk \/ Wake

Next ==
  \/ RelaySends \/ Send \/ Receive \/ LetGo \/ ReadPart \/ ReadRest \/ ReadFails
  \/ TakeOks \/ TakePacket \/ TakeNothing \/ WritePacket \/ WriteOk \/ WriteFails \/ Wake
  \/ Drop \/ Dropped

Spec == Init /\ [][Next]_vars

\* The executor runs the task while the relay takes what is written.
FairSpec == Spec /\ WF_vars(Task)

-----------------------------------------------------------------------------
(* Properties                                                              *)

WithOp(contexts, message) ==
  IF IsOp(message.kind) THEN Append(contexts, message.context) ELSE contexts

\* The contexts of the operations in flight.
OpsOf(messages) ==
  LET ops[k \in 0..Len(messages)] ==
        IF k = 0 THEN << >> ELSE WithOp(ops[k - 1], messages[k])
  IN  ops[Len(messages)]

KnownKinds == \A k \in 1..Len(inbound) : inbound[k].kind \in Kinds

\* Every variable has its shape.
TypeOK ==
  /\ KnownKinds
  /\ half \in BOOLEAN /\ (half => inbound # << >>)
  /\ receiving \in {"no", "yes", "error"}
  /\ signal \in BOOLEAN
  /\ pc \in {"check", "packet", "oks", "wait", "failed", "aborted"}
  /\ pc = "packet" => Len(packet) = 1
  /\ pc = "oks" => oks # << >>
  /\ Len(queue) <= MaxQueued /\ offered \in 0..MaxPackets

\* Every operation is received once and in order, however often reading is let
\* go of.
NothingIsMisread == received \o OpsOf(inbound) = sent

\* Every operation received is confirmed once and in order: the confirmations
\* are written, in progress, or queued.
ConfirmedInOrder == confirmed \o oks \o queuedOks = received

\* Every packet that was accepted is written once and in order.
PacketsInOrder == carried \o packet \o queue = accepted

\* What the relay sees is in order.
WrittenInOrder == ConfirmedInOrder /\ PacketsInOrder

\* Nothing stays queued behind a sleeping task, and a relay that pauses gets all
\* confirmations and packets.
EverythingIsWritten ==
  (queuedOks # << >> \/ queue # << >>)
    ~> ((queuedOks = << >> /\ queue = << >>) \/ pc \in {"failed", "aborted"})
=============================================================================
