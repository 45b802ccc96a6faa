-------------------------------- MODULE Link --------------------------------
(***************************************************************************)
(* The accessory's end of the iAP2 link: struct Iap2Link of                *)
(* src/src/link.rs and the discipline its one caller, the connection task  *)
(* of src/src/connection.rs, imposes on it.                                *)
(*                                                                         *)
(* The task runs one link call at a time.  pc says which call it is in and *)
(* at which await it is suspended:                                         *)
(*   new     negotiate not yet called           (LinkState::Idle)          *)
(*   syn     negotiate, reading a SYN-ACK       (LinkState::SynSent)       *)
(*   idle    between calls, or in receive_data suspended at its read       *)
(*   reply   in receive_data, suspended in the write of an ack             *)
(*   answer  an authentication challenge was just returned to the caller   *)
(*   send    in send_data, reading                                         *)
(*   resend  in send_data_retransmit_until_ack_or_payload, reading         *)
(*   down    the task has left run_connection with an error                *)
(*   panic   the task was unwound by an arithmetic overflow                *)
(* The LinkState is Established in the other six.  Suspended at its read,  *)
(* receive_data has changed nothing, so "idle" covers both cases, and      *)
(* dropping the future there is not a step.                                *)
(*                                                                         *)
(* A payload is a number: the device's messages are numbered from 1 in the *)
(* order it sends them, and so are the payloads this end sends.  0 is the  *)
(* empty payload.  A write puts a packet in flight; only after the peer    *)
(* has closed can it fail, or succeed and reach nobody.                    *)
(***************************************************************************)
EXTENDS SeqNum, Sequences

CONSTANTS
  InitialSeq,      \* LinkConfig::initial_seq
  MaxRetries,      \* LinkConfig::max_retries
  MaxSends,        \* the max_sends of a retransmitting send
  MaxSend,         \* bound: data payloads the accessory sends
  OverflowPanics,  \* TRUE in a build with overflow checks
  Challenges       \* device messages that are authentication challenges

ASSUME LinkAssumption ==
  /\ InitialSeq \in Seqs
  /\ MaxRetries \in Nat /\ MaxSends \in Nat \ {0} /\ MaxSend \in Nat
  /\ OverflowPanics \in BOOLEAN
  /\ Challenges \subseteq Nat \ {0}

VARIABLES
  seq, ack,        \* Iap2Link::seq, Iap2Link::ack
  pending,         \* Iap2Link::pending: received while sending
  rxBuffer,        \* Iap2Link::rx_buffer: received ahead of order
  pc,              \* where the connection task stands, see above
  tries,           \* SYN retries, or transmissions of a retransmitting send
  out,             \* the packet being written ("reply") or waited for
  held,            \* the packet receive_data returns once out is written
  outcome,         \* how the last send returned
  delivered,       \* payloads receive_data has returned, oldest first
  nSent,           \* data payloads handed to a send so far
  toAcc, toDev,    \* packets in flight, towards either end
  closed           \* the peer has closed the stream

link == <<seq, ack, pending, rxBuffer>>
call == <<pc, tries, out, held, outcome>>
history == <<delivered, nSent>>
net == <<toAcc, toDev, closed>>
linkVars == <<link, call, history, net>>

(* What Iap2Packet::detect, syn, ack and data build.  A data packet has    *)
(* type Ack as well.                                                       *)
Detect == [kind |-> "Detect", seq |-> 0, ack |-> 0, pay |-> 0]
Syn(s) == [kind |-> "Syn", seq |-> s, ack |-> 0, pay |-> 0]
Ack(s, a) == [kind |-> "Ack", seq |-> s, ack |-> a, pay |-> 0]
Data(s, a, m) == [kind |-> "Ack", seq |-> s, ack |-> a, pay |-> m]

(* The shape of a packet from the device.  eak is what the payload of an   *)
(* EAK reports; n is a history field, the number of messages the device    *)
(* had sent, this one included.                                            *)
DevPacket(k, s, a, m, e, i) ==
  [kind |-> k, seq |-> s, ack |-> a, pay |-> m, eak |-> e, n |-> i]

NoPacket == DevPacket("None", 0, 0, 0, 0, 0)

-----------------------------------------------------------------------------
(* Writing and reading packets                                             *)

(* The results write_packet may have. *)
Written == IF closed THEN BOOLEAN ELSE {TRUE}

Put(q, p) == IF closed THEN q ELSE Append(q, p)

(* The packet read_packet returns, if one has arrived. *)
Incoming == IF toAcc = <<>> THEN {} ELSE {Head(toAcc)}

Take == toAcc' = Tail(toAcc)

(* read_packet returns ConnectionClosed: the stream is at its end. *)
AtEnd == closed /\ toAcc = <<>>

-----------------------------------------------------------------------------
(* negotiate                                                               *)

(* Iap2Link::new: seq is 0x10 until the first SYN. *)
LinkInit ==
  /\ seq = 16 % M /\ ack = 0 /\ pending = <<>> /\ rxBuffer = {}
  /\ pc = "new" /\ tries = 0 /\ out = Detect /\ held = NoPacket
  /\ outcome = "none"
  /\ delivered = <<>> /\ nSent = 0
  /\ toAcc = <<>> /\ toDev = <<>> /\ closed = FALSE

(* The iAP1 probe, whose read swallows what the device said unasked (its   *)
(* result, an error included, is ignored), then DETECT and the first SYN.  *)
NegotiateStart ==
  /\ pc = "new"
  /\ toAcc' \in {toAcc} \cup (IF toAcc = <<>> THEN {} ELSE {Tail(toAcc)})
  /\ seq' = InitialSeq
  /\ \E ok \in Written :
       /\ toDev' = Put(Put(toDev, Detect), Syn(InitialSeq))
       /\ pc' = IF ok THEN "syn" ELSE "down"
  /\ UNCHANGED <<ack, pending, rxBuffer, tries, out, held, outcome, history,
                 closed>>

(* Any failure of wait_for_syn_ack counts as one attempt. *)
RetrySyn ==
  /\ tries' = tries + 1
  /\ IF tries >= MaxRetries
     THEN pc' = "down" /\ UNCHANGED toDev
     ELSE \E ok \in Written :
            /\ toDev' = Put(toDev, Syn(seq))
            /\ pc' = IF ok THEN "syn" ELSE "down"
  /\ UNCHANGED <<link, out, held, outcome, history, closed>>

IsSynAck(p) == p.kind = "SynAck" /\ p.ack = seq

SynAckOk ==
  /\ pc = "syn"
  /\ \E p \in Incoming :
       /\ Take
       /\ IsSynAck(p)
       /\ ack' = p.seq
       /\ seq' = Succ(seq)
       /\ \E ok \in Written :
            /\ toDev' = Put(toDev, Ack(seq', p.seq))
            /\ pc' = IF ok THEN "idle" ELSE "down"
  /\ UNCHANGED <<pending, rxBuffer, tries, out, held, outcome, history, closed>>

SynAckBad ==
  /\ pc = "syn"
  /\ \E p \in Incoming : Take /\ ~ IsSynAck(p)
  /\ RetrySyn

(* Mutant: the end of the stream is not an error. *)
SynTimeoutOpen == pc = "syn" /\ ~ AtEnd /\ RetrySyn /\ UNCHANGED toAcc

(* The read timed out, or the stream ended. *)
SynTimeout ==
  /\ pc = "syn"
  /\ RetrySyn
  /\ UNCHANGED toAcc

-----------------------------------------------------------------------------
(* receive_data                                                            *)

(* The packet goes back to the caller. *)
Deliver(p) ==
  /\ delivered' = Append(delivered, p.pay)
  /\ pc' = IF p.pay \in Challenges THEN "answer" ELSE "idle"

(* self.ack becomes a, the ack of it is being written, then p is returned  *)
(* (NoPacket: receive_data goes on reading).                               *)
Reply(a, p) ==
  /\ ack' = a
  /\ out' = Ack(seq, a)
  /\ held' = p
  /\ pc' = "reply"

(* A packet taken from the pending queue was acked when it was queued. *)
RecvPending ==
  /\ pc = "idle"
  /\ pending # <<>>
  /\ pending' = Tail(pending)
  /\ Deliver(Head(pending))
  /\ UNCHANGED <<seq, ack, rxBuffer, tries, out, held, outcome, nSent, net>>

(* Mutant: the first packet of the map, whatever its number. *)
BufferedAny == rxBuffer

Buffered == {q \in rxBuffer : q.seq = Succ(ack)}

RecvBuffered ==
  /\ pc = "idle" /\ pending = <<>>
  /\ \E q \in Buffered : Reply(q.seq, q) /\ rxBuffer' = rxBuffer \ {q}
  /\ UNCHANGED <<seq, pending, tries, outcome, history, net>>

(* receive_data gets to its read. *)
Receiving == pc = "idle" /\ pending = <<>> /\ Buffered = {}

HasMessage(p) == p.kind \in {"Ack", "Data"} /\ p.pay # 0

(* Mutant: any message is taken as the next one. *)
IsExpectedAny(p) == TRUE

(* Mutant: a packet of type Ack is expected only with the next number. *)
IsExpectedStrict(p) == p.seq = Succ(ack)

(* Mutant: ack + 1 does not wrap. *)
IsExpectedPlain(p) == p.seq = ack + 1

(* An Ack packet may also carry the number that was acked last. *)
IsExpected(p) ==
  p.seq = Succ(ack) \/ (p.kind = "Ack" /\ p.seq = ack)

RecvInOrder ==
  /\ Receiving
  /\ \E p \in Incoming :
       /\ Take
       /\ HasMessage(p) /\ IsExpected(p)
       /\ Reply(p.seq, p)
  /\ UNCHANGED <<seq, pending, rxBuffer, tries, outcome, history, toDev, closed>>

(* Ahead of order: into rx_buffer, and only a Data packet is answered. *)
RecvAhead ==
  /\ Receiving
  /\ \E p \in Incoming :
       /\ Take
       /\ HasMessage(p) /\ ~ IsExpected(p) /\ IsAfter(p.seq, Succ(ack))
       /\ rxBuffer' = {q \in rxBuffer : q.seq # p.seq} \cup {p}
       /\ IF p.kind = "Data" THEN Reply(ack, NoPacket)
                             ELSE UNCHANGED <<ack, out, held, pc>>
  /\ UNCHANGED <<seq, pending, tries, outcome, history, toDev, closed>>

(* A duplicate is dropped, and only a Data packet is acked again. *)
RecvOld ==
  /\ Receiving
  /\ \E p \in Incoming :
       /\ Take
       /\ HasMessage(p) /\ ~ IsExpected(p) /\ ~ IsAfter(p.seq, Succ(ack))
       /\ IF p.kind = "Data" THEN Reply(ack, NoPacket)
                             ELSE UNCHANGED <<ack, out, held, pc>>
  /\ UNCHANGED <<seq, pending, rxBuffer, tries, outcome, history, toDev, closed>>

RecvIgnore ==
  /\ Receiving
  /\ \E p \in Incoming : Take /\ ~ HasMessage(p)
  /\ UNCHANGED <<link, call, history, toDev, closed>>

(* ConnectionClosed from receive_data ends the connection task. *)
RecvClosed ==
  /\ Receiving /\ AtEnd
  /\ pc' = "down"
  /\ UNCHANGED <<link, tries, out, held, outcome, history, net>>

(* The ack is written and receive_data returns or goes on; a failed write  *)
(* ends the connection task.                                               *)
ReplyWrite ==
  /\ pc = "reply"
  /\ \E ok \in Written :
       /\ toDev' = Put(toDev, out)
       /\ \/ ok /\ held # NoPacket /\ Deliver(held)
          \/ ok /\ held = NoPacket /\ pc' = "idle" /\ UNCHANGED delivered
          \/ ~ ok /\ pc' = "down" /\ UNCHANGED delivered
  /\ out' = Detect /\ held' = NoPacket
  /\ UNCHANGED <<link, tries, outcome, nSent, toAcc, closed>>

(* The select! of the connection task runs another branch and drops the    *)
(* receive_data future while its write is pending.  That is after          *)
(* authentication, so something was delivered.                             *)
CancelReply ==
  /\ pc = "reply" /\ delivered # <<>>
  /\ pc' = "idle" /\ out' = Detect /\ held' = NoPacket
  /\ UNCHANGED <<link, tries, outcome, history, net>>

-----------------------------------------------------------------------------
(* send_data                                                               *)

(* Mutant: sends may start as soon as the link is up. *)
MaySendAtOnce == pc = "idle"

(* The connection task sends only after a first message has arrived. *)
MaySend == pc = "idle" /\ delivered # <<>>

(* A write that fails leaves seq alone. *)
SendStart ==
  /\ MaySend /\ nSent < MaxSend
  /\ nSent' = nSent + 1
  /\ \E ok \in Written :
       /\ toDev' = Put(toDev, Data(seq, ack, nSent'))
       /\ \/ /\ ok
             /\ seq' = Succ(seq)
             /\ out' = Data(seq, ack, nSent')
             /\ pc' = "send" /\ outcome' = "none"
          \/ /\ ~ ok
             /\ pc' \in {"idle", "down"} /\ outcome' = "Io"
             /\ UNCHANGED <<seq, out>>
  /\ UNCHANGED <<ack, pending, rxBuffer, tries, held, delivered, toAcc, closed>>

(* The error goes to the log (EA data, HID, app launch) or ends the task.  *)
SendFails(why) ==
  /\ outcome' = why
  /\ pc' \in {"idle", "down"}

(* Mutant: a bare ack of anything counts. *)
AcksOutAny(p) == TRUE

(* Peers ack either the last number received or the next one expected. *)
AcksOut(p) == p.ack \in {out.seq, Succ(out.seq)}

(* Mutant: the newest message goes first. *)
QueueFront(p) == pending' = <<p>> \o pending

(* Mutant: the packet is acked and forgotten. *)
QueueNone(p) == pending' = pending

(* pending.push_back, unless its number is queued already. *)
Queue(p) ==
  pending' = IF \E i \in DOMAIN pending : pending[i].seq = p.seq
             THEN pending ELSE Append(pending, p)

SendAck ==
  /\ pc = "send"
  /\ \E p \in Incoming :
       /\ Take
       /\ p.kind = "Ack"
       /\ ack' = p.seq
       /\ IF p.pay = 0 THEN UNCHANGED pending ELSE Queue(p)
       /\ \E ok \in IF p.pay = 0 THEN {TRUE} ELSE Written :
            /\ toDev' = IF p.pay = 0 THEN toDev ELSE Put(toDev, Ack(seq, p.seq))
            /\ \/ ok /\ AcksOut(p) /\ pc' = "idle" /\ outcome' = "ok"
               \/ ok /\ ~ AcksOut(p) /\ UNCHANGED <<pc, outcome>>
               \/ ~ ok /\ SendFails("Io")
  /\ UNCHANGED <<seq, rxBuffer, tries, out, held, history, closed>>

(* self.seq - 1 or next_seq's self.seq + 1 overflows. *)
EakOverflows(p) == (p.eak = seq /\ seq = 0) \/ seq = M - 1

(* in_order_ack < self.seq - 1: a comparison of bytes after a subtraction   *)
(* that, unchecked, wraps.                                                  *)
ReportsGap(p) == p.eak = seq /\ p.ack < (seq - 1) % M

(* What is sent again for the missing number: an ack, with no payload. *)
Retransmitted(p) == Ack(p.ack + 1, p.seq)

(* Then a fresh number is spent on acking the EAK.  Either write may fail. *)
SendEak ==
  /\ pc = "send"
  /\ \E p \in Incoming :
       /\ Take
       /\ p.kind = "Eak"
       /\ LET gap == IF ReportsGap(p) THEN Put(toDev, Retransmitted(p))
                                      ELSE toDev
          IN  \/ /\ OverflowPanics /\ EakOverflows(p)
                 /\ toDev' = IF seq = 0 THEN toDev ELSE gap
                 /\ pc' = "panic"
                 /\ UNCHANGED <<seq, ack, outcome>>
              \/ /\ ~ (OverflowPanics /\ EakOverflows(p))
                 /\ ack' = p.seq /\ seq' = Succ(seq)
                 /\ toDev' = Put(gap, Ack(seq', p.seq))
                 /\ \E ok \in Written :
                      IF ok THEN UNCHANGED <<pc, outcome>> ELSE SendFails("Io")
              \/ /\ ReportsGap(p) /\ FALSE \in Written
                 /\ ~ (OverflowPanics /\ seq = 0)
                 /\ SendFails("Io")
                 /\ UNCHANGED <<seq, ack, toDev>>
  /\ UNCHANGED <<pending, rxBuffer, tries, out, held, history, closed>>

SendUnexpected ==
  /\ pc = "send"
  /\ \E p \in Incoming : Take /\ p.kind \notin {"Ack", "Eak"}
  /\ SendFails("Protocol")
  /\ UNCHANGED <<link, tries, out, held, history, toDev, closed>>

(* The timer restarts with every packet read. *)
SendTimeout ==
  /\ pc = "send"
  /\ SendFails("Timeout")
  /\ UNCHANGED <<link, tries, out, held, history, net>>

SendClosed ==
  /\ pc = "send" /\ AtEnd
  /\ SendFails("Io")
  /\ UNCHANGED <<link, tries, out, held, history, net>>

-----------------------------------------------------------------------------
(* send_data_retransmit_until_ack_or_payload: the answer to a challenge.   *)
(* Its errors end the connection task.                                     *)

ResendStart ==
  /\ pc = "answer" /\ nSent < MaxSend
  /\ nSent' = nSent + 1
  /\ out' = Data(seq, ack, nSent')
  /\ outcome' = "none"
  /\ \E ok \in Written :
       /\ toDev' = Put(toDev, out')
       /\ \/ ok /\ seq' = Succ(seq) /\ tries' = 1 /\ pc' = "resend"
          \/ ~ ok /\ pc' = "down" /\ UNCHANGED <<seq, tries>>
  /\ UNCHANGED <<ack, pending, rxBuffer, held, delivered, toAcc, closed>>

(* A challenge that is not answered: after authentication has succeeded    *)
(* the connection task ignores it.                                         *)
AnswerSkipped ==
  /\ pc = "answer"
  /\ pc' = "idle"
  /\ UNCHANGED <<link, tries, out, held, outcome, history, net>>

(* A payload ends the send, as a sign that the device has moved on, unless *)
(* it is a challenge, which is taken for a repetition, acked and dropped.  *)
ResendMessage ==
  /\ pc = "resend"
  /\ \E p \in Incoming :
       /\ Take
       /\ HasMessage(p)
       /\ ack' = p.seq
       /\ IF p.pay \in Challenges THEN UNCHANGED pending ELSE Queue(p)
       /\ \E ok \in Written :
            /\ toDev' = Put(toDev, Ack(seq, p.seq))
            /\ \/ ok /\ p.pay \in Challenges /\ UNCHANGED <<pc, outcome>>
               \/ ok /\ p.pay \notin Challenges /\ pc' = "idle" /\ outcome' = "ok"
               \/ ~ ok /\ pc' = "down" /\ outcome' = "Io"
  /\ UNCHANGED <<seq, rxBuffer, tries, out, held, history, closed>>

ResendAck ==
  /\ pc = "resend"
  /\ \E p \in Incoming :
       /\ Take
       /\ p.kind = "Ack" /\ p.pay = 0
       /\ ack' = p.seq
       /\ \/ AcksOut(p) /\ pc' = "idle" /\ outcome' = "ok"
          \/ ~ AcksOut(p) /\ UNCHANGED <<pc, outcome>>
  /\ UNCHANGED <<seq, pending, rxBuffer, tries, out, held, history, toDev, closed>>

(* An EAK only moves self.ack; any other type is ignored. *)
ResendOther ==
  /\ pc = "resend"
  /\ \E p \in Incoming :
       /\ Take
       /\ ~ HasMessage(p) /\ p.kind # "Ack"
       /\ ack' = IF p.kind = "Eak" THEN p.seq ELSE ack
  /\ UNCHANGED <<seq, pending, rxBuffer, call, history, toDev, closed>>

(* Mutant: what is sent again takes a new number. *)
ResentRenumbered == Data(seq, out.ack, out.pay)

(* The packet is sent again as it was, with the ack it was built with. *)
Resent == out

ResendTimeout ==
  /\ pc = "resend"
  /\ \/ /\ tries >= MaxSends
        /\ pc' = "down" /\ outcome' = "Timeout"
        /\ UNCHANGED <<tries, toDev>>
     \/ /\ tries < MaxSends
        /\ tries' = tries + 1
        /\ \E ok \in Written :
             /\ toDev' = Put(toDev, Resent)
             /\ \/ ok /\ UNCHANGED <<pc, outcome>>
                \/ ~ ok /\ pc' = "down" /\ outcome' = "Io"
  /\ UNCHANGED <<link, out, held, history, toAcc, closed>>

(* The stream ended, or the challenge timer of the caller dropped the call. *)
ResendAborted ==
  /\ pc = "resend"
  /\ pc' = "down"
  /\ outcome' \in {"Timeout"} \cup (IF AtEnd THEN {"Io"} ELSE {})
  /\ UNCHANGED <<link, tries, out, held, history, net>>

-----------------------------------------------------------------------------
Negotiate == NegotiateStart \/ SynAckOk \/ SynAckBad \/ SynTimeout

ReceiveData ==
  \/ RecvPending \/ RecvBuffered \/ RecvInOrder \/ RecvAhead \/ RecvOld
  \/ RecvIgnore \/ RecvClosed \/ ReplyWrite

SendData ==
  \/ SendStart \/ SendAck \/ SendEak \/ SendUnexpected \/ SendTimeout
  \/ SendClosed

ResendData ==
  \/ ResendStart \/ AnswerSkipped \/ ResendMessage \/ ResendAck \/ ResendOther
  \/ ResendTimeout \/ ResendAborted
=============================================================================
