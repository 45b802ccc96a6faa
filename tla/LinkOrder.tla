----------------------------- MODULE LinkOrder ------------------------------
(***************************************************************************)
(* The inductive invariant behind the order of delivery on a reliable      *)
(* stream, for devices that put their messages in Ack packets.  Messages   *)
(* are counted as they leave the stream: Got of them have, and the packets *)
(* in flight carry on from there.                                          *)
(***************************************************************************)
EXTENDS LinkSystem

(* One packet carries one message or none. *)
Payload(p) == IF p.pay = 0 THEN 0 ELSE 1

(* Messages read from the stream: returned, queued, or about to be returned. *)
Got == Len(delivered) + Len(pending) + Payload(held)

(* Packets q count on from g to n without a gap. *)
Chain(q, g, n) ==
  /\ \A i \in 1 .. Len(q) :
       q[i].n = (IF i = 1 THEN g ELSE q[i - 1].n) + Payload(q[i])
  /\ n = IF q = <<>> THEN g ELSE q[Len(q)].n

(* The packets in flight count on from what was read to what was sent. *)
InFlightInOrder == Chain(toAcc, Got, dSent)

(* A packet carries the number its count stands for. *)
Numbered(p) ==
  /\ p.pay # 0 => p.kind = "Ack" /\ p.pay = p.n /\ p.seq = SeqOf(p.n)
  /\ p.pay = 0 /\ p.kind \in {"Ack", "Eak"} => p.seq = SeqOf(p.n + conv.seqLead)
  /\ p.kind = "SynAck" => p.seq = SeqOf(0) /\ p.pay = 0

AllNumbered == \A i \in 1 .. Len(toAcc) : Numbered(toAcc[i])

(* The queue holds the messages that follow those returned. *)
PendingInOrder ==
  \A i \in 1 .. Len(pending) :
    /\ pending[i].pay = Len(delivered) + i
    /\ pending[i].seq = SeqOf(Len(delivered) + i)

HeldIsNext ==
  /\ held # NoPacket => held.pay # 0
  /\ held.pay # 0 => /\ pc = "reply" /\ pending = <<>>
                     /\ held.pay = Len(delivered) + 1

(* self.ack is the number of the last message read or, from a bare packet  *)
(* that announces it, of the next one.                                     *)
AckIsCurrent ==
  pc \notin {"new", "syn"} => ack \in {SeqOf(Got), SeqOf(Got + conv.seqLead)}

(* Nothing is read as a message before the link is established.            *)
BeforeEstablished ==
  pc \in {"new", "syn"} =>
    /\ Got = 0 /\ dState # "up"
    /\ \A i \in 1 .. Len(toDev) : toDev[i].kind # "Ack"

DeviceQuiet ==
  dState # "up" => dSent = 0 /\ \A i \in 1 .. Len(toAcc) : toAcc[i].pay = 0

(* Being at the answer of a challenge, the link has returned one. *)
ChallengeReturned ==
  pc \in {"answer", "resend"} => \E c \in Challenges : c <= Len(delivered)

(* While the connection task runs. *)
RunningInv ==
  /\ rxBuffer = {}
  /\ InFlightInOrder /\ PendingInOrder /\ HeldIsNext /\ AckIsCurrent
  /\ BeforeEstablished /\ ChallengeReturned

Inv ==
  /\ InOrder
  /\ DeviceQuiet /\ AllNumbered
  /\ Running => RunningInv

(* Fewer packets are queued than there are numbers, so that the queue's    *)
(* test for duplicates does not take a new message for a queued one.       *)
SmallBacklog == Len(pending) < M

(* The devices, and the challenges, the order of delivery is proved for.   *)
OrderedDevice ==
  /\ \A c \in Convs : c.kind = "Ack"
  /\ \A c, d \in Challenges : c = d
=============================================================================
