----------------------------- MODULE LinkSystem -----------------------------
(***************************************************************************)
(* The accessory's link (module Link) and an iAP2 device at the other end  *)
(* of the stream.  The device is not in the repository: it is an honest    *)
(* peer of the kind src/src/link.rs and src/tests/link_tests.rs expect.    *)
(* What they leave open is chosen once, in the initial state:              *)
(*   kind     device messages travel in packets of type Ack or of type     *)
(*            Data; link.rs handles both                                   *)
(*   seqLead  a bare packet carries the number of the device's last        *)
(*            message (0) or that of its next one, as link.rs itself       *)
(*            does (1)                                                     *)
(*   ackLead  the device acks the number it received last (0) or the one   *)
(*            it expects next (1); link.rs accepts both                    *)
(*                                                                         *)
(* The stream is reliable and ordered in Spec, as the README's RFCOMM is.  *)
(* FaultySpec adds what sequence numbers, acks and EAKs are there for:     *)
(* packets lost either way and messages the device sends again.            *)
(* CancelSpec adds the connection task dropping receive_data in a write.   *)
(***************************************************************************)
EXTENDS Link

CONSTANTS
  DevInit,    \* the sequence number of the device's SYN-ACK
  Convs,      \* the conventions considered
  MaxData,    \* bound: messages the device sends
  Window,     \* bound: device messages not yet acked
  MaxFlight,  \* bound: packets in flight to the accessory
  MaxStray,   \* bound: unasked or echoed DETECTs
  MaxFaults   \* bound: packets lost

Conventions == [kind : {"Ack", "Data"}, seqLead : {0, 1}, ackLead : {0, 1}]

ASSUME LinkSystemAssumption ==
  /\ DevInit \in Seqs
  /\ Convs \subseteq Conventions
  /\ {MaxData, MaxFlight, MaxStray, MaxFaults} \subseteq Nat
  /\ Window \in 1 .. M \div 2 - 1

VARIABLES
  conv,     \* the device's conventions
  dState,   \* "listen", "synced" (SYN-ACK sent) or "up"
  dLast,    \* number of the last accessory packet received in order
  dSent,    \* messages sent so far
  dAcked,   \* how many of them the device knows to be received
  dGot,     \* payloads received from the accessory, oldest first
  strays,   \* DETECTs sent
  faults    \* packets lost

device == <<conv, dState, dLast, dSent, dAcked, dGot, strays>>
vars == <<linkVars, device, faults>>

(* The number of the device's n-th message, and of its bare packets. *)
SeqOf(n) == (DevInit + n) % M
BareSeq == SeqOf(dSent + conv.seqLead)

DevAckOf(s) == (s + conv.ackLead) % M

Message(n, s) == DevPacket(conv.kind, SeqOf(n), DevAckOf(s), n, 0, n)
Bare(k, s, e) == DevPacket(k, BareSeq, DevAckOf(s), 0, e, dSent)

DevInitState ==
  /\ conv \in Convs
  /\ dState = "listen" /\ dLast = 0 /\ dSent = 0 /\ dAcked = 0
  /\ dGot = <<>> /\ strays = 0 /\ faults = 0

Init == LinkInit /\ DevInitState

-----------------------------------------------------------------------------
(* The device                                                              *)

Room == Len(toAcc) < MaxFlight /\ ~ closed

(* The next packet from the accessory. *)
DevReads(p) ==
  /\ Room /\ toDev # <<>> /\ p = Head(toDev)
  /\ toDev' = Tail(toDev)

Arriving == IF toDev = <<>> THEN {} ELSE {Head(toDev)}

DevSends(p) == toAcc' = Append(toAcc, p)

(* A DETECT sent unasked before the handshake, or echoed. *)
DevStray ==
  /\ dState = "listen" /\ strays < MaxStray /\ Room
  /\ strays' = strays + 1
  /\ DevSends(DevPacket("Detect", 0, 0, 0, 0, 0))
  /\ UNCHANGED <<link, call, history, toDev, closed, conv, dState, dLast, dSent,
                 dAcked, dGot, faults>>

DevDetect ==
  /\ \E p \in Arriving : DevReads(p) /\ p.kind = "Detect"
  /\ UNCHANGED <<link, call, history, toAcc, closed, device, faults>>

(* Every SYN is answered; a repeated one sets the device back. *)
DevSyn ==
  /\ \E p \in Arriving :
       /\ DevReads(p) /\ p.kind = "Syn" /\ dState # "up"
       /\ dState' = "synced" /\ dLast' = p.seq
       /\ DevSends(DevPacket("SynAck", SeqOf(0), p.seq, 0, 0, 0))
  /\ UNCHANGED <<link, call, history, closed, conv, dSent, dAcked, dGot, strays,
                 faults>>

(* The first ack of the SYN-ACK completes the handshake; the packet is     *)
(* then handled like any other.                                            *)
DevEstablished ==
  /\ dState = "synced" /\ ~ closed
  /\ \E p \in Arriving : p.kind = "Ack" /\ p.ack = SeqOf(0)
  /\ dState' = "up"
  /\ UNCHANGED <<linkVars, conv, dLast, dSent, dAcked, dGot, strays, faults>>

(* The number acked is one of those the device is waiting for, or no news. *)
AckedBy(p) ==
  IF \E k \in dAcked .. dSent : SeqOf(k) = p.ack
  THEN CHOOSE k \in dAcked .. dSent : SeqOf(k) = p.ack
  ELSE dAcked

DevAcked ==
  /\ dState = "up"
  /\ \E p \in Arriving :
       /\ DevReads(p) /\ p.kind = "Ack" /\ p.pay = 0
       /\ dAcked' = AckedBy(p)
  /\ UNCHANGED <<link, call, history, toAcc, closed, conv, dState, dLast, dSent,
                 dGot, strays, faults>>

(* A message in order, answered with a bare ack or with the next message. *)
DevTake ==
  /\ dState = "up"
  /\ \E p \in Arriving :
       /\ DevReads(p) /\ p.kind = "Ack" /\ p.pay # 0 /\ p.seq = Succ(dLast)
       /\ dLast' = p.seq /\ dGot' = Append(dGot, p.pay) /\ dAcked' = AckedBy(p)
       /\ \/ DevSends(Bare("Ack", p.seq, 0)) /\ UNCHANGED dSent
          \/ /\ dSent < MaxData
             /\ dSent' = dSent + 1
             /\ DevSends(Message(dSent + 1, p.seq))
  /\ UNCHANGED <<link, call, history, closed, conv, dState, strays, faults>>

(* One received before is acked again; one that leaves a gap is reported   *)
(* in an EAK, by its own number or by the one after it.                    *)
DevOld ==
  /\ dState = "up"
  /\ \E p \in Arriving :
       /\ DevReads(p) /\ p.kind = "Ack" /\ p.pay # 0 /\ ~ IsAfter(p.seq, dLast)
       /\ dAcked' = AckedBy(p)
       /\ DevSends(Bare("Ack", dLast, 0))
  /\ UNCHANGED <<link, call, history, closed, conv, dState, dLast, dSent, dGot,
                 strays, faults>>

DevGap ==
  /\ dState = "up"
  /\ \E p \in Arriving :
       /\ DevReads(p) /\ p.kind = "Ack" /\ p.pay # 0
       /\ IsAfter(p.seq, Succ(dLast))
       /\ dAcked' = AckedBy(p)
       /\ \E e \in {p.seq, Succ(p.seq)} : DevSends(Bare("Eak", dLast, e))
  /\ UNCHANGED <<link, call, history, closed, conv, dState, dLast, dSent, dGot,
                 strays, faults>>

DevSend ==
  /\ dState = "up" /\ Room
  /\ dSent < MaxData /\ dSent - dAcked < Window
  /\ dSent' = dSent + 1
  /\ DevSends(Message(dSent + 1, dLast))
  /\ UNCHANGED <<link, call, history, toDev, closed, conv, dState, dLast, dAcked,
                 dGot, strays, faults>>

Close ==
  /\ ~ closed
  /\ closed' = TRUE
  /\ UNCHANGED <<link, call, history, toAcc, toDev, device, faults>>

-----------------------------------------------------------------------------
(* Faults                                                                  *)

(* A message not known to be received is sent again, when the timer of the *)
(* device runs out with nothing arriving: it was lost, its ack was lost,   *)
(* or the accessory is slow.                                               *)
DevResend ==
  /\ dState = "up" /\ Room /\ toDev = <<>>
  /\ \E n \in dAcked + 1 .. dSent : DevSends(Message(n, dLast))
  /\ UNCHANGED <<link, call, history, toDev, closed, device, faults>>

LoseToAcc ==
  /\ faults < MaxFaults /\ toAcc # <<>>
  /\ faults' = faults + 1
  /\ toAcc' = Tail(toAcc)
  /\ UNCHANGED <<link, call, history, toDev, closed, device>>

LoseToDev ==
  /\ faults < MaxFaults /\ toDev # <<>>
  /\ faults' = faults + 1
  /\ toDev' = Tail(toDev)
  /\ UNCHANGED <<link, call, history, toAcc, closed, device>>

-----------------------------------------------------------------------------
Accessory ==
  /\ Negotiate \/ ReceiveData \/ SendData \/ ResendData
  /\ UNCHANGED <<device, faults>>

Device ==
  \/ DevStray \/ DevDetect \/ DevSyn \/ DevEstablished \/ DevAcked \/ DevTake
  \/ DevOld \/ DevGap \/ DevSend

Next == Accessory \/ Device \/ Close

Faults == DevResend \/ LoseToAcc \/ LoseToDev

Cancel == CancelReply /\ UNCHANGED <<device, faults>>

Spec == Init /\ [][Next]_vars
FaultySpec == Init /\ [][Next \/ Faults]_vars
CancelSpec == Init /\ [][Next \/ Cancel]_vars

(* Everything at once. *)
AnyNext == Next \/ Faults \/ Cancel
AnySpec == Init /\ [][AnyNext]_vars

-----------------------------------------------------------------------------
(* Fairness: the task and the device go on as long as they can.  Starting  *)
(* a send is the application's choice.  A read times out for certain only  *)
(* if nothing arrives, for its timer is restarted by every packet.         *)

AccessoryRuns ==
  /\ \/ NegotiateStart \/ SynAckOk \/ SynAckBad
     \/ ReceiveData \/ ResendStart \/ AnswerSkipped
     \/ SendAck \/ SendEak \/ SendUnexpected \/ SendClosed
     \/ ResendMessage \/ ResendAck \/ ResendOther
     \/ toAcc = <<>> /\ (SynTimeout \/ SendTimeout \/ ResendTimeout)
  /\ UNCHANGED <<device, faults>>

DeviceReads ==
  \/ DevDetect \/ DevSyn \/ DevEstablished \/ DevAcked \/ DevTake \/ DevOld
  \/ DevGap

FairSpec == Spec /\ WF_vars(AccessoryRuns) /\ WF_vars(DeviceReads)

(* The device sends what is not acked again, oldest first, and goes on     *)
(* doing so.                                                               *)
ResendOldest ==
  /\ DevResend
  /\ toAcc' = Append(toAcc, Message(dAcked + 1, dLast))

FairFaultySpec ==
  /\ FaultySpec
  /\ WF_vars(AccessoryRuns) /\ WF_vars(DeviceReads) /\ SF_vars(ResendOldest)

-----------------------------------------------------------------------------
(* Properties                                                              *)

DevPackets ==
  [kind : {"Ack", "Data", "Eak", "SynAck", "Detect", "None"}, seq : Seqs,
   ack : Seqs, pay : 0 .. MaxData, eak : Seqs, n : 0 .. MaxData]

AccPackets ==
  [kind : {"Detect", "Syn", "Ack"}, seq : Seqs, ack : Seqs, pay : 0 .. MaxSend]

(* Every variable of the link, of the stream and of the device keeps its   *)
(* type; in particular seq and ack stay bytes and rx_buffer holds only     *)
(* packets of the device.                                                  *)
TypeOK ==
  /\ seq \in Seqs /\ ack \in Seqs
  /\ pending \in Seq(DevPackets) /\ rxBuffer \subseteq DevPackets
  /\ pc \in {"new", "syn", "idle", "reply", "answer", "send", "resend", "down",
             "panic"}
  /\ tries \in Nat /\ out \in AccPackets /\ held \in DevPackets
  /\ outcome \in {"none", "ok", "Timeout", "Protocol", "Io"}
  /\ delivered \in Seq(0 .. MaxData) /\ nSent \in 0 .. MaxSend
  /\ toAcc \in Seq(DevPackets) /\ toDev \in Seq(AccPackets)
  /\ closed \in BOOLEAN
  /\ conv \in Convs /\ dState \in {"listen", "synced", "up"}
  /\ dLast \in Seqs /\ dSent \in 0 .. MaxData /\ dAcked \in 0 .. MaxData
  /\ dGot \in Seq(0 .. MaxSend) /\ strays \in Nat /\ faults \in Nat

Running == pc \notin {"down", "panic"}

(* What receive_data has returned is exactly the device's first messages,  *)
(* in order, none twice and none skipped, whatever mixture of pending,     *)
(* rx_buffer and direct reads they came through.                           *)
InOrder == \A i \in DOMAIN delivered : delivered[i] = i

(* The messages the accessory still has to return. *)
Kept ==
  {pending[i].pay : i \in DOMAIN pending} \cup {q.pay : q \in rxBuffer}
    \cup {held.pay}

Returned == {delivered[i] : i \in DOMAIN delivered}

(* A message the device knows to be received, and so will not send again,  *)
(* was returned to the caller or is kept to be returned: an ack is never   *)
(* written for a message that is then forgotten.  (With seqLead = 1 the    *)
(* accessory repeats a number no message had yet: not an ack of one.)      *)
AckedIsKept ==
  Running /\ conv.seqLead = 0 => 1 .. dAcked \subseteq Returned \cup Kept

(* A send that returns Ok did get its payload to the device: the ack it    *)
(* took for its own was not a stale one.  (A peer that acks the next       *)
(* number acks a payload before it was sent, with ackLead = 1.  A session  *)
(* that spends M numbers or more can meet the ack of a number it used M    *)
(* sends ago: the bounds of the runs stay below that.)                     *)
SendOkMeansReceived ==
  [][(pc = "send" \/ ResendAck) /\ outcome' = "ok" /\ outcome = "none"
       /\ conv.ackLead = 0
     => \E i \in DOMAIN dGot : dGot[i] = out.pay]_vars

(* No send meets a packet it gives up on: what negotiation leaves behind,  *)
(* the SYN-ACKs that answer repeated SYNs, is read and ignored by          *)
(* receive_data before the first send can start.                           *)
NoProtocolError == outcome # "Protocol"

(* The device gets the accessory's payloads in the order of sending, each  *)
(* at most once, whatever was retransmitted or lost.                       *)
DeviceInOrder ==
  \A i, j \in DOMAIN dGot : i < j => dGot[i] < dGot[j]

(* The abstract channel, towards the accessory and towards the device. *)
ToAccessory == INSTANCE MessageChannel WITH sent <- dSent, received <- delivered
ToDevice == INSTANCE MessageChannel WITH sent <- nSent, received <- dGot

(* On a reliable stream the link implements the abstract channel in either *)
(* direction: every message received is the next one sent.                 *)
FromDeviceIsChannel == ToAccessory!Spec
FromAccessoryIsChannel == ToDevice!Spec

(* No message is returned by receive_data twice. *)
NoneTwice ==
  \A i, j \in DOMAIN delivered : i # j => delivered[i] # delivered[j]

(* Negotiation ends, established or given up. *)
NegotiationEnds == pc = "syn" ~> pc # "syn"

(* Every message the device sends is returned by receive_data, unless the  *)
(* connection ends.                                                        *)
AllReturned ==
  \A k \in 1 .. MaxData : dSent >= k ~> (k \in Returned \/ ~ Running)
=============================================================================
