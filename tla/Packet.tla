------------------------------- MODULE Packet -------------------------------
(***************************************************************************)
(* The bytes of a packet: Iap2Packet::to_bytes and Iap2Packet::from_bytes  *)
(* of src/src/packet.rs.  Bytes are the numbers 0 .. 255; a length takes   *)
(* two of them.  to_bytes computes it in 16 bits, without a check; the     *)
(* instances have no payload that long.                                    *)
(***************************************************************************)
EXTENDS Integers, Sequences, SequencesExt

Byte == 0 .. 255

(* The control byte of a type, without the session bit. *)
Code ==
  [Syn |-> 128, SynAck |-> 192, Ack |-> 64, Data |-> 0, Eak |-> 96,
   Rst |-> 160, Suspend |-> 224, SuspendAck |-> 240, Detect |-> 238]

(* The type a control byte stands for, if any: the upper half decides,     *)
(* except for Detect.                                                      *)
KindOf(b) ==
  IF b = Code["Detect"] THEN {"Detect"}
  ELSE {k \in DOMAIN Code \ {"Detect"} : Code[k] = 16 * (b \div 16)}

NoSession == -1

Packet(kind, flag, seq, ack, session, payload) ==
  [kind |-> kind, flag |-> flag, seq |-> seq, ack |-> ack, session |-> session,
   payload |-> payload]

Packets ==
  [kind : DOMAIN Code, flag : BOOLEAN, seq : Byte, ack : Byte,
   session : Byte \cup {NoSession}, payload : Seq(Byte)]

(* detect, ack, ack_with_session and data of Iap2Packet. *)
DetectPacket == Packet("Detect", FALSE, 16, 0, NoSession, <<>>)
AckPacket(seq, ack) == Packet("Ack", FALSE, seq, ack, NoSession, <<>>)
AckWithSession(seq, ack, sid) == Packet("Ack", TRUE, seq, ack, sid, <<>>)
DataPacket(seq, ack, sid, payload) == Packet("Ack", TRUE, seq, ack, sid, payload)

Sum(bytes) ==
  LET upTo[n \in 0 .. Len(bytes)] ==
        IF n = 0 THEN 0 ELSE (upTo[n - 1] + bytes[n]) % 256
  IN  upTo[Len(bytes)]

(* Mutant: the difference is not wrapped. *)
ChecksumPlain(bytes) == 256 - Sum(bytes)

(* What makes the sum of all zero, in wrapping arithmetic. *)
Checksum(bytes) == (256 - Sum(bytes)) % 256

(* The bit is part of Detect's code already. *)
ControlByte(p) ==
  Code[p.kind] + IF p.flag /\ p.kind # "Detect" THEN 8 ELSE 0

Header(p) ==
  LET len == (9 + Len(p.payload) + (IF p.payload = <<>> THEN 0 ELSE 1)) % 65536
      session == IF p.session = NoSession THEN 0 ELSE p.session
  IN  <<255, 90, len \div 256, len % 256, ControlByte(p), p.seq, p.ack, session>>

Sealed(bytes) == Append(bytes, Checksum(bytes))

(* to_bytes *)
Encode(p) ==
  IF p.kind = "Detect" THEN <<255, 90, 0, 6, ControlByte(p), p.seq>>
  ELSE Sealed(Header(p)) \o IF p.payload = <<>> THEN <<>> ELSE Sealed(p.payload)

Synced(d) == d[1] = 255 /\ d[2] = 90

LengthOf(d) == 256 * d[3] + d[4]

Body(d) == SubSeq(d, 10, LengthOf(d))

(* Mutant: the checksum behind the payload is not looked at. *)
IntactHeader(d) == Sum(SubSeq(d, 1, 9)) = 0

Intact(d) == Sum(SubSeq(d, 1, 9)) = 0 /\ Sum(Body(d)) = 0

DecodedSession(b) == IF b = 0 THEN NoSession ELSE b

(* from_bytes: the packet, if the bytes are one.  Only a Detect of six     *)
(* bytes has no checksum.                                                  *)
Decode(d) ==
  IF Len(d) < 6 \/ ~ Synced(d) \/ Len(d) < LengthOf(d) THEN {}
  ELSE LET flag == (d[5] \div 8) % 2 = 1
           short == {Packet("Detect", flag, d[6], 0, NoSession, <<>>)}
           full(k) == Packet(k, flag, d[6], d[7], DecodedSession(d[8]),
                             IF Body(d) = <<>> THEN <<>> ELSE Front(Body(d)))
       IN  CASE KindOf(d[5]) = {"Detect"} /\ LengthOf(d) = 6 -> short
             [] Len(d) >= 9 /\ Intact(d) -> {full(k) : k \in KindOf(d[5])}
             [] OTHER -> {}
=============================================================================
