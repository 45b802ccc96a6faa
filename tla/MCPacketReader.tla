--------------------------- MODULE MCPacketReader ---------------------------
(***************************************************************************)
(* Constant values for model checking PacketReader.                        *)
(***************************************************************************)
EXTENDS PacketReader

Block(noise, packet) == [noise |-> noise, packet |-> packet]

SynAckPacket == Packet("SynAck", FALSE, 6, 157, NoSession, <<1, 5>>)

(* What a handshake looks like, an iAP1 answer first. *)
Handshake ==
  <<Block(<<255, 85, 2, 0, 238, 16>>, DetectPacket),
    Block(<<>>, SynAckPacket),
    Block(<<255>>, AckPacket(7, 157)),
    Block(<<>>, DataPacket(8, 158, 10, <<64, 64>>))>>

(* Payloads with sync bytes and lengths in them; session 0. *)
Traffic ==
  <<Block(<<255, 90>>, DataPacket(255, 90, 0, <<255, 90, 0, 12, 64>>)),
    Block(<<>>, AckWithSession(255, 90, 11)),
    Block(<<90>>, DataPacket(1, 0, 11, <<255, 1>>)),
    Block(<<>>, AckPacket(2, 255))>>

AllScripts == {Handshake, Traffic}
=============================================================================
