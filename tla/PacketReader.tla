---------------------------- MODULE PacketReader ----------------------------
(***************************************************************************)
(* How packets come out of the byte stream: fill_buf, try_parse_packet and *)
(* read_packet of src/src/link.rs over Packet, and the read of the iAP1    *)
(* probe that comes before them (try_iap1_probe).                          *)
(*                                                                         *)
(* wire is everything the device sends in a behaviour: packets with noise  *)
(* between them, and with at most one byte damaged on its way.  The        *)
(* transport hands the bytes over in pieces of any size, and a read may be *)
(* dropped at its await, by a timeout or by the select! of the connection. *)
(* The link works on packets that are lost or arrive whole (LinkSystem);   *)
(* LossyChannel says so, and this module implements it.                    *)
(***************************************************************************)
EXTENDS Packet, FiniteSets

CONSTANTS
  MaxLength,    \* the longest packet accepted: 8192
  Chunk,        \* bytes one read may return: the 4096 of fill_buf
  Scripts,      \* what a device may send: sequences of blocks, each a packet
                \* and the noise in front of it
  DamageValues  \* what a damaged byte may become

ASSUME PacketReaderAssumption ==
  /\ MaxLength \in Nat /\ 9 <= MaxLength
  /\ Chunk \in Nat \ {0}
  /\ DamageValues \subseteq Byte
  /\ \A s \in Scripts : s \in Seq([noise : Seq(Byte), packet : Packets])

VARIABLES
  sent,      \* the packets of the device, in order
  starts,    \* the position of the first byte of each
  wire,      \* all the bytes, the damaged one as it arrives
  damaged,   \* its position, or 0
  pc,        \* "probe", "parse": in read_packet, "fill": at its await, "closed"
  swallowed, \* bytes the probe has read
  bytesRead, \* bytes read so far, the swallowed ones included
  readBuf,   \* Iap2Link::read_buf
  returned   \* the packets read_packet has returned, oldest first

(* A length takes two bytes, and no packet is longer than the reader       *)
(* accepts.                                                                *)
ASSUME LengthAssumption ==
  /\ MaxLength <= 65535
  /\ \A s \in Scripts : \A i \in DOMAIN s : Len(Encode(s[i].packet)) <= MaxLength

(* What stands in front of a packet does not look like one itself: behind  *)
(* a sync within it, a length that is none follows.                        *)
ASSUME NoiseAssumption ==
  \A s \in Scripts : \A i \in DOMAIN s : \A j \in 1 .. Len(s[i].noise) - 1 :
    LET d == SubSeq(s[i].noise \o Encode(s[i].packet), j, j + 3)
    IN  Synced(d) => LengthOf(d) \notin 6 .. MaxLength

script == <<sent, starts, wire, damaged>>
vars == <<script, pc, swallowed, bytesRead, readBuf, returned>>

Bytes(s) == FlattenSeq([i \in DOMAIN s |-> s[i].noise \o Encode(s[i].packet)])

StartOf(s, i) == Len(Bytes(SubSeq(s, 1, i - 1))) + Len(s[i].noise) + 1

(* The probe comes first; damage is looked at from a later point on. *)
Init ==
  \E s \in Scripts :
    /\ sent = [i \in DOMAIN s |-> s[i].packet]
    /\ starts = [i \in DOMAIN s |-> StartOf(s, i)]
    /\ \/ /\ wire = Bytes(s) /\ damaged = 0
          /\ pc = "probe"
       \/ \E v \in DamageValues :
            /\ damaged \in DOMAIN Bytes(s)
            /\ wire = [Bytes(s) EXCEPT ![damaged] = v]
            /\ pc = "parse"
    /\ swallowed = 0 /\ bytesRead = 0 /\ readBuf = <<>> /\ returned = <<>>

-----------------------------------------------------------------------------
(* try_parse_packet                                                        *)

(* Mutant: no upper bound. *)
ValidLengthAny(n) == n >= 6

ValidLength(n) == n \in 6 .. MaxLength

(* Mutant: the length is waited for before it is looked at. *)
WaitsFirst(rest) ==
  \/ Len(rest) < 2
  \/ Synced(rest) /\ (Len(rest) < 4 \/ Len(rest) < LengthOf(rest))

(* There are not enough bytes to go on. *)
Waits(rest) ==
  \/ Len(rest) < 2
  \/ /\ Synced(rest)
     /\ \/ Len(rest) < 4
        \/ ValidLength(LengthOf(rest)) /\ Len(rest) < LengthOf(rest)

(* The bytes one turn of the loop takes out of the buffer. *)
Advance(rest) ==
  CASE ~ Synced(rest) -> 1
    [] Synced(rest) /\ ~ ValidLength(LengthOf(rest)) -> 2
    [] OTHER -> LengthOf(rest)

PacketAt(rest) ==
  IF Synced(rest) /\ ValidLength(LengthOf(rest))
  THEN Decode(SubSeq(rest, 1, LengthOf(rest))) ELSE {}

(* The packet found, if any, and the bytes left in the buffer. *)
TryParse(buf) ==
  LET from[i \in 1 .. Len(buf) + 1] ==
        LET rest == SubSeq(buf, i, Len(buf))
        IN  CASE Waits(rest) -> [packet |-> {}, rest |-> rest]
              [] ~ Waits(rest) /\ PacketAt(rest) # {} ->
                   [packet |-> PacketAt(rest),
                    rest |-> SubSeq(rest, LengthOf(rest) + 1, Len(rest))]
              [] OTHER -> from[i + Advance(rest)]
  IN  from[1]

-----------------------------------------------------------------------------
(* Reading                                                                 *)

Left == Len(wire) - bytesRead

(* A read returns at least one byte and at most as many as it has room     *)
(* for.                                                                    *)
Readable(room) == {k \in 1 .. room : k <= Left}

(* read_exact collects six bytes until the timeout, which drops the ones   *)
(* it has; what was read is not looked at.                                 *)
Probe ==
  /\ pc = "probe"
  /\ \E k \in {0} \cup Readable(6) : swallowed' = k /\ bytesRead' = k
  /\ pc' = "parse"
  /\ UNCHANGED <<script, readBuf, returned>>

(* read_packet up to its return, after which it is called again, or to the *)
(* await of fill_buf.                                                      *)
Parse ==
  /\ pc = "parse"
  /\ LET r == TryParse(readBuf)
     IN  /\ readBuf' = r.rest
         /\ \/ r.packet = {} /\ pc' = "fill" /\ UNCHANGED returned
            \/ \E p \in r.packet : returned' = Append(returned, p) /\ UNCHANGED pc
  /\ UNCHANGED <<script, swallowed, bytesRead>>

Fill ==
  /\ pc = "fill"
  /\ \E k \in Readable(Chunk) :
       /\ readBuf' = readBuf \o SubSeq(wire, bytesRead + 1, bytesRead + k)
       /\ bytesRead' = bytesRead + k
  /\ pc' = "parse"
  /\ UNCHANGED <<script, swallowed, returned>>

(* Mutant: the buffer goes with the future. *)
DropLosing ==
  /\ pc = "fill" /\ pc' = "parse" /\ readBuf' = <<>>
  /\ UNCHANGED <<script, swallowed, bytesRead, returned>>

(* The future is dropped at its await; the next read starts from the same  *)
(* buffer.                                                                 *)
Drop ==
  /\ pc = "fill" /\ pc' = "parse"
  /\ UNCHANGED <<script, swallowed, bytesRead, readBuf, returned>>

(* The peer closes the stream: a read returns 0 bytes. *)
Closed ==
  /\ pc = "fill" /\ pc' = "closed"
  /\ UNCHANGED <<script, swallowed, bytesRead, readBuf, returned>>

Next == Probe \/ Parse \/ Fill \/ Drop \/ Closed

Spec == Init /\ [][Next]_vars

(* Bytes that were sent arrive, and the caller goes on reading. *)
FairSpec == Spec /\ WF_vars(Probe) /\ WF_vars(Parse) /\ SF_vars(Fill)

-----------------------------------------------------------------------------
(* Properties                                                              *)

TypeOK ==
  /\ pc \in {"probe", "parse", "fill", "closed"}
  /\ wire \in Seq(Byte) /\ readBuf \in Seq(Byte)
  /\ swallowed \in 0 .. 6 /\ bytesRead \in swallowed .. Len(wire)
  /\ \A i \in DOMAIN returned : returned[i].kind \in DOMAIN Code

(* A packet as its reader is to see it: session 0 is no session, and of a  *)
(* Detect nothing else is looked at.                                       *)
Seen(p) ==
  IF p.kind = "Detect" THEN DetectPacket
  ELSE [p EXCEPT !.session = IF @ = 0 THEN NoSession ELSE @]

(* The bytes that have left the buffer, and the packets not among them. *)
Consumed == bytesRead - Len(readBuf)

Coming ==
  LET gone == {i \in DOMAIN starts : starts[i] <= Consumed}
  IN  [i \in 1 .. Len(sent) - Cardinality(gone) |-> Seen(sent[i + Cardinality(gone)])]

Faulty == damaged # 0 \/ swallowed > 0

Channel ==
  INSTANCE LossyChannel WITH
    coming <- Coming, got <- [i \in DOMAIN returned |-> Seen(returned[i])],
    lossy <- Faulty

(* read_packet returns packets the device sent, unchanged and in order.    *)
(* None is missing, however the bytes are split, whatever noise there is   *)
(* between them and whenever a read is dropped, unless a byte was damaged  *)
(* or the probe has swallowed some.                                        *)
ReadsWhatWasSent == Channel!Spec

(* All packets in the bytes, read in one piece. *)
ParseAll(bytes) ==
  LET from[i \in 1 .. Len(bytes) + 1] ==
        LET r == TryParse(SubSeq(bytes, i, Len(bytes)))
            after == from[Len(bytes) - Len(r.rest) + 1]
        IN  IF r.packet = {} THEN [packets |-> <<>>, rest |-> r.rest]
            ELSE [packets |-> <<CHOOSE p \in r.packet : TRUE>> \o after.packets,
                  rest |-> after.rest]
  IN  from[1]

(* What was returned and what is kept depend on the bytes that have        *)
(* arrived only, and not on how they were split or which reads were        *)
(* dropped; no packet that is complete waits in the buffer.                *)
SplitsDoNotMatter ==
  pc \in {"fill", "closed"} =>
    LET r == ParseAll(SubSeq(wire, swallowed + 1, bytesRead))
    IN  returned = r.packets /\ readBuf = r.rest

(* The buffer holds less than one packet when it is filled: what a peer    *)
(* sends without a sync byte, or under a wrong length, does not pile up.   *)
BufferBounded ==
  /\ pc = "fill" => Len(readBuf) < MaxLength
  /\ Len(readBuf) < MaxLength + Chunk

(* Where reading may go wrong after a fault: at the damaged packet, and at *)
(* what looks like the start of one inside another.                        *)
FalseSyncs ==
  {i \in 1 .. Len(wire) - 1 :
     wire[i] = 255 /\ wire[i + 1] = 90 /\ ~ Contains(starts, i)}

DamagedPackets ==
  {starts[i] : i \in {j \in DOMAIN starts :
     /\ starts[j] <= damaged
     /\ \A k \in j + 1 .. Len(starts) : starts[k] > damaged}}

Near(i) ==
  \/ starts[i] <= swallowed
  \/ Faulty /\ \E t \in FalseSyncs \cup DamagedPackets :
                 starts[i] \in t .. t + MaxLength - 1

IsReturned(i) == \E j \in DOMAIN returned : Seen(returned[j]) = Seen(sent[i])

MaxPackets == CHOOSE n \in {Len(s) : s \in Scripts} : \A s \in Scripts : Len(s) <= n

(* The reader gets back in step: every packet is returned that does not    *)
(* start within MaxLength bytes of where a fault made the reader mistake a *)
(* length.                                                                 *)
BackInStep ==
  \A i \in 1 .. MaxPackets :
    <>(i \in DOMAIN sent => IsReturned(i) \/ Near(i) \/ pc = "closed")
=============================================================================
