----------------------------- MODULE LinkProofs -----------------------------
(***************************************************************************)
(* The link.  Its type invariant, for every value of the constants and     *)
(* under every fault the model knows, needs no strengthening.              *)
(*                                                                         *)
(* The order of delivery in both directions: on a reliable stream          *)
(* receive_data returns the device's messages in order, none skipped and   *)
(* none twice, because the invariant of LinkOrder is inductive; the device *)
(* gets what send_data reported sent in order, whatever the stream does;   *)
(* and each direction of the link implements a channel.                    *)
(***************************************************************************)
EXTENDS LinkOrder, WellFoundedInduction, TLAPS

-----------------------------------------------------------------------------
(* Sequence numbers: the n-th of a run of consecutive ones is (s + n) % M, *)
(* and any M of them differ.                                               *)

(* Every number is a multiple of M and a remainder. *)
LEMMA Division ==
  ASSUME NEW a \in Nat
  PROVE  /\ a = (M * (a \div M)) + (a % M)
         /\ a \div M \in Nat
         /\ a % M \in 0 .. M - 1
BY MAssumption, SMTT(30)

LEMMA MultiplesApart ==
  ASSUME NEW p \in Int, NEW q \in Int, p < q
  PROVE  (M * p) + M <= M * q
<1>1. q >= p + 1
  OBVIOUS
<1>2. M * q = (M * (p + 1)) + (M * (q - (p + 1)))
  BY MAssumption, SMTT(10)
<1>3. M * (q - (p + 1)) >= 0
  BY MAssumption, <1>1, SMTT(10)
<1>4. M * (p + 1) = (M * p) + M
  BY MAssumption
<1> QED
  BY MAssumption, <1>2, <1>3, <1>4

(* The remainder is the only one. *)
LEMMA Remainder ==
  ASSUME NEW q \in Nat, NEW r \in 0 .. M - 1
  PROVE  ((M * q) + r) % M = r
<1> DEFINE a == (M * q) + r
<1>1. a \in Nat
  BY MAssumption, SMTT(10)
<1>2. PICK q2 \in Nat, r2 \in 0 .. M - 1 : a = (M * q2) + r2 /\ r2 = a % M
  BY <1>1, Division
<1>3. CASE q2 < q
  BY <1>2, <1>3, MultiplesApart, MAssumption
<1>4. CASE q < q2
  BY <1>2, <1>4, MultiplesApart, MAssumption
<1>5. CASE q2 = q
  BY <1>2, <1>5, MAssumption
<1> QED
  BY <1>2, <1>3, <1>4, <1>5

(* Succ of a number modulo M is the next number modulo M. *)
LEMMA SuccMod ==
  ASSUME NEW a \in Nat
  PROVE  Succ(a % M) = (a + 1) % M
<1>1. PICK q \in Nat, r \in 0 .. M - 1 : a = (M * q) + r /\ r = a % M
  BY Division
<1>2. CASE r < M - 1
  <2>1. a + 1 = (M * q) + (r + 1) /\ r + 1 \in 0 .. M - 1
    BY <1>1, <1>2, MAssumption
  <2>2. (a + 1) % M = r + 1
    BY <2>1, Remainder
  <2>3. r + 1 = (M * 0) + (r + 1)
    BY <1>1, MAssumption
  <2>4. (r + 1) % M = r + 1
    BY <2>1, <2>3, Remainder
  <2> QED
    BY <1>1, <2>2, <2>4 DEF Succ
<1>3. CASE r = M - 1
  <2>0. M * (q + 1) = (M * q) + M
    BY <1>1, MAssumption
  <2>1. a + 1 = (M * (q + 1)) + 0
    <3>1. PICK x \in Int, y \in Int : x = M * q /\ y = M * (q + 1)
      BY <1>1, MAssumption
    <3>2. y = x + M /\ a = x + r
      BY <2>0, <3>1, <1>1
    <3>3. a + 1 = y
      BY <3>2, <1>3, MAssumption
    <3> QED
      BY <3>1, <3>3
  <2>2. (a + 1) % M = 0
    BY <1>1, <2>1, Remainder, MAssumption
  <2>3. r + 1 = (M * 1) + 0
    BY <1>1, <1>3, MAssumption
  <2>4. (r + 1) % M = 0
    BY <2>3, Remainder, MAssumption
  <2> QED
    BY <1>1, <2>2, <2>4 DEF Succ
<1> QED
  BY <1>1, <1>2, <1>3, MAssumption

(* Fewer than M consecutive numbers have different remainders. *)
LEMMA ModDistinct ==
  ASSUME NEW a \in Nat, NEW b \in Nat, a < b, b < a + M
  PROVE  a % M # b % M
<1>1. PICK p \in Nat, r \in 0 .. M - 1 : a = (M * p) + r /\ r = a % M
  BY Division
<1>2. PICK q \in Nat, s \in 0 .. M - 1 : b = (M * q) + s /\ s = b % M
  BY Division
<1>3. SUFFICES ASSUME r = s PROVE FALSE
  BY <1>1, <1>2
<1>4. CASE p < q
  BY SMTT(30), <1>1, <1>2, <1>3, <1>4, MultiplesApart, MAssumption
<1>5. CASE q < p
  BY <1>1, <1>2, <1>3, <1>5, MultiplesApart, MAssumption
<1>6. CASE p = q
  BY <1>1, <1>2, <1>3, <1>6, MAssumption
<1> QED
  BY <1>1, <1>2, <1>4, <1>5, <1>6

LEMMA SeqsClosed ==
  ASSUME NEW a \in Int
  PROVE  a % M \in Seqs
BY MAssumption, SMTT(30) DEF Seqs

-----------------------------------------------------------------------------
(* The types of what is built from packets                                 *)

LEMMA SeqTypes ==
  /\ \A a \in Int : a % M \in Seqs
  /\ \A s \in Seqs : Succ(s) \in Seqs
  /\ 0 \in Seqs
<1>1. \A a \in Int : a % M \in Seqs
  BY SeqsClosed
<1>2. \A s \in Seqs : s + 1 \in Int
  BY MAssumption DEF Seqs
<1> QED
  BY <1>1, <1>2, MAssumption DEF Succ, Seqs

LEMMA AccPacketTypes ==
  ASSUME NEW s \in Seqs, NEW a \in Seqs, NEW m \in 0 .. MaxSend
  PROVE  /\ Detect \in AccPackets
         /\ Syn(s) \in AccPackets
         /\ Ack(s, a) \in AccPackets
         /\ Data(s, a, m) \in AccPackets
<1>1. 0 \in 0 .. MaxSend
  BY LinkAssumption
<1> QED
  BY <1>1, SeqTypes DEF AccPackets, Detect, Syn, Ack, Data

LEMMA NoPacketType == NoPacket \in DevPackets
<1>1. 0 \in 0 .. MaxData
  BY LinkSystemAssumption
<1> QED
  BY <1>1, SeqTypes DEF NoPacket, DevPacket, DevPackets

LEMMA DevPacketFields ==
  ASSUME NEW p \in DevPackets
  PROVE  /\ p.seq \in Seqs /\ p.ack \in Seqs
         /\ p.pay \in 0 .. MaxData /\ p.eak \in Seqs /\ p.n \in 0 .. MaxData
BY DEF DevPackets

LEMMA TakeTypes ==
  ASSUME toAcc \in Seq(DevPackets), NEW p \in Incoming
  PROVE  /\ toAcc # <<>> /\ p = Head(toAcc)
         /\ p \in DevPackets
         /\ Tail(toAcc) \in Seq(DevPackets)
BY DEF Incoming

LEMMA PutTypes ==
  ASSUME NEW q \in Seq(AccPackets), NEW p \in AccPackets
  PROVE  Put(q, p) \in Seq(AccPackets)
BY DEF Put

LEMMA QueueTypes ==
  ASSUME pending \in Seq(DevPackets), NEW p \in DevPackets, Queue(p)
  PROVE  pending' \in Seq(DevPackets)
BY DEF Queue

LEMMA DeliverTypes ==
  ASSUME delivered \in Seq(0 .. MaxData), NEW p \in DevPackets, Deliver(p)
  PROVE  /\ delivered' \in Seq(0 .. MaxData)
         /\ pc' \in {"idle", "answer"}
BY DevPacketFields DEF Deliver

LEMMA WrittenTypes == Written \subseteq BOOLEAN
BY DEF Written

(* The variables of the device, which no step of the accessory changes. *)
DeviceTypeOK ==
  /\ conv \in Convs /\ dState \in {"listen", "synced", "up"}
  /\ dLast \in Seqs /\ dSent \in 0 .. MaxData /\ dAcked \in 0 .. MaxData
  /\ dGot \in Seq(0 .. MaxSend) /\ strays \in Nat /\ faults \in Nat

(* The variables of the link and of the stream. *)
LinkTypeOK ==
  /\ seq \in Seqs /\ ack \in Seqs
  /\ pending \in Seq(DevPackets) /\ rxBuffer \subseteq DevPackets
  /\ pc \in {"new", "syn", "idle", "reply", "answer", "send", "resend", "down",
             "panic"}
  /\ tries \in Nat /\ out \in AccPackets /\ held \in DevPackets
  /\ outcome \in {"none", "ok", "Timeout", "Protocol", "Io"}
  /\ delivered \in Seq(0 .. MaxData) /\ nSent \in 0 .. MaxSend
  /\ toAcc \in Seq(DevPackets) /\ toDev \in Seq(AccPackets)
  /\ closed \in BOOLEAN

LEMMA TypeParts == TypeOK <=> LinkTypeOK /\ DeviceTypeOK
BY DEF TypeOK, LinkTypeOK, DeviceTypeOK

-----------------------------------------------------------------------------
LEMMA InitTypes == Init => TypeOK
<1> SUFFICES ASSUME Init PROVE LinkTypeOK /\ DeviceTypeOK
  BY TypeParts
<1> USE DEF Init, LinkInit, DevInitState
<1>1. Detect \in AccPackets
  BY AccPacketTypes, SeqTypes, LinkAssumption
<1>2. LinkTypeOK
  <2>1. /\ pending \in Seq(DevPackets) /\ toAcc \in Seq(DevPackets)
        /\ toDev \in Seq(AccPackets) /\ delivered \in Seq(0 .. MaxData)
    OBVIOUS
  <2>2. tries \in Nat /\ nSent \in 0 .. MaxSend
    BY LinkAssumption
  <2>3. seq \in Seqs
    BY SeqTypes
  <2> QED
    BY <1>1, <2>1, <2>2, <2>3, NoPacketType, SeqTypes DEF LinkTypeOK
<1>3. DeviceTypeOK
  BY SeqTypes, LinkSystemAssumption DEF DeviceTypeOK
<1> QED
  BY <1>2, <1>3

(* One step per action of negotiate. *)
LEMMA NegotiateTypes == LinkTypeOK /\ Negotiate => LinkTypeOK'
<1> SUFFICES ASSUME LinkTypeOK, Negotiate PROVE LinkTypeOK'
  OBVIOUS
<1> USE DEF LinkTypeOK, link, call, history, net
<1>1. CASE NegotiateStart
  <2>1. Put(Put(toDev, Detect), Syn(InitialSeq)) \in Seq(AccPackets)
    BY AccPacketTypes, PutTypes, SeqTypes, LinkAssumption
  <2>2. toAcc' \in Seq(DevPackets)
    <3>1. CASE toAcc' = toAcc
      BY <3>1
    <3>2. CASE toAcc # <<>> /\ toAcc' = Tail(toAcc)
      BY <3>2
    <3> QED
      BY <1>1, <3>1, <3>2 DEF NegotiateStart
  <2> QED
    BY <1>1, <2>1, <2>2, LinkAssumption DEF NegotiateStart
<1>2. ASSUME RetrySyn, toAcc' \in Seq(DevPackets) PROVE LinkTypeOK'
  <2>1. Put(toDev, Syn(seq)) \in Seq(AccPackets)
    BY AccPacketTypes, PutTypes, SeqTypes, LinkAssumption
  <2> QED
    BY <1>2, <2>1 DEF RetrySyn
<1>3. CASE SynAckOk
  <2>1. PICK p \in Incoming :
          /\ Take /\ ack' = p.seq /\ seq' = Succ(seq)
          /\ \E ok \in Written :
               /\ toDev' = Put(toDev, Ack(seq', p.seq))
               /\ pc' = IF ok THEN "idle" ELSE "down"
    BY <1>3 DEF SynAckOk
  <2>2. p \in DevPackets /\ toAcc' \in Seq(DevPackets)
    BY <2>1, TakeTypes DEF Take
  <2>3. ack' \in Seqs /\ seq' \in Seqs
    BY <2>1, <2>2, SeqTypes, DevPacketFields
  <2>4. toDev' \in Seq(AccPackets)
    BY <2>1, <2>3, AccPacketTypes, PutTypes, LinkAssumption
  <2> QED
    BY <1>3, <2>1, <2>2, <2>3, <2>4 DEF SynAckOk
<1>4. CASE SynAckBad
  BY <1>2, <1>4, TakeTypes DEF SynAckBad, Take
<1>5. CASE SynTimeout
  BY <1>2, <1>5 DEF SynTimeout
<1> QED
  BY <1>1, <1>3, <1>4, <1>5 DEF Negotiate

LEMMA ReplyTypes ==
  ASSUME LinkTypeOK, NEW a \in Seqs, NEW p \in DevPackets, Reply(a, p)
  PROVE  ack' \in Seqs /\ out' \in AccPackets /\ held' \in DevPackets
         /\ pc' = "reply"
BY AccPacketTypes, LinkAssumption DEF Reply, LinkTypeOK

(* One step per action of receive_data. *)
LEMMA ReceiveTypes == LinkTypeOK /\ ReceiveData => LinkTypeOK'
<1> SUFFICES ASSUME LinkTypeOK, ReceiveData PROVE LinkTypeOK'
  OBVIOUS
<1> USE DEF link, call, history, net
<1>1. CASE RecvPending
  <2>1. Head(pending) \in DevPackets /\ Tail(pending) \in Seq(DevPackets)
    BY <1>1 DEF RecvPending, LinkTypeOK
  <2>2. delivered' \in Seq(0 .. MaxData) /\ pc' \in {"idle", "answer"}
    BY <1>1, <2>1, DeliverTypes DEF RecvPending, LinkTypeOK
  <2> QED
    BY <1>1, <2>1, <2>2 DEF RecvPending, LinkTypeOK
<1>2. CASE RecvBuffered
  <2>1. PICK q \in Buffered : Reply(q.seq, q) /\ rxBuffer' = rxBuffer \ {q}
    BY <1>2 DEF RecvBuffered
  <2>2. q \in DevPackets /\ rxBuffer' \subseteq DevPackets
    BY <2>1 DEF Buffered, LinkTypeOK
  <2> QED
    BY <1>2, <2>1, <2>2, DevPacketFields, ReplyTypes DEF RecvBuffered, LinkTypeOK
<1>3. CASE RecvInOrder
  <2>1. PICK p \in Incoming : Take /\ Reply(p.seq, p)
    BY <1>3 DEF RecvInOrder
  <2>2. p \in DevPackets /\ toAcc' \in Seq(DevPackets)
    BY <2>1, TakeTypes DEF Take, LinkTypeOK
  <2> QED
    BY <1>3, <2>1, <2>2, DevPacketFields, ReplyTypes DEF RecvInOrder, LinkTypeOK
<1>4. CASE RecvAhead
  <2>1. PICK p \in Incoming :
          /\ Take
          /\ rxBuffer' = {q \in rxBuffer : q.seq # p.seq} \cup {p}
          /\ IF p.kind = "Data" THEN Reply(ack, NoPacket)
                                ELSE UNCHANGED <<ack, out, held, pc>>
    BY <1>4 DEF RecvAhead
  <2>2. p \in DevPackets /\ toAcc' \in Seq(DevPackets)
    BY <2>1, TakeTypes DEF Take, LinkTypeOK
  <2>3. rxBuffer' \subseteq DevPackets
    BY <2>1, <2>2 DEF LinkTypeOK
  <2> QED
    BY <1>4, <2>1, <2>2, <2>3, NoPacketType, ReplyTypes DEF RecvAhead, LinkTypeOK
<1>5. CASE RecvOld
  <2>1. PICK p \in Incoming :
          /\ Take
          /\ IF p.kind = "Data" THEN Reply(ack, NoPacket)
                                ELSE UNCHANGED <<ack, out, held, pc>>
    BY <1>5 DEF RecvOld
  <2>2. toAcc' \in Seq(DevPackets)
    BY <2>1, TakeTypes DEF Take, LinkTypeOK
  <2> QED
    BY <1>5, <2>1, <2>2, NoPacketType, ReplyTypes DEF RecvOld, LinkTypeOK
<1>6. CASE RecvIgnore
  <2>1. toAcc' \in Seq(DevPackets)
    BY <1>6, TakeTypes DEF RecvIgnore, Take, LinkTypeOK
  <2> QED
    BY <1>6, <2>1 DEF RecvIgnore, LinkTypeOK
<1>7. CASE RecvClosed
  BY <1>7 DEF RecvClosed, LinkTypeOK
<1>8. CASE ReplyWrite
  <2>1. toDev' \in Seq(AccPackets)
    BY <1>8, PutTypes DEF ReplyWrite, LinkTypeOK
  <2>2. out' \in AccPackets /\ held' \in DevPackets
    BY <1>8, AccPacketTypes, SeqTypes, NoPacketType, LinkAssumption
    DEF ReplyWrite
  <2>3. /\ delivered' \in Seq(0 .. MaxData)
        /\ pc' \in {"idle", "answer", "down"}
    BY <1>8, DeliverTypes DEF ReplyWrite, LinkTypeOK
  <2> QED
    BY <1>8, <2>1, <2>2, <2>3 DEF ReplyWrite, LinkTypeOK
<1> QED
  BY <1>1, <1>2, <1>3, <1>4, <1>5, <1>6, <1>7, <1>8 DEF ReceiveData

LEMMA CancelTypes == LinkTypeOK /\ CancelReply => LinkTypeOK'
<1> SUFFICES ASSUME LinkTypeOK, CancelReply PROVE LinkTypeOK'
  OBVIOUS
<1>1. out' \in AccPackets /\ held' \in DevPackets
  BY AccPacketTypes, SeqTypes, NoPacketType, LinkAssumption DEF CancelReply
<1> QED
  BY <1>1 DEF CancelReply, LinkTypeOK, link, history, net

(* One step per action of send_data. *)
LEMMA SendTypes == LinkTypeOK /\ SendData => LinkTypeOK'
<1> SUFFICES ASSUME LinkTypeOK, SendData PROVE LinkTypeOK'
  OBVIOUS
<1> USE DEF link, call, history, net
<1>1. CASE SendStart
  <2>1. nSent' \in 0 .. MaxSend
    BY <1>1, LinkAssumption DEF SendStart, LinkTypeOK
  <2>2. Data(seq, ack, nSent') \in AccPackets
    BY <2>1, AccPacketTypes DEF LinkTypeOK
  <2>3. toDev' \in Seq(AccPackets)
    BY <1>1, <2>2, PutTypes DEF SendStart, LinkTypeOK
  <2>4. /\ seq' \in Seqs /\ out' \in AccPackets
        /\ pc' \in {"idle", "down", "send"} /\ outcome' \in {"none", "Io"}
    BY <1>1, <2>2, SeqTypes DEF SendStart, LinkTypeOK
  <2> QED
    BY <1>1, <2>1, <2>3, <2>4 DEF SendStart, LinkTypeOK
<1>2. CASE SendAck
  <2>1. PICK p \in Incoming :
          /\ Take /\ ack' = p.seq
          /\ IF p.pay = 0 THEN UNCHANGED pending ELSE Queue(p)
          /\ \E ok \in IF p.pay = 0 THEN {TRUE} ELSE Written :
              /\ toDev' = IF p.pay = 0 THEN toDev ELSE Put(toDev, Ack(seq, p.seq))
              /\ \/ ok /\ AcksOut(p) /\ pc' = "idle" /\ outcome' = "ok"
                 \/ ok /\ ~ AcksOut(p) /\ UNCHANGED <<pc, outcome>>
                 \/ ~ ok /\ SendFails("Io")
    BY <1>2 DEF SendAck
  <2>2. p \in DevPackets /\ toAcc' \in Seq(DevPackets)
    BY <2>1, TakeTypes DEF Take, LinkTypeOK
  <2>3. Ack(seq, p.seq) \in AccPackets
    BY <2>2, DevPacketFields, AccPacketTypes, LinkAssumption DEF LinkTypeOK
  <2>4. toDev' \in Seq(AccPackets)
    BY <2>1, <2>3, PutTypes DEF LinkTypeOK
  <2>5. pending' \in Seq(DevPackets)
    BY <2>1, <2>2, QueueTypes DEF LinkTypeOK
  <2>6. pc' \in {"idle", "down", pc} /\ outcome' \in {"ok", "Io", outcome}
    BY <2>1 DEF SendFails
  <2> QED
    BY <1>2, <2>1, <2>2, <2>4, <2>5, <2>6, DevPacketFields
    DEF SendAck, LinkTypeOK
<1>3. CASE SendEak
  <2> DEFINE gap(p) == IF ReportsGap(p) THEN Put(toDev, Retransmitted(p))
                                        ELSE toDev
  <2>1. PICK p \in Incoming :
          /\ Take
          /\ \/ /\ toDev' = IF seq = 0 THEN toDev ELSE gap(p)
                /\ pc' = "panic"
                /\ UNCHANGED <<seq, ack, outcome>>
             \/ /\ ack' = p.seq /\ seq' = Succ(seq)
                /\ toDev' = Put(gap(p), Ack(seq', p.seq))
                /\ \E ok \in Written :
                     IF ok THEN UNCHANGED <<pc, outcome>> ELSE SendFails("Io")
             \/ SendFails("Io") /\ UNCHANGED <<seq, ack, toDev>>
    BY <1>3 DEF SendEak
  <2>2. p \in DevPackets /\ toAcc' \in Seq(DevPackets)
    BY <2>1, TakeTypes DEF Take, LinkTypeOK
  <2>3. gap(p) \in Seq(AccPackets)
    <3>1. CASE ReportsGap(p)
      <4>0. seq - 1 \in Int
        BY MAssumption DEF LinkTypeOK, Seqs
      <4>1. PICK x \in Seqs : p.ack < x
        BY <3>1, <4>0, SeqTypes DEF ReportsGap
      <4>2. p.ack + 1 \in Seqs
        BY <4>1, <2>2, DevPacketFields, MAssumption DEF Seqs
      <4>3. Retransmitted(p) \in AccPackets
        BY <4>2, <2>2, DevPacketFields, AccPacketTypes, LinkAssumption
        DEF Retransmitted
      <4> QED
        BY <3>1, <4>3, PutTypes DEF LinkTypeOK
    <3>2. CASE ~ ReportsGap(p)
      BY <3>2 DEF LinkTypeOK
    <3> QED
      BY <3>1, <3>2
  <2> HIDE DEF gap
  <2>4. seq' \in Seqs /\ ack' \in Seqs
    BY <2>1, <2>2, SeqTypes, DevPacketFields DEF LinkTypeOK
  <2>5. toDev' \in Seq(AccPackets)
    <3>1. CASE toDev' = IF seq = 0 THEN toDev ELSE gap(p)
      BY <3>1, <2>3 DEF LinkTypeOK
    <3>2. CASE ack' = p.seq /\ toDev' = Put(gap(p), Ack(seq', p.seq))
      <4>1. Ack(seq', p.seq) \in AccPackets
        BY <2>4, <2>2, DevPacketFields, AccPacketTypes, LinkAssumption
      <4>2. Put(gap(p), Ack(seq', p.seq)) \in Seq(AccPackets)
        BY <4>1, <2>3, PutTypes
      <4> QED
        BY <3>2, <4>2
    <3>3. CASE UNCHANGED toDev
      BY <3>3 DEF LinkTypeOK
    <3> QED
      BY <2>1, <3>1, <3>2, <3>3
  <2>6. pc' \in {"idle", "down", "panic", pc} /\ outcome' \in {"Io", outcome}
    BY <2>1 DEF SendFails
  <2> QED
    BY <1>3, <2>2, <2>4, <2>5, <2>6 DEF SendEak, LinkTypeOK
<1>4. CASE SendUnexpected
  <2>1. toAcc' \in Seq(DevPackets)
    BY <1>4, TakeTypes DEF SendUnexpected, Take, LinkTypeOK
  <2> QED
    BY <1>4, <2>1 DEF SendUnexpected, SendFails, LinkTypeOK
<1>5. CASE SendTimeout
  BY <1>5 DEF SendTimeout, SendFails, LinkTypeOK
<1>6. CASE SendClosed
  BY <1>6 DEF SendClosed, SendFails, LinkTypeOK
<1> QED
  BY <1>1, <1>2, <1>3, <1>4, <1>5, <1>6 DEF SendData

(* One step per action of the retransmitting send. *)
LEMMA ResendTypes == LinkTypeOK /\ ResendData => LinkTypeOK'
<1> SUFFICES ASSUME LinkTypeOK, ResendData PROVE LinkTypeOK'
  OBVIOUS
<1> USE DEF link, call, history, net
<1>1. CASE ResendStart
  <2>1. nSent' \in 0 .. MaxSend
    BY <1>1, LinkAssumption DEF ResendStart, LinkTypeOK
  <2>2. out' \in AccPackets
    BY <1>1, <2>1, AccPacketTypes DEF ResendStart, LinkTypeOK
  <2>3. toDev' \in Seq(AccPackets)
    BY <1>1, <2>2, PutTypes DEF ResendStart, LinkTypeOK
  <2>4. seq' \in Seqs /\ tries' \in Nat /\ pc' \in {"resend", "down"}
    BY <1>1, SeqTypes DEF ResendStart, LinkTypeOK
  <2> QED
    BY <1>1, <2>1, <2>2, <2>3, <2>4 DEF ResendStart, LinkTypeOK
<1>2. CASE AnswerSkipped
  BY <1>2 DEF AnswerSkipped, LinkTypeOK
<1>3. CASE ResendMessage
  <2>1. PICK p \in Incoming :
          /\ Take /\ ack' = p.seq
          /\ IF p.pay \in Challenges THEN UNCHANGED pending ELSE Queue(p)
          /\ toDev' = Put(toDev, Ack(seq, p.seq))
    BY <1>3 DEF ResendMessage
  <2>2. p \in DevPackets /\ toAcc' \in Seq(DevPackets)
    BY <2>1, TakeTypes DEF Take, LinkTypeOK
  <2>3. Ack(seq, p.seq) \in AccPackets
    BY <2>2, DevPacketFields, AccPacketTypes, LinkAssumption DEF LinkTypeOK
  <2>4. toDev' \in Seq(AccPackets)
    BY <2>1, <2>3, PutTypes DEF LinkTypeOK
  <2>5. pending' \in Seq(DevPackets)
    BY <2>1, <2>2, QueueTypes DEF LinkTypeOK
  <2>6. pc' \in {"idle", "down", pc} /\ outcome' \in {"ok", "Io", outcome}
    BY <1>3 DEF ResendMessage
  <2> QED
    BY <1>3, <2>1, <2>2, <2>4, <2>5, <2>6, DevPacketFields
    DEF ResendMessage, LinkTypeOK
<1>4. CASE ResendAck
  <2>1. PICK p \in Incoming : Take /\ ack' = p.seq
    BY <1>4 DEF ResendAck
  <2>2. p \in DevPackets /\ toAcc' \in Seq(DevPackets)
    BY <2>1, TakeTypes DEF Take, LinkTypeOK
  <2>3. pc' \in {"idle", pc} /\ outcome' \in {"ok", outcome}
    BY <1>4 DEF ResendAck
  <2> QED
    BY <1>4, <2>1, <2>2, <2>3, DevPacketFields DEF ResendAck, LinkTypeOK
<1>5. CASE ResendOther
  <2>1. PICK p \in Incoming : Take /\ ack' \in {p.seq, ack}
    BY <1>5 DEF ResendOther
  <2>2. p \in DevPackets /\ toAcc' \in Seq(DevPackets)
    BY <2>1, TakeTypes DEF Take, LinkTypeOK
  <2> QED
    BY <1>5, <2>1, <2>2, DevPacketFields DEF ResendOther, LinkTypeOK
<1>6. CASE ResendTimeout
  <2>1. toDev' \in Seq(AccPackets)
    BY <1>6, PutTypes DEF ResendTimeout, Resent, LinkTypeOK
  <2>2. /\ tries' \in Nat /\ pc' \in {"down", pc}
        /\ outcome' \in {"Timeout", "Io", outcome}
    BY <1>6 DEF ResendTimeout, LinkTypeOK
  <2> QED
    BY <1>6, <2>1, <2>2 DEF ResendTimeout, LinkTypeOK
<1>7. CASE ResendAborted
  <2>1. outcome' \in {"Timeout", "Io"}
    BY <1>7 DEF ResendAborted
  <2> QED
    BY <1>7, <2>1 DEF ResendAborted, LinkTypeOK
<1> QED
  BY <1>1, <1>2, <1>3, <1>4, <1>5, <1>6, <1>7 DEF ResendData

-----------------------------------------------------------------------------
(* The device                                                              *)

LEMMA DeviceSeqTypes ==
  ASSUME DeviceTypeOK
  PROVE  /\ \A n \in Nat : SeqOf(n) \in Seqs
         /\ BareSeq \in Seqs
         /\ \A s \in Seqs : DevAckOf(s) \in Seqs
<1>1. \A n \in Nat : DevInit + n \in Int
  BY LinkSystemAssumption, MAssumption DEF Seqs
<1>2. \A n \in Nat : SeqOf(n) \in Seqs
  BY <1>1, SeqTypes DEF SeqOf
<1>3. conv.seqLead \in {0, 1} /\ conv.ackLead \in {0, 1}
  BY LinkSystemAssumption DEF DeviceTypeOK, Conventions
<1>4. dSent + conv.seqLead \in Nat
  BY <1>3, LinkSystemAssumption DEF DeviceTypeOK
<1>5. \A s \in Seqs : s + conv.ackLead \in Int
  BY <1>3, MAssumption DEF Seqs
<1> QED
  BY <1>2, <1>4, <1>5, SeqTypes DEF BareSeq, DevAckOf

LEMMA DevicePacketTypes ==
  ASSUME DeviceTypeOK, NEW s \in Seqs
  PROVE  /\ \A n \in 0 .. MaxData : Message(n, s) \in DevPackets
         /\ \A k \in {"Ack", "Eak"}, e \in Seqs : Bare(k, s, e) \in DevPackets
         /\ DevPacket("SynAck", SeqOf(0), s, 0, 0, 0) \in DevPackets
<1>1. 0 \in 0 .. MaxData /\ 0 \in Seqs
  BY LinkSystemAssumption, SeqTypes
<1>2. conv.kind \in {"Ack", "Data"}
  BY LinkSystemAssumption DEF DeviceTypeOK, Conventions
<1>3. \A n \in 0 .. MaxData : SeqOf(n) \in Seqs
  BY DeviceSeqTypes, LinkSystemAssumption
<1>4. DevAckOf(s) \in Seqs /\ BareSeq \in Seqs
  BY DeviceSeqTypes
<1>5. dSent \in 0 .. MaxData
  BY DEF DeviceTypeOK
<1>6. \A n \in 0 .. MaxData : Message(n, s) \in DevPackets
  BY <1>1, <1>2, <1>3, <1>4 DEF Message, DevPacket, DevPackets
<1>7. \A k \in {"Ack", "Eak"}, e \in Seqs : Bare(k, s, e) \in DevPackets
  BY <1>1, <1>4, <1>5 DEF Bare, DevPacket, DevPackets
<1>8. DevPacket("SynAck", SeqOf(0), s, 0, 0, 0) \in DevPackets
  BY <1>1, <1>3 DEF DevPacket, DevPackets
<1> QED
  BY <1>6, <1>7, <1>8

LEMMA ArrivingTypes ==
  ASSUME LinkTypeOK, NEW p \in Arriving
  PROVE  /\ toDev # <<>> /\ p = Head(toDev)
         /\ p \in AccPackets /\ Tail(toDev) \in Seq(AccPackets)
         /\ p.seq \in Seqs /\ p.pay \in 0 .. MaxSend
<1>1. /\ toDev # <<>> /\ p = Head(toDev)
      /\ p \in AccPackets /\ Tail(toDev) \in Seq(AccPackets)
  BY DEF Arriving, LinkTypeOK
<1> QED
  BY <1>1 DEF AccPackets

LEMMA DevSendsTypes ==
  ASSUME toAcc \in Seq(DevPackets), NEW p \in DevPackets, DevSends(p)
  PROVE  toAcc' \in Seq(DevPackets)
BY DEF DevSends

(* The device learns of no more messages than it sent. *)
LEMMA AckedByTypes ==
  ASSUME DeviceTypeOK, NEW p
  PROVE  AckedBy(p) \in 0 .. MaxData
<1>1. dAcked .. dSent \subseteq 0 .. MaxData
  BY LinkSystemAssumption DEF DeviceTypeOK
<1>2. AckedBy(p) \in {dAcked} \cup (dAcked .. dSent)
  BY DEF AckedBy
<1> QED
  BY <1>1, <1>2 DEF DeviceTypeOK

LEMMA DeviceTypes == TypeOK /\ (Device \/ Faults \/ Close) => TypeOK'
<1> SUFFICES ASSUME LinkTypeOK, DeviceTypeOK, Device \/ Faults \/ Close
             PROVE  LinkTypeOK' /\ DeviceTypeOK'
  BY DEF TypeOK, LinkTypeOK, DeviceTypeOK
<1> USE DEF link, call, history, device, linkVars, net
<1>0. /\ \A p \in DevPackets : Append(toAcc, p) \in Seq(DevPackets)
      /\ toDev # <<>> => Tail(toDev) \in Seq(AccPackets)
      /\ toAcc # <<>> => Tail(toAcc) \in Seq(DevPackets)
  <2>1. toAcc \in Seq(DevPackets) /\ toDev \in Seq(AccPackets)
    BY DEF LinkTypeOK
  <2>2. \A p \in DevPackets : Append(toAcc, p) \in Seq(DevPackets)
    BY <2>1
  <2>3. toDev # <<>> => Tail(toDev) \in Seq(AccPackets)
    BY <2>1
  <2>4. toAcc # <<>> => Tail(toAcc) \in Seq(DevPackets)
    BY <2>1
  <2> QED
    BY <2>2, <2>3, <2>4
<1>1. CASE DevStray
  <2>1. DevPacket("Detect", 0, 0, 0, 0, 0) \in DevPackets
    <3>1. 0 \in 0 .. MaxData /\ 0 \in Seqs
      BY LinkSystemAssumption, SeqTypes
    <3> QED
      BY <3>1 DEF DevPacket, DevPackets
  <2>2. toAcc' \in Seq(DevPackets)
    BY <1>1, <2>1, DevSendsTypes DEF DevStray, LinkTypeOK
  <2> QED
    BY <1>1, <2>2 DEF DevStray, LinkTypeOK, DeviceTypeOK
<1>2. CASE DevDetect
  BY <1>2, <1>0 DEF DevDetect, DevReads, LinkTypeOK, DeviceTypeOK
<1>3. CASE DevSyn
  <2>1. PICK p \in Arriving :
          /\ DevReads(p) /\ dState' = "synced" /\ dLast' = p.seq
          /\ DevSends(DevPacket("SynAck", SeqOf(0), p.seq, 0, 0, 0))
    BY <1>3 DEF DevSyn
  <2>2. DevPacket("SynAck", SeqOf(0), p.seq, 0, 0, 0) \in DevPackets
    BY <2>1, ArrivingTypes, DevicePacketTypes
  <2> QED
    BY <1>3, <1>0, <2>1, <2>2, ArrivingTypes
    DEF DevSyn, DevReads, DevSends, LinkTypeOK, DeviceTypeOK
<1>4. CASE DevEstablished
  BY <1>4 DEF DevEstablished, LinkTypeOK, DeviceTypeOK
<1>5. CASE DevAcked
  <2>1. PICK p \in Arriving : DevReads(p) /\ dAcked' = AckedBy(p)
    BY <1>5 DEF DevAcked
  <2> QED
    BY <1>5, <1>0, <2>1, AckedByTypes
    DEF DevAcked, DevReads, LinkTypeOK, DeviceTypeOK
<1>6. CASE DevTake
  <2>1. PICK p \in Arriving :
          /\ DevReads(p)
          /\ dLast' = p.seq /\ dGot' = Append(dGot, p.pay) /\ dAcked' = AckedBy(p)
          /\ \/ DevSends(Bare("Ack", p.seq, 0)) /\ UNCHANGED dSent
             \/ /\ dSent < MaxData
                /\ dSent' = dSent + 1
                /\ DevSends(Message(dSent + 1, p.seq))
    BY <1>6 DEF DevTake
  <2>2. p.seq \in Seqs /\ p.pay \in 0 .. MaxSend
    BY <2>1, ArrivingTypes
  <2>3. Bare("Ack", p.seq, 0) \in DevPackets
    BY <2>2, DevicePacketTypes, SeqTypes
  <2>4. dSent < MaxData => dSent + 1 \in 0 .. MaxData
    BY LinkSystemAssumption DEF DeviceTypeOK
  <2>5. dSent < MaxData => Message(dSent + 1, p.seq) \in DevPackets
    BY <2>2, <2>4, DevicePacketTypes
  <2>6. toAcc' \in Seq(DevPackets) /\ dSent' \in 0 .. MaxData
    BY <1>0, <2>1, <2>3, <2>4, <2>5 DEF DevSends, DeviceTypeOK
  <2>7. dGot' \in Seq(0 .. MaxSend) /\ dAcked' \in 0 .. MaxData /\ dLast' \in Seqs
    BY <2>1, <2>2, AckedByTypes DEF DeviceTypeOK
  <2> QED
    BY <1>6, <1>0, <2>1, <2>6, <2>7 DEF DevTake, DevReads, LinkTypeOK, DeviceTypeOK
<1>7. CASE DevOld
  <2>1. PICK p \in Arriving :
          DevReads(p) /\ dAcked' = AckedBy(p) /\ DevSends(Bare("Ack", dLast, 0))
    BY <1>7 DEF DevOld
  <2>2. Bare("Ack", dLast, 0) \in DevPackets
    BY DevicePacketTypes, SeqTypes DEF DeviceTypeOK
  <2> QED
    BY <1>7, <1>0, <2>1, <2>2, AckedByTypes
    DEF DevOld, DevReads, DevSends, LinkTypeOK, DeviceTypeOK
<1>8. CASE DevGap
  <2>1. PICK p \in Arriving :
          /\ DevReads(p) /\ dAcked' = AckedBy(p)
          /\ \E e \in {p.seq, Succ(p.seq)} : DevSends(Bare("Eak", dLast, e))
    BY <1>8 DEF DevGap
  <2>2. \A e \in {p.seq, Succ(p.seq)} : Bare("Eak", dLast, e) \in DevPackets
    BY <2>1, ArrivingTypes, DevicePacketTypes, SeqTypes DEF DeviceTypeOK
  <2> QED
    BY <1>8, <1>0, <2>1, <2>2, AckedByTypes
    DEF DevGap, DevReads, DevSends, LinkTypeOK, DeviceTypeOK
<1>9. CASE DevSend
  <2>1. dSent + 1 \in 0 .. MaxData
    BY <1>9, LinkSystemAssumption DEF DevSend, DeviceTypeOK
  <2>2. Message(dSent + 1, dLast) \in DevPackets
    BY <2>1, DevicePacketTypes DEF DeviceTypeOK
  <2> QED
    BY <1>9, <1>0, <2>1, <2>2 DEF DevSend, DevSends, LinkTypeOK, DeviceTypeOK
<1>10. CASE Close
  BY <1>10 DEF Close, LinkTypeOK, DeviceTypeOK
<1>11. CASE DevResend
  <2>1. \A n \in dAcked + 1 .. dSent : n \in 0 .. MaxData
    BY LinkSystemAssumption DEF DeviceTypeOK
  <2>2. \A n \in dAcked + 1 .. dSent : Message(n, dLast) \in DevPackets
    BY <2>1, DevicePacketTypes DEF DeviceTypeOK
  <2> QED
    BY <1>11, <1>0, <2>2 DEF DevResend, DevSends, LinkTypeOK, DeviceTypeOK
<1>12. CASE LoseToAcc
  BY <1>12, <1>0 DEF LoseToAcc, LinkTypeOK, DeviceTypeOK
<1>13. CASE LoseToDev
  BY <1>13, <1>0 DEF LoseToDev, LinkTypeOK, DeviceTypeOK
<1> QED
  BY <1>1, <1>2, <1>3, <1>4, <1>5, <1>6, <1>7, <1>8, <1>9, <1>10, <1>11, <1>12,
     <1>13 DEF Device, Faults

-----------------------------------------------------------------------------
LEMMA StepTypes == TypeOK /\ [AnyNext]_vars => TypeOK'
<1> SUFFICES ASSUME TypeOK, [AnyNext]_vars PROVE TypeOK'
  OBVIOUS
<1>1. CASE Accessory
  <2>1. LinkTypeOK'
    BY <1>1, TypeParts, NegotiateTypes, ReceiveTypes, SendTypes, ResendTypes
    DEF Accessory
  <2>2. DeviceTypeOK'
    BY <1>1, TypeParts DEF Accessory, device, DeviceTypeOK
  <2> QED
    BY <2>1, <2>2, TypeParts DEF TypeOK, LinkTypeOK, DeviceTypeOK
<1>2. CASE Device \/ Faults \/ Close
  BY <1>2, DeviceTypes
<1>3. CASE Cancel
  <2>1. LinkTypeOK'
    BY <1>3, TypeParts, CancelTypes DEF Cancel
  <2>2. DeviceTypeOK'
    BY <1>3, TypeParts DEF Cancel, device, DeviceTypeOK
  <2> QED
    BY <2>1, <2>2 DEF TypeOK, LinkTypeOK, DeviceTypeOK
<1>4. CASE UNCHANGED vars
  BY <1>4 DEF TypeOK, vars, linkVars, link, call, history, net, device
<1> QED
  BY <1>1, <1>2, <1>3, <1>4 DEF AnyNext, Next

(* Type correctness of the link and its peer, with every loss,             *)
(* retransmission and cancellation allowed.                                *)
THEOREM TypeCorrect == AnySpec => []TypeOK
<1> QED
  BY InitTypes, StepTypes, PTL DEF AnySpec

-----------------------------------------------------------------------------
(* Numbers                                                                 *)

LEMMA SeqOfSucc ==
  ASSUME NEW n \in Nat
  PROVE  Succ(SeqOf(n)) = SeqOf(n + 1)
<1>1. DevInit + n \in Nat /\ DevInit + (n + 1) = (DevInit + n) + 1
  BY LinkSystemAssumption, MAssumption DEF Seqs
<1> QED
  BY <1>1, SuccMod DEF SeqOf

LEMMA SeqOfDistinct ==
  ASSUME NEW m \in Nat, NEW n \in Nat, m < n, n < m + M
  PROVE  SeqOf(m) # SeqOf(n)
<1>1. DevInit \in Nat
  BY LinkSystemAssumption, MAssumption DEF Seqs
<1>2. PICK a \in Nat, b \in Nat : a = DevInit + m /\ b = DevInit + n
  BY <1>1
<1>3. a < b /\ b < a + M
  BY <1>1, <1>2, MAssumption
<1> QED
  BY <1>2, <1>3, ModDistinct DEF SeqOf

LEMMA GotType ==
  ASSUME LinkTypeOK
  PROVE  /\ Got \in Nat
         /\ Len(delivered) \in Nat /\ Len(pending) \in Nat
         /\ Payload(held) \in {0, 1}
<1>1. Len(delivered) \in Nat /\ Len(pending) \in Nat
  BY DEF LinkTypeOK
<1> QED
  BY <1>1 DEF Got, Payload

-----------------------------------------------------------------------------
(* The packets in flight                                                   *)

LEMMA ChainTail ==
  ASSUME NEW q \in Seq(DevPackets), q # <<>>, NEW g \in Nat, NEW n,
         Chain(q, g, n)
  PROVE  /\ q[1].n = g + Payload(q[1])
         /\ Chain(Tail(q), q[1].n, n)
<1> DEFINE t == Tail(q)
<1>1. /\ Len(q) \in Nat /\ Len(q) >= 1 /\ Len(t) = Len(q) - 1
      /\ t \in Seq(DevPackets)
      /\ \A i \in 1 .. Len(t) : t[i] = q[i + 1]
  OBVIOUS
<1> HIDE DEF t
<1>2. \A i \in 1 .. Len(q) :
        q[i].n = (IF i = 1 THEN g ELSE q[i - 1].n) + Payload(q[i])
  BY DEF Chain
<1>3. q[1].n = g + Payload(q[1])
  <2>1. 1 \in 1 .. Len(q)
    BY <1>1
  <2> QED
    BY <1>2, <2>1
<1>4. ASSUME NEW i \in 1 .. Len(t)
      PROVE  t[i].n = (IF i = 1 THEN q[1].n ELSE t[i - 1].n) + Payload(t[i])
  <2>1. i + 1 \in 1 .. Len(q) /\ i + 1 # 1 /\ (i + 1) - 1 = i
    BY <1>1
  <2>2. q[i + 1].n = q[i].n + Payload(q[i + 1])
    BY <1>2, <2>1
  <2>3. t[i] = q[i + 1]
    BY <1>1
  <2>4. i # 1 => t[i - 1] = q[i]
    <3>1. i # 1 => i - 1 \in 1 .. Len(t) /\ (i - 1) + 1 = i
      BY <1>1
    <3> QED
      BY <3>1, <1>1
  <2> QED
    BY <2>2, <2>3, <2>4
<1>5. n = IF t = <<>> THEN q[1].n ELSE t[Len(t)].n
  <2>1. n = q[Len(q)].n
    BY DEF Chain
  <2>2. CASE t = <<>>
    <3>1. Len(t) = 0
      BY <2>2
    <3>2. Len(q) = 1
      BY <3>1, <1>1
    <3> QED
      BY <2>1, <2>2, <3>2
  <2>3. CASE t # <<>>
    <3>1. Len(t) # 0
      BY <2>3, <1>1
    <3>2. Len(t) \in 1 .. Len(t) /\ Len(t) + 1 = Len(q)
      BY <3>1, <1>1
    <3>3. t[Len(t)] = q[Len(q)]
      BY <3>2, <1>1
    <3> QED
      BY <2>1, <2>3, <3>3
  <2> QED
    BY <2>2, <2>3
<1> QED
  BY <1>3, <1>4, <1>5 DEF Chain, t

LEMMA ChainAppend ==
  ASSUME NEW q \in Seq(DevPackets), NEW g, NEW n, NEW p \in DevPackets,
         Chain(q, g, n), p.n = n + Payload(p)
  PROVE  Chain(Append(q, p), g, p.n)
<1> DEFINE a == Append(q, p)
<1>1. /\ Len(q) \in Nat /\ Len(a) = Len(q) + 1 /\ a # <<>>
      /\ \A i \in 1 .. Len(q) : a[i] = q[i]
      /\ a[Len(q) + 1] = p
  OBVIOUS
<1> HIDE DEF a
<1>2. ASSUME NEW i \in 1 .. Len(a)
      PROVE  a[i].n = (IF i = 1 THEN g ELSE a[i - 1].n) + Payload(a[i])
  <2>1. CASE i \in 1 .. Len(q)
    <3>1. q[i].n = (IF i = 1 THEN g ELSE q[i - 1].n) + Payload(q[i])
      BY <2>1 DEF Chain
    <3>2. i # 1 => i - 1 \in 1 .. Len(q)
      BY <2>1, <1>1
    <3> QED
      BY <2>1, <3>1, <3>2, <1>1
  <2>2. CASE i = Len(q) + 1
    <3>1. CASE q = <<>>
      <4>1. Len(q) = 0
        BY <3>1
      <4>2. i = 1 /\ n = g
        BY <4>1, <2>2, <3>1 DEF Chain
      <4> QED
        BY <4>2, <2>2, <1>1
    <3>2. CASE q # <<>>
      <4>1. Len(q) # 0
        BY <3>2
      <4>2. i # 1 /\ i - 1 = Len(q) /\ Len(q) \in 1 .. Len(q)
        BY <4>1, <2>2, <1>1
      <4>3. a[i - 1].n = n
        BY <4>2, <3>2, <1>1 DEF Chain
      <4> QED
        BY <4>2, <4>3, <2>2, <1>1
    <3> QED
      BY <3>1, <3>2
  <2> QED
    BY <2>1, <2>2, <1>1
<1> QED
  BY <1>1, <1>2 DEF Chain, a

(* The packet at the head counts on from what was read. *)
LEMMA HeadCounts ==
  ASSUME LinkTypeOK, InFlightInOrder, AllNumbered, NEW p \in Incoming
  PROVE  /\ p.n = Got + Payload(p)
         /\ Numbered(p)
         /\ \E i \in 1 .. Len(toAcc) : p = toAcc[i]
<1>1. toAcc \in Seq(DevPackets) /\ toAcc # <<>> /\ p = toAcc[1]
  BY DEF Incoming, LinkTypeOK
<1>2. 1 \in 1 .. Len(toAcc)
  BY <1>1
<1>3. p.n = Got + Payload(p)
  BY <1>1, ChainTail, GotType DEF InFlightInOrder
<1> QED
  BY <1>1, <1>2, <1>3 DEF AllNumbered

LEMMA TakeInOrder ==
  ASSUME LinkTypeOK, InFlightInOrder, NEW p \in Incoming, Take,
         Got' = Got + Payload(p), UNCHANGED dSent
  PROVE  InFlightInOrder'
<1>1. /\ toAcc \in Seq(DevPackets) /\ toAcc # <<>> /\ p = toAcc[1]
      /\ toAcc' = Tail(toAcc)
  BY DEF Incoming, Take, LinkTypeOK
<1>2. /\ toAcc[1].n = Got + Payload(p)
      /\ Chain(Tail(toAcc), toAcc[1].n, dSent)
  BY <1>1, ChainTail, GotType DEF InFlightInOrder
<1>3. Chain(toAcc', Got', dSent')
  BY <1>1, <1>2
<1> QED
  BY <1>3 DEF InFlightInOrder

LEMMA AppendInOrder ==
  ASSUME LinkTypeOK, InFlightInOrder, NEW p \in DevPackets,
         toAcc' = Append(toAcc, p), p.n = dSent + Payload(p), dSent' = p.n,
         Got' = Got
  PROVE  InFlightInOrder'
<1>1. Chain(Append(toAcc, p), Got, p.n)
  BY ChainAppend DEF InFlightInOrder, LinkTypeOK
<1>2. Chain(toAcc', Got', dSent')
  BY <1>1
<1> QED
  BY <1>2 DEF InFlightInOrder

LEMMA SameInOrder ==
  ASSUME InFlightInOrder, UNCHANGED <<toAcc, dSent>>, Got' = Got
  PROVE  InFlightInOrder'
<1>1. Chain(toAcc', Got', dSent')
  BY DEF InFlightInOrder
<1> QED
  BY <1>1 DEF InFlightInOrder

(* What a step of the accessory does to the stream leaves the packets      *)
(* numbered and the device as it is.                                       *)
LEMMA AccessoryFrame ==
  ASSUME LinkTypeOK, DeviceQuiet, AllNumbered, UNCHANGED device,
         toAcc' = toAcc \/ (toAcc # <<>> /\ toAcc' = Tail(toAcc))
  PROVE  DeviceQuiet' /\ AllNumbered'
<1>1. toAcc \in Seq(DevPackets)
  BY DEF LinkTypeOK
<1>2. UNCHANGED <<conv, dState, dSent>>
  BY DEF device
<1>3. \A i \in 1 .. Len(toAcc') : \E j \in 1 .. Len(toAcc) : toAcc'[i] = toAcc[j]
  <2>1. CASE toAcc' = toAcc
    BY <2>1
  <2>2. CASE toAcc # <<>> /\ toAcc' = Tail(toAcc)
    <3>1. /\ Len(toAcc) \in Nat /\ Len(toAcc') = Len(toAcc) - 1
          /\ \A i \in 1 .. Len(toAcc') : toAcc'[i] = toAcc[i + 1]
      BY <1>1, <2>2
    <3>2. \A i \in 1 .. Len(toAcc') : i + 1 \in 1 .. Len(toAcc)
      BY <3>1
    <3> QED
      BY <3>1, <3>2
  <2> QED
    BY <2>1, <2>2
<1>4. DeviceQuiet'
  BY <1>2, <1>3 DEF DeviceQuiet
<1>5. AllNumbered'
  BY <1>2, <1>3 DEF AllNumbered, Numbered, SeqOf
<1> QED
  BY <1>4, <1>5

-----------------------------------------------------------------------------
(* What the invariant says of the packet that is read                      *)

LEMMA LeadType ==
  ASSUME DeviceTypeOK
  PROVE  conv.seqLead \in {0, 1}
BY LinkSystemAssumption DEF DeviceTypeOK, Conventions

LEMMA ReadMessage ==
  ASSUME LinkTypeOK, Inv, Running, NEW p \in Incoming, p.pay # 0
  PROVE  /\ p.kind = "Ack" /\ p.pay = Got + 1 /\ p.seq = SeqOf(Got + 1)
         /\ Payload(p) = 1 /\ pc \notin {"new", "syn"}
<1>1. p.n = Got + Payload(p) /\ Numbered(p)
  BY HeadCounts DEF Inv, RunningInv
<1>2. Payload(p) = 1
  BY DEF Payload
<1>3. pc \notin {"new", "syn"}
  BY HeadCounts DEF Inv, RunningInv, BeforeEstablished, DeviceQuiet
<1> QED
  BY <1>1, <1>2, <1>3 DEF Numbered

LEMMA ReadBare ==
  ASSUME LinkTypeOK, Inv, Running, NEW p \in Incoming, p.pay = 0
  PROVE  /\ Payload(p) = 0
         /\ p.kind \in {"Ack", "Eak"} => p.seq = SeqOf(Got + conv.seqLead)
         /\ p.kind = "SynAck" => p.seq = SeqOf(0)
<1>1. p.n = Got + Payload(p) /\ Numbered(p)
  BY HeadCounts DEF Inv, RunningInv
<1>2. Payload(p) = 0
  BY DEF Payload
<1>3. p.n = Got
  BY <1>1, <1>2, GotType
<1> QED
  BY <1>1, <1>2, <1>3 DEF Numbered

(* Whatever was read last, the next message is expected. *)
LEMMA MessageExpected ==
  ASSUME LinkTypeOK, DeviceTypeOK, Inv, Running, NEW p \in Incoming, p.pay # 0
  PROVE  HasMessage(p) /\ IsExpected(p)
<1>1. p.kind = "Ack" /\ p.seq = SeqOf(Got + 1)
  BY ReadMessage
<1>2. ack \in {SeqOf(Got), SeqOf(Got + 1)}
  <2>1. pc \notin {"new", "syn"}
    BY ReadMessage
  <2>2. conv.seqLead \in {0, 1} /\ Got + 0 = Got
    BY LeadType, GotType
  <2> QED
    BY <2>1, <2>2 DEF Inv, RunningInv, AckIsCurrent
<1>3. Succ(SeqOf(Got)) = SeqOf(Got + 1)
  BY SeqOfSucc, GotType
<1> QED
  BY <1>1, <1>2, <1>3 DEF HasMessage, IsExpected

-----------------------------------------------------------------------------
(* Steps that return, queue and read no message.                           *)

LEMMA QuietStep ==
  ASSUME TypeOK, Inv, Running, pc # "reply",
         UNCHANGED <<pending, rxBuffer, held, delivered, device>>,
         toAcc' = toAcc \/ (Take /\ \E p \in Incoming : p.pay = 0),
         pc' \notin {"new", "syn", "down", "panic"}
           => ack' \in {SeqOf(Got), SeqOf(Got + conv.seqLead)},
         pc' \in {"new", "syn"}
           => /\ pc \in {"new", "syn"}
              /\ \A i \in 1 .. Len(toDev') : toDev'[i].kind # "Ack",
         pc' \in {"answer", "resend"} => pc \in {"answer", "resend"}
  PROVE  Inv'
<1>0. LinkTypeOK /\ DeviceTypeOK
  BY TypeParts
<1>1. UNCHANGED <<conv, dState, dSent>>
  BY DEF device
<1>2. DeviceQuiet' /\ AllNumbered'
  BY <1>0, AccessoryFrame DEF Inv, Take, Incoming
<1>3. InOrder'
  BY DEF Inv, InOrder
<1>4. Got' = Got
  BY DEF Got, Payload
<1>5. InFlightInOrder'
  <2>1. CASE toAcc' = toAcc
    BY <2>1, <1>1, <1>4, SameInOrder DEF Inv, RunningInv
  <2>2. CASE Take /\ \E p \in Incoming : p.pay = 0
    <3>1. PICK p \in Incoming : p.pay = 0
      BY <2>2
    <3>2. Got' = Got + Payload(p)
      BY <1>0, <1>4, <3>1, GotType, ReadBare
    <3> QED
      BY <1>0, <1>1, <2>2, <3>2, TakeInOrder DEF Inv, RunningInv
  <2> QED
    BY <2>1, <2>2
<1>6. PendingInOrder' /\ rxBuffer' = {}
  BY DEF Inv, RunningInv, PendingInOrder, SeqOf
<1>7. HeldIsNext'
  BY DEF Inv, RunningInv, HeldIsNext
<1>8. AckIsCurrent' \/ ~ Running'
  BY <1>1, <1>4 DEF AckIsCurrent, SeqOf, Running
<1>9. BeforeEstablished'
  BY <1>1, <1>4 DEF Inv, RunningInv, BeforeEstablished
<1>10. ChallengeReturned'
  BY DEF Inv, RunningInv, ChallengeReturned
<1> QED
  BY <1>2, <1>3, <1>5, <1>6, <1>7, <1>8, <1>9, <1>10 DEF Inv, RunningInv

(* The acknowledgement number stays current when nothing is read. *)
LEMMA AckNow ==
  ASSUME Inv, Running, pc \notin {"new", "syn"}
  PROVE  ack \in {SeqOf(Got), SeqOf(Got + conv.seqLead)}
BY DEF Inv, RunningInv, AckIsCurrent

(* One step per action of negotiate. *)
LEMMA NegotiateOrder ==
  ASSUME TypeOK, Inv, Negotiate, UNCHANGED device
  PROVE  Inv'
<1> USE DEF link, call, history, net
<1>0. LinkTypeOK /\ DeviceTypeOK
  BY TypeParts
<1>1. Running /\ pc \in {"new", "syn"} /\ UNCHANGED <<pending, rxBuffer, held, delivered>>
  BY DEF Negotiate, NegotiateStart, SynAckOk, SynAckBad, SynTimeout, RetrySyn,
         Running
<1>2. \A p \in Incoming : p.pay = 0
  BY <1>0, <1>1, ReadMessage
<1>3. \A i \in 1 .. Len(toDev) : toDev[i].kind # "Ack"
  BY <1>1 DEF Inv, RunningInv, BeforeEstablished
<1>4. ASSUME NEW q \in Seq(AccPackets), NEW p \in AccPackets, p.kind # "Ack",
             \A i \in 1 .. Len(q) : q[i].kind # "Ack"
      PROVE  \A i \in 1 .. Len(Put(q, p)) : Put(q, p)[i].kind # "Ack"
  BY <1>4 DEF Put
<1>5. toDev \in Seq(AccPackets) /\ seq \in Seqs
  BY <1>0 DEF LinkTypeOK
<1>6. \A s \in Seqs : /\ Detect \in AccPackets /\ Detect.kind # "Ack"
                      /\ Syn(s) \in AccPackets /\ Syn(s).kind # "Ack"
  BY AccPacketTypes, LinkAssumption DEF Detect, Syn
<1>7. CASE NegotiateStart
  <2>1. Put(toDev, Detect) \in Seq(AccPackets)
    BY <1>5, <1>6, PutTypes
  <2>2. \A i \in 1 .. Len(Put(toDev, Detect)) : Put(toDev, Detect)[i].kind # "Ack"
    BY <1>3, <1>4, <1>5, <1>6
  <2>3. \A i \in 1 .. Len(toDev') : toDev'[i].kind # "Ack"
    BY <1>4, <1>6, <1>7, <2>1, <2>2, LinkAssumption DEF NegotiateStart
  <2>4. pc' \in {"syn", "down"}
    BY <1>7 DEF NegotiateStart
  <2>5. toAcc' = toAcc \/ (Take /\ \E p \in Incoming : p.pay = 0)
    BY <1>2, <1>7 DEF NegotiateStart, Take, Incoming
  <2> QED
    BY <1>1, <2>3, <2>4, <2>5, QuietStep
<1>8. ASSUME pc = "syn", RetrySyn, toAcc' = toAcc \/ (Take /\ Incoming # {})
      PROVE  Inv'
  <2>1. pc' \in {"syn", "down"}
    BY <1>8 DEF RetrySyn
  <2>2. \A i \in 1 .. Len(Put(toDev, Syn(seq))) : Put(toDev, Syn(seq))[i].kind # "Ack"
    BY <1>3, <1>4, <1>5, <1>6
  <2>3. \A i \in 1 .. Len(toDev') : toDev'[i].kind # "Ack"
    BY <1>3, <1>8, <2>2 DEF RetrySyn
  <2>4. toAcc' = toAcc \/ (Take /\ \E p \in Incoming : p.pay = 0)
    BY <1>2, <1>8
  <2> QED
    BY <1>1, <1>8, <2>1, <2>3, <2>4, QuietStep
<1>9. CASE SynAckOk
  <2>1. PICK p \in Incoming :
          /\ Take /\ IsSynAck(p) /\ ack' = p.seq /\ pc' \in {"idle", "down"}
    BY <1>9 DEF SynAckOk
  <2>2. p.pay = 0 /\ p.seq = SeqOf(0)
    BY <1>0, <1>1, <1>2, <2>1, ReadBare DEF IsSynAck
  <2>3. Got = 0
    BY <1>1 DEF Inv, RunningInv, BeforeEstablished
  <2> QED
    BY <1>1, <2>1, <2>2, <2>3, QuietStep
<1>10. CASE SynAckBad
  BY <1>8, <1>10 DEF SynAckBad
<1>11. CASE SynTimeout
  BY <1>8, <1>11 DEF SynTimeout
<1> QED
  BY <1>7, <1>9, <1>10, <1>11 DEF Negotiate

(* A message is read and put behind those that are queued. *)
LEMMA QueueStep ==
  ASSUME TypeOK, Inv, SmallBacklog, Running, pc # "reply",
         NEW p \in Incoming, p.pay # 0, Take, ack' = p.seq, Queue(p),
         UNCHANGED <<rxBuffer, held, delivered, device>>,
         pc' \in {pc, "idle", "down"}
  PROVE  Inv'
<1>0. LinkTypeOK /\ DeviceTypeOK
  BY TypeParts
<1>1. UNCHANGED <<conv, dState, dSent>>
  BY DEF device
<1>2. /\ p.pay = Got + 1 /\ p.seq = SeqOf(Got + 1) /\ Payload(p) = 1
      /\ pc \notin {"new", "syn"}
  BY <1>0, ReadMessage
<1>3. Payload(held) = 0 /\ held.pay = 0
  BY DEF Inv, RunningInv, HeldIsNext, Payload
<1>4. Got = Len(delivered) + Len(pending)
  BY <1>0, <1>3, GotType DEF Got
<1>5. \A i \in 1 .. Len(pending) : pending[i].seq # p.seq
  <2> SUFFICES ASSUME NEW i \in 1 .. Len(pending) PROVE pending[i].seq # p.seq
    OBVIOUS
  <2>1. pending[i].seq = SeqOf(Len(delivered) + i)
    BY DEF Inv, RunningInv, PendingInOrder
  <2>2. PICK m \in Nat, n \in Nat : m = Len(delivered) + i /\ n = Got + 1
    BY <1>0, GotType
  <2>3. m < n /\ n < m + M
    BY <1>0, <1>4, <2>2, GotType, MAssumption DEF SmallBacklog
  <2> QED
    BY <1>2, <2>1, <2>2, <2>3, SeqOfDistinct
<1>6. pending \in Seq(DevPackets) /\ p \in DevPackets
  BY <1>0, TakeTypes DEF LinkTypeOK
<1>7. DOMAIN pending = 1 .. Len(pending)
  BY <1>6
<1>8. pending' = Append(pending, p)
  BY <1>5, <1>7 DEF Queue
<1>9. /\ Len(pending') = Len(pending) + 1
      /\ \A i \in 1 .. Len(pending) : pending'[i] = pending[i]
      /\ pending'[Len(pending) + 1] = p
  BY <1>6, <1>8
<1>10. Got' = Got + 1
  BY <1>0, <1>3, <1>4, <1>9, GotType DEF Got, Payload
<1>11. DeviceQuiet' /\ AllNumbered'
  BY <1>0, AccessoryFrame DEF Inv, Take, Incoming
<1>12. InOrder'
  BY DEF Inv, InOrder
<1>13. InFlightInOrder'
  BY <1>0, <1>1, <1>2, <1>10, TakeInOrder DEF Inv, RunningInv
<1>14. PendingInOrder'
  <2> SUFFICES ASSUME NEW i \in 1 .. Len(pending')
               PROVE  /\ pending'[i].pay = Len(delivered) + i
                      /\ pending'[i].seq = SeqOf(Len(delivered) + i)
    BY DEF PendingInOrder, SeqOf
  <2>1. CASE i \in 1 .. Len(pending)
    BY <2>1, <1>9 DEF Inv, RunningInv, PendingInOrder
  <2>2. CASE i = Len(pending) + 1
    <3>1. Len(delivered) + i = Got + 1
      BY <2>2, <1>0, <1>4, GotType
    <3> QED
      BY <3>1, <2>2, <1>2, <1>9
  <2> QED
    BY <2>1, <2>2, <1>0, <1>9, GotType
<1>15. HeldIsNext'
  BY <1>3 DEF Inv, RunningInv, HeldIsNext
<1>16. AckIsCurrent'
  BY <1>2, <1>10 DEF AckIsCurrent, SeqOf
<1>17. BeforeEstablished'
  BY <1>2 DEF BeforeEstablished
<1>18. ChallengeReturned'
  BY DEF Inv, RunningInv, ChallengeReturned
<1>19. rxBuffer' = {} \/ ~ Running'
  BY DEF Inv, RunningInv
<1> QED
  BY <1>11, <1>12, <1>13, <1>14, <1>15, <1>16, <1>17, <1>18, <1>19
  DEF Inv, RunningInv

LEMMA SendOrder ==
  ASSUME TypeOK, Inv, SmallBacklog, SendData, UNCHANGED device
  PROVE  Inv'
<1> USE DEF link, call, history, net
<1>0. LinkTypeOK /\ DeviceTypeOK
  BY TypeParts
<1>1. /\ Running /\ pc \in {"idle", "send"}
      /\ pc' \in {"idle", "send", "down", "panic"}
      /\ UNCHANGED <<rxBuffer, held, delivered>>
  BY DEF SendData, SendStart, MaySend, SendAck, SendEak, SendUnexpected,
         SendTimeout, SendClosed, SendFails, Running
<1>2. ack \in {SeqOf(Got), SeqOf(Got + conv.seqLead)}
  BY <1>1, AckNow
<1>3. CASE SendStart
  <2>1. UNCHANGED <<ack, toAcc, pending>>
    BY <1>3 DEF SendStart
  <2> QED
    BY <1>1, <1>2, <2>1, QuietStep
<1>4. CASE SendAck
  <2>1. PICK p \in Incoming :
          /\ Take /\ p.kind = "Ack" /\ ack' = p.seq
          /\ IF p.pay = 0 THEN UNCHANGED pending ELSE Queue(p)
    BY <1>4 DEF SendAck
  <2>2. CASE p.pay = 0
    <3>1. ack' = SeqOf(Got + conv.seqLead)
      BY <1>0, <1>1, <2>1, <2>2, ReadBare
    <3> QED
      BY <1>1, <2>1, <2>2, <3>1, QuietStep
  <2>3. CASE p.pay # 0
    <3>1. pc' \in {pc, "idle", "down"}
      BY <1>4 DEF SendAck, SendFails
    <3> QED
      BY <1>1, <2>1, <2>3, <3>1, QueueStep
  <2> QED
    BY <2>2, <2>3
<1>5. CASE SendEak
  <2>1. PICK p \in Incoming :
          /\ Take /\ p.kind = "Eak"
          /\ ack' \in {p.seq, ack} \/ pc' = "panic"
    BY <1>5 DEF SendEak
  <2>2. p.pay = 0
    BY <1>0, <1>1, <2>1, ReadMessage
  <2>3. UNCHANGED pending
    BY <1>5 DEF SendEak
  <2>4. ack' \in {SeqOf(Got + conv.seqLead), ack} \/ pc' = "panic"
    BY <1>0, <1>1, <2>1, <2>2, ReadBare
  <2> QED
    BY <1>1, <1>2, <2>1, <2>2, <2>3, <2>4, QuietStep
<1>6. CASE SendUnexpected
  <2>1. PICK p \in Incoming : Take /\ p.kind \notin {"Ack", "Eak"}
    BY <1>6 DEF SendUnexpected
  <2>2. p.pay = 0
    BY <1>0, <1>1, <2>1, ReadMessage
  <2>3. UNCHANGED <<ack, pending>>
    BY <1>6 DEF SendUnexpected
  <2> QED
    BY <1>1, <1>2, <2>1, <2>2, <2>3, QuietStep
<1>7. CASE SendTimeout \/ SendClosed
  <2>1. UNCHANGED <<ack, toAcc, pending>>
    BY <1>7 DEF SendTimeout, SendClosed
  <2> QED
    BY <1>1, <1>2, <2>1, QuietStep
<1> QED
  BY <1>3, <1>4, <1>5, <1>6, <1>7 DEF SendData

LEMMA ResendOrder ==
  ASSUME TypeOK, Inv, SmallBacklog, OrderedDevice, ResendData, UNCHANGED device
  PROVE  Inv'
<1> USE DEF link, call, history, net
<1>0. LinkTypeOK /\ DeviceTypeOK
  BY TypeParts
<1>1. /\ Running /\ pc \in {"answer", "resend"}
      /\ pc' \in {"idle", "resend", "down"}
      /\ UNCHANGED <<rxBuffer, held, delivered>>
  BY DEF ResendData, ResendStart, AnswerSkipped, ResendMessage, ResendAck,
         ResendOther, ResendTimeout, ResendAborted, Running
<1>2. ack \in {SeqOf(Got), SeqOf(Got + conv.seqLead)}
  BY <1>1, AckNow
<1>3. CASE ResendStart \/ AnswerSkipped \/ ResendTimeout \/ ResendAborted
  <2>1. UNCHANGED <<ack, toAcc, pending>>
    BY <1>3 DEF ResendStart, AnswerSkipped, ResendTimeout, ResendAborted
  <2> QED
    BY <1>1, <1>2, <2>1, QuietStep
<1>4. CASE ResendMessage
  <2>1. PICK p \in Incoming :
          /\ Take /\ HasMessage(p) /\ ack' = p.seq
          /\ IF p.pay \in Challenges THEN UNCHANGED pending ELSE Queue(p)
    BY <1>4 DEF ResendMessage
  <2>2. p.pay # 0 /\ p.pay = Got + 1
    BY <1>0, <1>1, <2>1, ReadMessage DEF HasMessage
  <2>3. p.pay \notin Challenges
    <3>1. PICK c \in Challenges : c <= Len(delivered)
      BY <1>1 DEF Inv, RunningInv, ChallengeReturned
    <3>2. c \in Nat /\ Len(delivered) <= Got
      BY <1>0, GotType, LinkAssumption DEF Got
    <3>3. c # p.pay
      BY <1>0, <2>2, <3>1, <3>2, GotType
    <3> QED
      BY <3>3 DEF OrderedDevice
  <2>4. pc' \in {pc, "idle", "down"}
    BY <1>4 DEF ResendMessage
  <2> QED
    BY <1>1, <2>1, <2>2, <2>3, <2>4, QueueStep
<1>5. CASE ResendAck \/ ResendOther
  <2>1. PICK p \in Incoming :
          /\ Take
          /\ p.kind = "Ack" => p.pay = 0
          /\ ack' = IF p.kind \in {"Ack", "Eak"} THEN p.seq ELSE ack
    BY <1>5 DEF ResendAck, ResendOther
  <2>2. p.pay = 0
    BY <1>0, <1>1, <2>1, ReadMessage
  <2>3. ack' \in {SeqOf(Got), SeqOf(Got + conv.seqLead)}
    BY <1>0, <1>1, <1>2, <2>1, <2>2, ReadBare
  <2>4. UNCHANGED pending
    BY <1>5 DEF ResendAck, ResendOther
  <2> QED
    BY <1>1, <2>1, <2>2, <2>3, <2>4, QuietStep
<1> QED
  BY <1>3, <1>4, <1>5 DEF ResendData

-----------------------------------------------------------------------------
(* receive_data                                                            *)

(* The message at the head of the queue is returned. *)
LEMMA PendingOrder ==
  ASSUME TypeOK, Inv, RecvPending, UNCHANGED device
  PROVE  Inv'
<1> USE DEF net
<1>0. LinkTypeOK /\ DeviceTypeOK
  BY TypeParts
<1>1. /\ pc = "idle" /\ Running /\ pending # <<>> /\ pending' = Tail(pending)
      /\ Deliver(Head(pending))
      /\ UNCHANGED <<ack, rxBuffer, held, toAcc, toDev>>
  BY DEF RecvPending, Running
<1>2. pending \in Seq(DevPackets) /\ delivered \in Seq(0 .. MaxData)
  BY <1>0 DEF LinkTypeOK
<1>3. /\ Len(pending) \in Nat /\ Len(pending) >= 1
      /\ Len(pending') = Len(pending) - 1 /\ Head(pending) = pending[1]
      /\ \A i \in 1 .. Len(pending') : pending'[i] = pending[i + 1]
  BY <1>1, <1>2
<1>4. /\ Len(delivered) \in Nat /\ Len(delivered') = Len(delivered) + 1
      /\ \A i \in 1 .. Len(delivered) : delivered'[i] = delivered[i]
      /\ delivered'[Len(delivered) + 1] = pending[1].pay
      /\ DOMAIN delivered = 1 .. Len(delivered)
      /\ DOMAIN delivered' = 1 .. Len(delivered')
  <2>1. delivered' = Append(delivered, pending[1].pay)
    BY <1>1, <1>3 DEF Deliver
  <2>2. pending[1].pay \in 0 .. MaxData
    BY <1>2, <1>3, DevPacketFields
  <2> QED
    BY <1>2, <2>1, <2>2
<1>5. pending[1].pay = Len(delivered) + 1
  <2>1. 1 \in 1 .. Len(pending)
    BY <1>3
  <2> QED
    BY <1>1, <2>1 DEF Inv, RunningInv, PendingInOrder
<1>6. UNCHANGED <<conv, dState, dSent>>
  BY DEF device
<1>7. Got' = Got
  BY <1>0, <1>1, <1>3, <1>4, GotType DEF Got, Payload
<1>8. InOrder'
  BY <1>4, <1>5 DEF Inv, InOrder
<1>9. DeviceQuiet' /\ AllNumbered'
  BY <1>0, <1>1, AccessoryFrame DEF Inv
<1>10. InFlightInOrder'
  BY <1>1, <1>6, <1>7, SameInOrder DEF Inv, RunningInv
<1>11. PendingInOrder'
  <2> SUFFICES ASSUME NEW i \in 1 .. Len(pending')
               PROVE  /\ pending'[i].pay = Len(delivered') + i
                      /\ pending'[i].seq = SeqOf(Len(delivered') + i)
    BY DEF PendingInOrder, SeqOf
  <2>1. /\ i + 1 \in 1 .. Len(pending)
        /\ Len(delivered) + (i + 1) = Len(delivered') + i
    BY <1>3, <1>4
  <2>2. /\ pending[i + 1].pay = Len(delivered) + (i + 1)
        /\ pending[i + 1].seq = SeqOf(Len(delivered) + (i + 1))
    BY <1>1, <2>1 DEF Inv, RunningInv, PendingInOrder
  <2> QED
    BY <1>3, <2>1, <2>2
<1>12. held.pay = 0 /\ held = NoPacket
  BY <1>1 DEF Inv, RunningInv, HeldIsNext
<1>13. HeldIsNext'
  BY <1>1, <1>12 DEF HeldIsNext, NoPacket, DevPacket
<1>14. AckIsCurrent'
  BY <1>1, <1>6, <1>7, AckNow DEF AckIsCurrent, SeqOf
<1>15. pc' \in {"idle", "answer"}
  BY <1>1 DEF Deliver
<1>16. BeforeEstablished'
  BY <1>15 DEF BeforeEstablished
<1>17. ChallengeReturned'
  <2>1. pc' = "answer" => pending[1].pay \in Challenges
    BY <1>1, <1>3 DEF Deliver
  <2>2. pending[1].pay <= Len(delivered')
    BY <1>4, <1>5
  <2> QED
    BY <1>15, <2>1, <2>2 DEF ChallengeReturned
<1>18. rxBuffer' = {}
  BY <1>1 DEF Inv, RunningInv
<1> QED
  BY <1>8, <1>9, <1>10, <1>11, <1>13, <1>14, <1>16, <1>17, <1>18
  DEF Inv, RunningInv

(* The next message is read and held until its ack is written. *)
LEMMA InOrderOrder ==
  ASSUME TypeOK, Inv, RecvInOrder, UNCHANGED device
  PROVE  Inv'
<1>0. LinkTypeOK /\ DeviceTypeOK
  BY TypeParts
<1>1. PICK p \in Incoming : Take /\ HasMessage(p) /\ Reply(p.seq, p)
  BY DEF RecvInOrder
<1>2. /\ pc = "idle" /\ Running /\ pending = <<>>
      /\ UNCHANGED <<pending, rxBuffer, delivered>>
  BY DEF RecvInOrder, Receiving, Running, history
<1>3. /\ p.pay # 0 /\ p.pay = Got + 1 /\ p.seq = SeqOf(Got + 1)
      /\ Payload(p) = 1
  BY <1>0, <1>1, <1>2, ReadMessage DEF HasMessage
<1>4. ack' = p.seq /\ held' = p /\ pc' = "reply"
  BY <1>1 DEF Reply
<1>5. held.pay = 0 /\ Payload(held) = 0
  BY <1>2 DEF Inv, RunningInv, HeldIsNext, Payload
<1>6. Len(pending) = 0 /\ Got = Len(delivered)
  BY <1>0, <1>2, <1>5, GotType DEF Got
<1>7. Got' = Got + 1
  BY <1>0, <1>2, <1>3, <1>4, <1>6, GotType DEF Got, Payload
<1>8. UNCHANGED <<conv, dState, dSent>>
  BY DEF device
<1>9. InOrder' /\ rxBuffer' = {}
  BY <1>2 DEF Inv, InOrder, RunningInv
<1>10. DeviceQuiet' /\ AllNumbered'
  BY <1>0, <1>1, AccessoryFrame DEF Inv, Take, Incoming
<1>11. InFlightInOrder'
  BY <1>0, <1>1, <1>2, <1>3, <1>7, <1>8, TakeInOrder DEF Inv, RunningInv
<1>12. PendingInOrder'
  BY <1>2, <1>6 DEF PendingInOrder
<1>13. HeldIsNext'
  BY <1>2, <1>3, <1>4, <1>6 DEF HeldIsNext
<1>14. AckIsCurrent'
  BY <1>3, <1>4, <1>7 DEF AckIsCurrent, SeqOf
<1>15. BeforeEstablished' /\ ChallengeReturned'
  BY <1>4 DEF BeforeEstablished, ChallengeReturned
<1> QED
  BY <1>9, <1>10, <1>11, <1>12, <1>13, <1>14, <1>15 DEF Inv, RunningInv

(* The ack is written and the message held, if any, is returned. *)
LEMMA ReplyOrder ==
  ASSUME TypeOK, Inv, ReplyWrite, UNCHANGED device
  PROVE  Inv'
<1>0. LinkTypeOK /\ DeviceTypeOK
  BY TypeParts
<1>1. /\ pc = "reply" /\ Running /\ held' = NoPacket
      /\ UNCHANGED <<ack, pending, rxBuffer, toAcc>>
  BY DEF ReplyWrite, Running, link
<1>2. UNCHANGED <<conv, dState, dSent>>
  BY DEF device
<1>3. DeviceQuiet' /\ AllNumbered'
  BY <1>0, <1>1, AccessoryFrame DEF Inv
<1>4. held'.pay = 0 /\ Payload(held') = 0
  BY <1>1 DEF NoPacket, DevPacket, Payload
<1>5. delivered \in Seq(0 .. MaxData) /\ held \in DevPackets
  BY <1>0 DEF LinkTypeOK
<1>6. CASE held # NoPacket /\ Deliver(held)
  <2>1. held.pay # 0 /\ pending = <<>> /\ held.pay = Len(delivered) + 1
    BY <1>1, <1>6 DEF Inv, RunningInv, HeldIsNext
  <2>2. /\ Len(delivered) \in Nat /\ Len(delivered') = Len(delivered) + 1
        /\ \A i \in 1 .. Len(delivered) : delivered'[i] = delivered[i]
        /\ delivered'[Len(delivered) + 1] = held.pay
        /\ DOMAIN delivered = 1 .. Len(delivered)
        /\ DOMAIN delivered' = 1 .. Len(delivered')
    <3>1. delivered' = Append(delivered, held.pay) /\ held.pay \in 0 .. MaxData
      BY <1>5, <1>6, DevPacketFields DEF Deliver
    <3> QED
      BY <1>5, <3>1
  <2>3. InOrder'
    BY <2>1, <2>2 DEF Inv, InOrder
  <2>4. Got' = Got
    <3>1. Payload(held) = 1 /\ Len(pending) = 0
      BY <2>1 DEF Payload
    <3> QED
      BY <1>1, <1>4, <2>2, <3>1 DEF Got, Payload
  <2>5. InFlightInOrder'
    BY <1>1, <1>2, <2>4, SameInOrder DEF Inv, RunningInv
  <2>6. PendingInOrder'
    BY <1>1, <2>1 DEF PendingInOrder
  <2>7. HeldIsNext'
    BY <1>1, <1>4 DEF HeldIsNext, NoPacket, DevPacket
  <2>8. AckIsCurrent'
    BY <1>1, <1>2, <2>4, AckNow DEF AckIsCurrent, SeqOf
  <2>9. pc' \in {"idle", "answer"} /\ (pc' = "answer" => held.pay \in Challenges)
    BY <1>6 DEF Deliver
  <2>10. BeforeEstablished'
    BY <2>9 DEF BeforeEstablished
  <2>11. ChallengeReturned'
    BY <2>1, <2>2, <2>9 DEF ChallengeReturned
  <2>12. rxBuffer' = {}
    BY <1>1 DEF Inv, RunningInv
  <2> QED
    BY <1>3, <2>3, <2>5, <2>6, <2>7, <2>8, <2>10, <2>11, <2>12
    DEF Inv, RunningInv
<1>7. CASE held = NoPacket /\ pc' = "idle" /\ UNCHANGED delivered
  <2>1. Got' = Got
    BY <1>1, <1>7 DEF Got, Payload
  <2>2. InFlightInOrder'
    BY <1>1, <1>2, <2>1, SameInOrder DEF Inv, RunningInv
  <2>3. PendingInOrder'
    BY <1>1, <1>7 DEF Inv, RunningInv, PendingInOrder, SeqOf
  <2>4. HeldIsNext'
    BY <1>1, <1>4 DEF HeldIsNext, NoPacket, DevPacket
  <2>5. AckIsCurrent'
    BY <1>1, <1>2, <2>1, AckNow DEF AckIsCurrent, SeqOf
  <2>6. BeforeEstablished' /\ ChallengeReturned'
    BY <1>7 DEF BeforeEstablished, ChallengeReturned
  <2>7. InOrder' /\ rxBuffer' = {}
    BY <1>1, <1>7 DEF Inv, InOrder, RunningInv
  <2> QED
    BY <1>3, <2>2, <2>3, <2>4, <2>5, <2>6, <2>7 DEF Inv, RunningInv
<1>8. CASE pc' = "down" /\ UNCHANGED delivered
  BY <1>3, <1>8 DEF Inv, InOrder, Running
<1> QED
  BY <1>6, <1>7, <1>8 DEF ReplyWrite

LEMMA ReceiveOrder ==
  ASSUME TypeOK, Inv, ReceiveData, UNCHANGED device
  PROVE  Inv'
<1> USE DEF link, call, history, net
<1>0. LinkTypeOK /\ DeviceTypeOK
  BY TypeParts
<1>1. CASE RecvPending
  BY <1>1, PendingOrder
(* Nothing is ever ahead of order, so rx_buffer stays empty. *)
<1>2. CASE RecvBuffered
  BY <1>2 DEF RecvBuffered, Buffered, Inv, RunningInv, Running
<1>3. CASE RecvInOrder
  BY <1>3, InOrderOrder
<1>4. CASE RecvAhead \/ RecvOld
  <2>1. PICK p \in Incoming : HasMessage(p) /\ ~ IsExpected(p)
    BY <1>4 DEF RecvAhead, RecvOld
  <2>2. Running /\ p.pay # 0
    BY <1>4, <2>1 DEF RecvAhead, RecvOld, Receiving, Running, HasMessage
  <2> QED
    BY <1>0, <2>1, <2>2, MessageExpected
<1>5. CASE RecvIgnore
  <2>1. PICK p \in Incoming : Take /\ ~ HasMessage(p)
    BY <1>5 DEF RecvIgnore
  <2>2. Running /\ pc = "idle" /\ pc' = "idle"
    BY <1>5 DEF RecvIgnore, Receiving, Running
  <2>3. p.pay = 0
    BY <1>0, <2>1, <2>2, ReadMessage DEF HasMessage
  <2>4. UNCHANGED <<ack, pending, rxBuffer, held, delivered>>
    BY <1>5 DEF RecvIgnore
  <2> QED
    BY <2>1, <2>2, <2>3, <2>4, AckNow, QuietStep
<1>6. CASE RecvClosed
  <2>1. Running /\ pc = "idle" /\ pc' = "down"
    BY <1>6 DEF RecvClosed, Receiving, Running
  <2>2. UNCHANGED <<toAcc, pending, rxBuffer, held, delivered>>
    BY <1>6 DEF RecvClosed
  <2> QED
    BY <2>1, <2>2, QuietStep
<1>7. CASE ReplyWrite
  BY <1>7, ReplyOrder
<1> QED
  BY <1>1, <1>2, <1>3, <1>4, <1>5, <1>6, <1>7 DEF ReceiveData

-----------------------------------------------------------------------------
(* The device                                                              *)

(* A step of the device that sends p, or nothing. *)
LEMMA DeviceSends ==
  ASSUME TypeOK, Inv, UNCHANGED <<link, call, history, conv>>,
         NEW p \in DevPackets, Numbered(p), DevSends(p),
         p.n = dSent + Payload(p), dSent' = p.n,
         dState' # "up" => dState # "up" /\ p.pay = 0,
         dState' = "up" => dState = "up",
         \A i \in 1 .. Len(toDev') : \E j \in 1 .. Len(toDev) : toDev'[i] = toDev[j]
  PROVE  Inv'
<1>0. LinkTypeOK /\ DeviceTypeOK
  BY TypeParts
<1>1. UNCHANGED <<seq, ack, pending, rxBuffer, pc, held, delivered>>
  BY DEF link, call, history
<1>2. /\ toAcc \in Seq(DevPackets) /\ toAcc' = Append(toAcc, p)
      /\ Len(toAcc) \in Nat /\ Len(toAcc') = Len(toAcc) + 1
      /\ \A i \in 1 .. Len(toAcc) : toAcc'[i] = toAcc[i]
      /\ toAcc'[Len(toAcc) + 1] = p
  BY <1>0 DEF LinkTypeOK, DevSends
<1>3. \A i \in 1 .. Len(toAcc') : i \in 1 .. Len(toAcc) \/ i = Len(toAcc) + 1
  BY <1>2
<1>4. Got' = Got
  BY <1>1 DEF Got, Payload
<1>5. Running => InFlightInOrder'
  BY <1>0, <1>2, <1>4, AppendInOrder DEF Inv, RunningInv
<1>6. DeviceQuiet'
  <2> SUFFICES ASSUME dState' # "up"
               PROVE  dSent' = 0 /\ \A i \in 1 .. Len(toAcc') : toAcc'[i].pay = 0
    BY DEF DeviceQuiet
  <2>1. /\ dState # "up" /\ p.pay = 0 /\ dSent = 0
        /\ \A i \in 1 .. Len(toAcc) : toAcc[i].pay = 0
    BY DEF Inv, DeviceQuiet
  <2>2. dSent' = 0
    BY <2>1 DEF Payload
  <2> QED
    BY <1>2, <1>3, <2>1, <2>2
<1>7. AllNumbered'
  <2> SUFFICES ASSUME NEW i \in 1 .. Len(toAcc') PROVE Numbered(toAcc'[i])
    BY DEF AllNumbered, Numbered, SeqOf
  <2> QED
    BY <1>2, <1>3 DEF Inv, AllNumbered
<1>8. InOrder' /\ (Running => rxBuffer' = {} /\ PendingInOrder' /\ HeldIsNext')
  BY <1>1 DEF Inv, RunningInv, InOrder, PendingInOrder, HeldIsNext, SeqOf
<1>9. Running => AckIsCurrent' /\ ChallengeReturned'
  BY <1>1, <1>4 DEF Inv, RunningInv, AckIsCurrent, ChallengeReturned, SeqOf
<1>10. Running => BeforeEstablished'
  BY <1>1, <1>4 DEF Inv, RunningInv, BeforeEstablished
<1>11. Running' => Running
  BY <1>1 DEF Running
<1> QED
  BY <1>5, <1>6, <1>7, <1>8, <1>9, <1>10, <1>11 DEF Inv, RunningInv

LEMMA DeviceReadsOnly ==
  ASSUME TypeOK, Inv, UNCHANGED <<link, call, history, conv, toAcc, dSent>>,
         dState' # "up" => dState # "up",
         dState' = "up" => dState = "up" \/ pc \notin {"new", "syn"},
         \A i \in 1 .. Len(toDev') : \E j \in 1 .. Len(toDev) : toDev'[i] = toDev[j]
  PROVE  Inv'
<1>1. UNCHANGED <<seq, ack, pending, rxBuffer, pc, held, delivered>>
  BY DEF link, call, history
<1>2. Got' = Got
  BY <1>1 DEF Got, Payload
<1>3. Running => InFlightInOrder'
  BY <1>2, SameInOrder DEF Inv, RunningInv
<1>4. DeviceQuiet' /\ AllNumbered'
  BY DEF Inv, DeviceQuiet, AllNumbered, Numbered, SeqOf
<1>5. InOrder' /\ (Running => rxBuffer' = {} /\ PendingInOrder' /\ HeldIsNext')
  BY <1>1 DEF Inv, RunningInv, InOrder, PendingInOrder, HeldIsNext, SeqOf
<1>6. Running => AckIsCurrent' /\ ChallengeReturned'
  BY <1>1, <1>2 DEF Inv, RunningInv, AckIsCurrent, ChallengeReturned, SeqOf
<1>7. Running => BeforeEstablished'
  BY <1>1, <1>2 DEF Inv, RunningInv, BeforeEstablished
<1>8. Running' => Running
  BY <1>1 DEF Running
<1> QED
  BY <1>3, <1>4, <1>5, <1>6, <1>7, <1>8 DEF Inv, RunningInv

LEMMA ArrivingTail ==
  ASSUME LinkTypeOK, toDev' = toDev \/ (toDev # <<>> /\ toDev' = Tail(toDev))
  PROVE  \A i \in 1 .. Len(toDev') : \E j \in 1 .. Len(toDev) : toDev'[i] = toDev[j]
<1>1. toDev \in Seq(AccPackets)
  BY DEF LinkTypeOK
<1>2. CASE toDev' = toDev
  BY <1>2
<1>3. CASE toDev # <<>> /\ toDev' = Tail(toDev)
  <2>1. /\ Len(toDev) \in Nat /\ Len(toDev') = Len(toDev) - 1
        /\ \A i \in 1 .. Len(toDev') : toDev'[i] = toDev[i + 1]
    BY <1>1, <1>3
  <2>2. \A i \in 1 .. Len(toDev') : i + 1 \in 1 .. Len(toDev)
    BY <2>1
  <2> QED
    BY <2>1, <2>2
<1> QED
  BY <1>2, <1>3

(* The packets the device sends are numbered as they are counted. *)
LEMMA DeviceNumbers ==
  ASSUME DeviceTypeOK, OrderedDevice, NEW n \in Nat, NEW s \in Seqs
  PROVE  /\ n # 0 => /\ Numbered(Message(n, s)) /\ Message(n, s).n = n
                     /\ Payload(Message(n, s)) = 1
         /\ \A k \in {"Ack", "Eak"}, e \in Seqs :
              /\ Numbered(Bare(k, s, e)) /\ Bare(k, s, e).n = dSent
              /\ Bare(k, s, e).pay = 0 /\ Payload(Bare(k, s, e)) = 0
<1>1. conv.kind = "Ack"
  BY DEF DeviceTypeOK, OrderedDevice
<1>2. n # 0 => /\ Numbered(Message(n, s)) /\ Message(n, s).n = n
               /\ Payload(Message(n, s)) = 1
  BY <1>1 DEF Numbered, Message, DevPacket, Payload
<1>3. ASSUME NEW k \in {"Ack", "Eak"}, NEW e \in Seqs
      PROVE  /\ Numbered(Bare(k, s, e)) /\ Bare(k, s, e).n = dSent
             /\ Bare(k, s, e).pay = 0 /\ Payload(Bare(k, s, e)) = 0
  BY <1>3 DEF Numbered, Bare, BareSeq, DevPacket, Payload
<1> QED
  BY <1>2, <1>3

LEMMA DeviceOrder ==
  ASSUME TypeOK, Inv, OrderedDevice, Device \/ Close
  PROVE  Inv'
<1> USE DEF linkVars, device
<1>0. LinkTypeOK /\ DeviceTypeOK
  BY TypeParts
<1>1. /\ dLast \in Seqs /\ dSent \in Nat /\ dSent + 1 \in Nat /\ dSent + 1 # 0
      /\ dSent + 1 \in 0 .. MaxData \/ dSent >= MaxData
      /\ 0 \in Seqs
  BY <1>0, MAssumption, LinkSystemAssumption DEF DeviceTypeOK, Seqs
<1>2. CASE DevStray
  <2>1. DevPacket("Detect", 0, 0, 0, 0, 0) \in DevPackets
    BY <1>1, LinkSystemAssumption DEF DevPacket, DevPackets
  <2>2. Numbered(DevPacket("Detect", 0, 0, 0, 0, 0))
    BY DEF DevPacket, Numbered
  <2>3. dSent = 0 /\ dState' = dState /\ dState # "up"
    BY <1>2 DEF DevStray, Inv, DeviceQuiet
  <2> QED
    BY <1>2, <2>1, <2>2, <2>3, DeviceSends DEF DevStray, DevPacket, Payload
<1>3. CASE DevDetect
  BY <1>0, <1>3, ArrivingTail, DeviceReadsOnly DEF DevDetect, DevReads
<1>4. CASE DevSyn
  <2>1. PICK p \in Arriving :
          /\ DevReads(p) /\ dState # "up" /\ dState' = "synced"
          /\ DevSends(DevPacket("SynAck", SeqOf(0), p.seq, 0, 0, 0))
    BY <1>4 DEF DevSyn
  <2>2. p.seq \in Seqs
    BY <1>0, <2>1, ArrivingTypes
  <2>3. DevPacket("SynAck", SeqOf(0), p.seq, 0, 0, 0) \in DevPackets
    BY <1>0, <2>2, DevicePacketTypes
  <2>4. Numbered(DevPacket("SynAck", SeqOf(0), p.seq, 0, 0, 0))
    BY DEF DevPacket, Numbered
  <2>5. dSent = 0 /\ dSent' = dSent
    BY <1>4, <2>1 DEF DevSyn, Inv, DeviceQuiet
  <2>6. \A i \in 1 .. Len(toDev') : \E j \in 1 .. Len(toDev) : toDev'[i] = toDev[j]
    BY <1>0, <2>1, ArrivingTail DEF DevReads
  <2> QED
    BY <1>4, <2>1, <2>3, <2>4, <2>5, <2>6, DeviceSends DEF DevSyn, DevPacket, Payload
(* An ack in flight was written by an established link. *)
<1>5. CASE DevEstablished
  <2>1. toDev # <<>> /\ toDev[1].kind = "Ack"
    BY <1>0, <1>5 DEF DevEstablished, Arriving, LinkTypeOK
  <2>2. 1 \in 1 .. Len(toDev)
    BY <1>0, <2>1 DEF LinkTypeOK
  <2>3. pc \notin {"new", "syn"}
    BY <2>1, <2>2 DEF Inv, Running, RunningInv, BeforeEstablished
  <2> QED
    BY <1>0, <1>5, <2>3, ArrivingTail, DeviceReadsOnly DEF DevEstablished, net
<1>6. CASE DevAcked
  BY <1>0, <1>6, ArrivingTail, DeviceReadsOnly DEF DevAcked, DevReads
<1>7. CASE DevTake
  <2>1. PICK p \in Arriving :
          /\ DevReads(p)
          /\ \/ DevSends(Bare("Ack", p.seq, 0)) /\ UNCHANGED dSent
             \/ /\ dSent < MaxData
                /\ dSent' = dSent + 1
                /\ DevSends(Message(dSent + 1, p.seq))
    BY <1>7 DEF DevTake
  <2>2. p.seq \in Seqs
    BY <1>0, <2>1, ArrivingTypes
  <2>3. /\ \A i \in 1 .. Len(toDev') : \E j \in 1 .. Len(toDev) : toDev'[i] = toDev[j]
        /\ dState = "up" /\ dState' = "up"
        /\ UNCHANGED <<link, call, history, conv>>
    BY <1>0, <1>7, <2>1, ArrivingTail DEF DevReads, DevTake
  <2>4. CASE DevSends(Bare("Ack", p.seq, 0)) /\ UNCHANGED dSent
    <3>1. Bare("Ack", p.seq, 0) \in DevPackets
      BY <1>0, <1>1, <2>2, DevicePacketTypes
    <3>2. /\ Numbered(Bare("Ack", p.seq, 0)) /\ Bare("Ack", p.seq, 0).n = dSent
          /\ Payload(Bare("Ack", p.seq, 0)) = 0
      BY <1>0, <1>1, <2>2, DeviceNumbers
    <3> QED
      BY <1>1, <2>3, <2>4, <3>1, <3>2, DeviceSends
  <2>5. CASE /\ dSent < MaxData /\ dSent' = dSent + 1
             /\ DevSends(Message(dSent + 1, p.seq))
    <3>1. dSent + 1 \in 0 .. MaxData
      BY <1>1, <2>5, LinkSystemAssumption
    <3>2. Message(dSent + 1, p.seq) \in DevPackets
      BY <1>0, <2>2, <3>1, DevicePacketTypes
    <3>3. /\ Numbered(Message(dSent + 1, p.seq))
          /\ Message(dSent + 1, p.seq).n = dSent + 1
          /\ Payload(Message(dSent + 1, p.seq)) = 1
      BY <1>0, <1>1, <2>2, DeviceNumbers
    <3> QED
      BY <1>1, <2>3, <2>5, <3>2, <3>3, DeviceSends
  <2> QED
    BY <2>1, <2>4, <2>5
<1>8. CASE DevOld \/ DevGap
  <2>1. PICK p \in Arriving, k \in {"Ack", "Eak"}, e \in Seqs :
          DevReads(p) /\ DevSends(Bare(k, dLast, e))
    <3>1. CASE DevOld
      BY <1>1, <3>1 DEF DevOld
    <3>2. CASE DevGap
      <4>1. PICK p \in Arriving : /\ DevReads(p)
              /\ \E e \in {p.seq, Succ(p.seq)} : DevSends(Bare("Eak", dLast, e))
        BY <3>2 DEF DevGap
      <4>2. p.seq \in Seqs /\ Succ(p.seq) \in Seqs
        BY <1>0, <4>1, ArrivingTypes, SeqTypes
      <4> QED
        BY <4>1, <4>2
    <3> QED
      BY <1>8, <3>1, <3>2
  <2>2. /\ \A i \in 1 .. Len(toDev') : \E j \in 1 .. Len(toDev) : toDev'[i] = toDev[j]
        /\ dState = "up" /\ dState' = "up" /\ dSent' = dSent
        /\ UNCHANGED <<link, call, history, conv>>
    BY <1>0, <1>8, <2>1, ArrivingTail DEF DevReads, DevOld, DevGap
  <2>3. Bare(k, dLast, e) \in DevPackets
    BY <1>0, <1>1, DevicePacketTypes
  <2>4. /\ Numbered(Bare(k, dLast, e)) /\ Bare(k, dLast, e).n = dSent
        /\ Payload(Bare(k, dLast, e)) = 0
    BY <1>0, <1>1, DeviceNumbers
  <2> QED
    BY <1>1, <2>1, <2>2, <2>3, <2>4, DeviceSends
<1>9. CASE DevSend
  <2>1. dSent + 1 \in 0 .. MaxData
    BY <1>1, <1>9, LinkSystemAssumption DEF DevSend
  <2>2. Message(dSent + 1, dLast) \in DevPackets
    BY <1>0, <1>1, <2>1, DevicePacketTypes
  <2>3. /\ Numbered(Message(dSent + 1, dLast)) /\ Message(dSent + 1, dLast).n = dSent + 1
        /\ Payload(Message(dSent + 1, dLast)) = 1
    BY <1>0, <1>1, DeviceNumbers
  <2> QED
    BY <1>0, <1>1, <1>9, <2>2, <2>3, ArrivingTail, DeviceSends DEF DevSend
<1>10. CASE Close
  BY <1>0, <1>10, ArrivingTail, DeviceReadsOnly DEF Close
<1> QED
  BY <1>2, <1>3, <1>4, <1>5, <1>6, <1>7, <1>8, <1>9, <1>10 DEF Device

-----------------------------------------------------------------------------
LEMMA InitOrder == Init => Inv
<1> SUFFICES ASSUME Init PROVE Inv
  OBVIOUS
<1>1. /\ toAcc = <<>> /\ toDev = <<>> /\ delivered = <<>> /\ pending = <<>>
      /\ rxBuffer = {} /\ held = NoPacket /\ pc = "new" /\ dSent = 0
      /\ dState = "listen"
  BY DEF Init, LinkInit, DevInitState
<1>2. held.pay = 0 /\ Payload(held) = 0
  BY <1>1 DEF NoPacket, DevPacket, Payload
<1>3. Got = 0
  BY <1>1, <1>2 DEF Got
<1>4. InFlightInOrder
  BY <1>1, <1>3 DEF InFlightInOrder, Chain
<1>5. InOrder /\ DeviceQuiet /\ AllNumbered /\ PendingInOrder /\ HeldIsNext
  BY <1>1, <1>2 DEF InOrder, DeviceQuiet, AllNumbered, PendingInOrder, HeldIsNext
<1>6. AckIsCurrent /\ BeforeEstablished /\ ChallengeReturned
  BY <1>1, <1>3 DEF AckIsCurrent, BeforeEstablished, ChallengeReturned
<1> QED
  BY <1>1, <1>4, <1>5, <1>6 DEF Inv, RunningInv

LEMMA StepOrder ==
  /\ OrderedDevice /\ TypeOK /\ (Running => SmallBacklog) /\ Inv
  /\ [Next]_vars
  => Inv'
<1> SUFFICES ASSUME OrderedDevice, TypeOK, Running => SmallBacklog, Inv,
                    [Next]_vars
             PROVE  Inv'
  OBVIOUS
<1>1. CASE Accessory
  <2>1. CASE Negotiate \/ ReceiveData
    BY <1>1, <2>1, NegotiateOrder, ReceiveOrder DEF Accessory
  <2>2. CASE SendData \/ ResendData
    <3>1. Running
      BY <2>2
      DEF Running, SendData, SendStart, MaySend, SendAck, SendEak,
          SendUnexpected, SendTimeout, SendClosed, ResendData, ResendStart,
          AnswerSkipped, ResendMessage, ResendAck, ResendOther, ResendTimeout,
          ResendAborted
    <3> QED
      BY <1>1, <2>2, <3>1, SendOrder, ResendOrder DEF Accessory
  <2> QED
    BY <1>1, <2>1, <2>2 DEF Accessory
<1>2. CASE Device \/ Close
  BY <1>2, DeviceOrder
<1>3. CASE UNCHANGED vars
  <2>1. LinkTypeOK
    BY TypeParts
  <2>2. UNCHANGED <<link, call, history, conv, toAcc, toDev, dSent, dState>>
    BY <1>3 DEF vars, linkVars, net, device
  <2> QED
    BY <2>1, <2>2, ArrivingTail, DeviceReadsOnly
<1> QED
  BY <1>1, <1>2, <1>3 DEF Next

(* The queue holds numbers of messages that follow one another, so it is   *)
(* no longer than the device has messages.                                 *)
LEMMA BacklogBound ==
  ASSUME TypeOK, Inv, Running, MaxData < M
  PROVE  SmallBacklog
<1>1. pending \in Seq(DevPackets) /\ delivered \in Seq(0 .. MaxData)
  BY DEF TypeOK
<1>2. Len(pending) \in Nat /\ Len(delivered) \in Nat
  BY <1>1
<1>3. CASE pending = <<>>
  BY <1>3, MAssumption DEF SmallBacklog
<1>4. CASE pending # <<>>
  <2>1. Len(pending) \in 1 .. Len(pending)
    BY <1>1, <1>4
  <2>2. pending[Len(pending)].pay = Len(delivered) + Len(pending)
    BY <2>1 DEF Inv, RunningInv, PendingInOrder
  <2>3. pending[Len(pending)] \in DevPackets
    BY <1>1, <2>1
  <2>4. pending[Len(pending)].pay \in 0 .. MaxData
    BY <2>3 DEF DevPackets
  <2> QED
    BY <1>2, <2>2, <2>4, LinkSystemAssumption, MAssumption DEF SmallBacklog
<1> QED
  BY <1>3, <1>4

LEMMA StepsTyped == Spec => []TypeOK
<1>1. [Next]_vars => [AnyNext]_vars
  BY DEF AnyNext
<1> QED
  BY <1>1, TypeCorrect, PTL DEF Spec, AnySpec

(* On a reliable stream, from a device that puts its messages in Ack       *)
(* packets, receive_data returns the first messages the device sent, in    *)
(* order, none twice and none skipped, for every modulus, number of        *)
(* messages and interleaving, provided the queue of messages received      *)
(* while sending never holds as many as there are sequence numbers.        *)
THEOREM DeliveredInOrder ==
  ASSUME OrderedDevice
  PROVE  Spec /\ []SmallBacklog => []InOrder
<1>1. Inv => InOrder
  BY DEF Inv
<1>2. TypeOK /\ SmallBacklog /\ Inv /\ [Next]_vars => Inv'
  BY StepOrder
<1> QED
  BY <1>1, <1>2, InitOrder, StepsTyped, PTL DEF Spec

(* With fewer messages than sequence numbers the proviso is not needed,    *)
(* and the whole invariant holds: each number the link acks is that of the *)
(* message it read last or of the one announced after it, and nothing ever *)
(* gets into rx_buffer.                                                    *)
THEOREM ShortSessionInOrder ==
  ASSUME OrderedDevice, MaxData < M
  PROVE  Spec => [](InOrder /\ Inv)
<1>1. Inv => InOrder
  BY DEF Inv
<1>2. TypeOK /\ Inv /\ [Next]_vars => Inv'
  BY StepOrder, BacklogBound
<1> QED
  BY <1>1, <1>2, InitOrder, StepsTyped, PTL DEF Spec
-----------------------------------------------------------------------------
(* The abstract channel                                                    *)

LEMMA LeastNat ==
  ASSUME NEW T \in SUBSET Nat, T # {}
  PROVE  \E m \in T : \A k \in T : m <= k
<1> DEFINE R == {e \in Nat \X Nat : e[1] < e[2]}
<1>1. \A x, y \in Nat : x < y => <<x, y>> \in R
  OBVIOUS
<1>2. IsWellFoundedOn(R, Nat)
  BY NatLessThanWellFounded, Zenon DEF OpToRel
<1> HIDE DEF R
<1>3. PICK m \in T : \A k \in T : ~ (<<k, m>> \in R)
  BY WFMin, <1>2
<1>4. \A k \in T : ~ (k < m)
  BY <1>1, <1>3
<1> QED
  BY <1>4

(* Along the packets in flight the count never falls: a first packet that  *)
(* counts less than g would follow one that does not.                      *)
LEMMA ChainGrows ==
  ASSUME NEW q \in Seq(DevPackets), NEW g \in Nat, NEW n, Chain(q, g, n)
  PROVE  n \in Nat /\ g <= n
<1>1. /\ Len(q) \in Nat
      /\ \A i \in 1 .. Len(q) : q[i].n \in Nat /\ Payload(q[i]) \in {0, 1}
  <2>1. \A i \in 1 .. Len(q) : q[i] \in DevPackets
    OBVIOUS
  <2> QED
    BY <2>1, LinkSystemAssumption DEF DevPackets, Payload
<1> DEFINE T == {i \in 1 .. Len(q) : q[i].n < g}
<1>2. T = {}
  <2> SUFFICES ASSUME T # {} PROVE FALSE
    OBVIOUS
  <2>1. T \in SUBSET Nat
    OBVIOUS
  <2>2. PICK m \in T : \A k \in T : m <= k
    <3> HIDE DEF T
    <3> QED
      BY <2>1, LeastNat
  <2>3. m \in 1 .. Len(q) /\ q[m].n < g
    OBVIOUS
  <2>4. q[m].n = (IF m = 1 THEN g ELSE q[m - 1].n) + Payload(q[m])
    BY <2>3 DEF Chain
  <2>5. CASE m = 1
    BY <1>1, <2>3, <2>4, <2>5
  <2>6. CASE m # 1
    <3>1. m - 1 \in 1 .. Len(q) /\ m - 1 < m
      BY <1>1, <2>3, <2>6
    <3>2. m - 1 \notin T
      BY <2>2, <3>1
    <3>3. ~ (q[m - 1].n < g)
      BY <3>1, <3>2
    <3> HIDE DEF T
    <3> QED
      BY <1>1, <2>3, <2>4, <2>6, <3>1, <3>3
  <2> QED
    BY <2>5, <2>6
<1>3. CASE q = <<>>
  BY <1>3 DEF Chain
<1>4. CASE q # <<>>
  <2>1. Len(q) \in 1 .. Len(q) /\ n = q[Len(q)].n
    BY <1>4 DEF Chain
  <2>2. Len(q) \notin T
    BY <1>2
  <2> QED
    BY <1>1, <2>1, <2>2
<1> QED
  BY <1>3, <1>4

(* What has been returned was sent. *)
LEMMA ReturnedWasSent ==
  ASSUME TypeOK, Inv, Running
  PROVE  Len(delivered) <= dSent
<1>1. LinkTypeOK
  BY TypeParts
<1>2. toAcc \in Seq(DevPackets)
  BY <1>1 DEF LinkTypeOK
<1>3. Got <= dSent
  BY <1>1, <1>2, ChainGrows, GotType DEF Inv, RunningInv, InFlightInOrder
<1>4. dSent \in Nat
  BY LinkSystemAssumption DEF TypeOK
<1> QED
  BY <1>1, <1>3, <1>4, GotType DEF Got

(* A step that returns a message leaves the task running. *)
LEMMA ReturningStep ==
  ASSUME TypeOK, [Next]_vars
  PROVE  \/ UNCHANGED delivered /\ (dSent' = dSent \/ dSent' = dSent + 1)
         \/ /\ \E m \in 0 .. MaxData : delivered' = Append(delivered, m)
            /\ UNCHANGED dSent /\ Running'
<1> USE DEF link, call, history, net
<1>1. LinkTypeOK
  BY TypeParts
<1>2. CASE Accessory
  <2>1. UNCHANGED dSent
    BY <1>2 DEF Accessory, device
  <2>2. CASE RecvPending
    <3>1. /\ delivered' = Append(delivered, Head(pending).pay)
          /\ pc' \in {"idle", "answer"} /\ pending # <<>>
      BY <2>2 DEF RecvPending, Deliver
    <3>2. Head(pending) \in DevPackets
      BY <1>1, <3>1 DEF LinkTypeOK
    <3> QED
      BY <2>1, <3>1, <3>2, DevPacketFields DEF Running
  <2>3. CASE ReplyWrite
    <3>1. CASE held # NoPacket /\ Deliver(held)
      <4>1. /\ delivered' = Append(delivered, held.pay)
            /\ pc' \in {"idle", "answer"}
        BY <3>1 DEF Deliver
      <4>2. held.pay \in 0 .. MaxData
        BY <1>1, DevPacketFields DEF LinkTypeOK
      <4> QED
        BY <2>1, <4>1, <4>2 DEF Running
    <3>2. CASE UNCHANGED delivered
      BY <2>1, <3>2
    <3> QED
      BY <2>3, <3>1, <3>2 DEF ReplyWrite
  <2>4. CASE Negotiate \/ SendData \/ ResendData
    <3>1. UNCHANGED delivered
      BY <2>4
      DEF Negotiate, NegotiateStart, SynAckOk, SynAckBad, SynTimeout, RetrySyn,
          SendData, SendStart, SendAck, SendEak, SendUnexpected, SendTimeout,
          SendClosed, ResendData, ResendStart, AnswerSkipped, ResendMessage,
          ResendAck, ResendOther, ResendTimeout, ResendAborted
    <3> QED
      BY <2>1, <3>1
  <2>5. CASE RecvBuffered \/ RecvInOrder \/ RecvAhead \/ RecvOld \/ RecvIgnore
             \/ RecvClosed
    <3>1. UNCHANGED delivered
      BY <2>5
      DEF RecvBuffered, RecvInOrder, RecvAhead, RecvOld, RecvIgnore, RecvClosed
    <3> QED
      BY <2>1, <3>1
  <2> QED
    BY <1>2, <2>2, <2>3, <2>4, <2>5 DEF Accessory, ReceiveData
<1>3. CASE Device \/ Close
  BY <1>3
  DEF Device, Close, DevStray, DevDetect, DevSyn, DevEstablished, DevAcked,
      DevTake, DevOld, DevGap, DevSend, linkVars, device
<1>4. CASE UNCHANGED vars
  BY <1>4 DEF vars, linkVars, device
<1> QED
  BY <1>2, <1>3, <1>4 DEF Next

LEMMA ChannelStep ==
  ASSUME TypeOK, TypeOK', Inv, Inv', [Next]_vars
  PROVE  [ToAccessory!Next]_<<dSent, delivered>>
<1>1. delivered \in Seq(0 .. MaxData) /\ Len(delivered) \in Nat /\ dSent \in Nat
  BY LinkSystemAssumption DEF TypeOK
<1>2. CASE UNCHANGED delivered /\ (dSent' = dSent \/ dSent' = dSent + 1)
  BY <1>2 DEF ToAccessory!Next, ToAccessory!Send
<1>3. CASE /\ \E m \in 0 .. MaxData : delivered' = Append(delivered, m)
           /\ UNCHANGED dSent /\ Running'
  <2>1. PICK m \in 0 .. MaxData : delivered' = Append(delivered, m)
    BY <1>3
  <2>2. /\ Len(delivered') = Len(delivered) + 1
        /\ delivered'[Len(delivered) + 1] = m
        /\ Len(delivered) + 1 \in DOMAIN delivered'
    BY <1>1, <2>1
  <2>3. m = Len(delivered) + 1
    BY <2>2 DEF Inv, InOrder
  <2>4. (TypeOK /\ Inv /\ Running => Len(delivered) <= dSent)'
    BY ReturnedWasSent, PTL
  <2>5. Len(delivered) < dSent
    BY <1>1, <1>3, <2>2, <2>4
  <2> QED
    BY <1>3, <2>1, <2>3, <2>5 DEF ToAccessory!Next, ToAccessory!Receive
<1> QED
  BY <1>2, <1>3, ReturningStep

LEMMA ChannelInit == Init => ToAccessory!Init
BY DEF Init, LinkInit, DevInitState, ToAccessory!Init

(* The link implements the abstract channel towards the accessory: every   *)
(* message receive_data returns is the next one the device sent, and none  *)
(* is returned that was not sent.                                          *)
THEOREM LinkIsChannel ==
  ASSUME OrderedDevice
  PROVE  Spec /\ []SmallBacklog => FromDeviceIsChannel
<1>1. TypeOK /\ SmallBacklog /\ Inv /\ [Next]_vars => Inv'
  BY StepOrder
<1>2. TypeOK /\ TypeOK' /\ Inv /\ Inv' /\ [Next]_vars
        => [ToAccessory!Next]_<<dSent, delivered>>
  BY ChannelStep
<1> QED
  BY <1>1, <1>2, InitOrder, ChannelInit, StepsTyped, PTL
  DEF Spec, FromDeviceIsChannel, ToAccessory!Spec

(* And without the proviso for a session shorter than the numbers.         *)
THEOREM ShortLinkIsChannel ==
  ASSUME OrderedDevice, MaxData < M
  PROVE  Spec => FromDeviceIsChannel
<1>1. TypeOK /\ Inv /\ [Next]_vars => Inv'
  BY StepOrder, BacklogBound
<1>2. TypeOK /\ TypeOK' /\ Inv /\ Inv' /\ [Next]_vars
        => [ToAccessory!Next]_<<dSent, delivered>>
  BY ChannelStep
<1> QED
  BY <1>1, <1>2, InitOrder, ChannelInit, StepsTyped, PTL
  DEF Spec, FromDeviceIsChannel, ToAccessory!Spec

-----------------------------------------------------------------------------
(* What the device gets: the payloads on their way to it                   *)

(* The places in q that carry a payload. *)
Load(q) == {i \in DOMAIN q : q[i].pay # 0}

(* r carries the payloads of q, and behind them perhaps p. *)
SameLoad(q, r) == Load(r) = Load(q) /\ \A i \in Load(q) : r[i] = q[i]

MoreLoad(q, r, p) ==
  \E l \in Load(r) : /\ Load(r) = Load(q) \cup {l} /\ r[l] = p
                     /\ \A i \in Load(q) : i < l /\ r[i] = q[i]

LEMMA PutLoad ==
  ASSUME NEW q \in Seq(AccPackets), NEW p \in AccPackets
  PROVE  /\ p.pay = 0 \/ closed => SameLoad(q, Put(q, p))
         /\ p.pay # 0 /\ ~ closed => MoreLoad(q, Put(q, p), p)
<1>1. SameLoad(q, q)
  BY DEF SameLoad
<1>2. CASE ~ closed
  <2> DEFINE r == Append(q, p)
  <2>1. /\ Put(q, p) = r /\ Len(q) \in Nat
        /\ DOMAIN r = 1 .. Len(q) + 1 /\ DOMAIN q = 1 .. Len(q)
        /\ r[Len(q) + 1] = p
        /\ \A i \in 1 .. Len(q) : r[i] = q[i]
    BY <1>2 DEF Put
  <2> HIDE DEF r
  <2>2. CASE p.pay = 0
    <3>1. Load(r) = Load(q)
      BY <2>1, <2>2 DEF Load
    <3> QED
      BY <1>2, <2>1, <2>2, <3>1 DEF SameLoad, Load
  <2>3. CASE p.pay # 0
    <3>1. Load(r) = Load(q) \cup {Len(q) + 1} /\ Len(q) + 1 \in Load(r)
      BY <2>1, <2>3 DEF Load
    <3>2. \A i \in Load(q) : i < Len(q) + 1 /\ r[i] = q[i]
      BY <2>1 DEF Load
    <3> QED
      BY <1>2, <2>1, <2>3, <3>1, <3>2 DEF MoreLoad
  <2> QED
    BY <2>2, <2>3
<1>3. CASE closed
  BY <1>1, <1>3 DEF Put
<1> QED
  BY <1>2, <1>3

LEMMA SameLoadTrans ==
  ASSUME NEW q, NEW r, NEW s, SameLoad(q, r), SameLoad(r, s)
  PROVE  SameLoad(q, s)
BY DEF SameLoad

(* A step of the accessory puts no payload on the way, or the next one, or *)
(* the one that is being sent again.                                       *)
Repeats == pc' = "resend" => pc = "resend" /\ out' = out

Loads(p) ==
  IF closed THEN SameLoad(toDev, toDev') ELSE MoreLoad(toDev, toDev', p)

AddsNone == nSent' = nSent /\ SameLoad(toDev, toDev') /\ Repeats

AddsNext ==
  LET p == Data(seq, ack, nSent + 1)
  IN  /\ pc \in {"idle", "answer"}
      /\ nSent' = nSent + 1 /\ nSent + 1 \in 0 .. MaxSend
      /\ Loads(p)
      /\ pc' = "resend" => out' = p

AddsAgain ==
  /\ nSent' = nSent /\ pc = "resend" /\ Repeats
  /\ Loads(out)

LEMMA NegotiateAdds == LinkTypeOK /\ Negotiate => AddsNone
<1> SUFFICES ASSUME LinkTypeOK, Negotiate PROVE AddsNone
  OBVIOUS
<1> USE DEF link, call, history, net
<1>0. toDev \in Seq(AccPackets) /\ seq \in Seqs /\ InitialSeq \in Seqs
  BY LinkAssumption DEF LinkTypeOK
<1>1. SameLoad(toDev, toDev)
  BY DEF SameLoad
<1>2. CASE NegotiateStart
  <2>1. Detect \in AccPackets /\ Syn(InitialSeq) \in AccPackets
    BY <1>0, AccPacketTypes, LinkAssumption
  <2>2. Put(toDev, Detect) \in Seq(AccPackets)
    BY <1>0, <2>1, PutTypes
  <2>3. SameLoad(toDev, Put(toDev, Detect))
        /\ SameLoad(Put(toDev, Detect), Put(Put(toDev, Detect), Syn(InitialSeq)))
    BY <1>0, <2>1, <2>2, PutLoad DEF Detect, Syn
  <2>4. SameLoad(toDev, toDev')
    BY <1>2, <2>3, SameLoadTrans DEF NegotiateStart
  <2> QED
    BY <1>2, <2>4 DEF NegotiateStart, AddsNone, Repeats
<1>3. ASSUME RetrySyn PROVE SameLoad(toDev, toDev') /\ pc' # "resend" /\ nSent' = nSent
  <2>1. Syn(seq) \in AccPackets
    BY <1>0, AccPacketTypes, LinkAssumption
  <2>2. SameLoad(toDev, Put(toDev, Syn(seq)))
    BY <1>0, <2>1, PutLoad DEF Syn
  <2> QED
    BY <1>1, <1>3, <2>2 DEF RetrySyn
<1>4. CASE SynAckOk
  <2>1. PICK p \in Incoming :
          /\ toDev' = Put(toDev, Ack(seq', p.seq)) /\ pc' \in {"idle", "down"}
          /\ seq' = Succ(seq)
    BY <1>4 DEF SynAckOk
  <2>2. seq' \in Seqs /\ p.seq \in Seqs
    BY <1>0, <2>1, SeqTypes, TakeTypes, DevPacketFields DEF LinkTypeOK
  <2>3. Ack(seq', p.seq) \in AccPackets /\ Ack(seq', p.seq).pay = 0
    BY <2>2, AccPacketTypes, LinkAssumption DEF Ack
  <2>4. SameLoad(toDev, toDev')
    BY <1>0, <2>1, <2>3, PutLoad
  <2> QED
    BY <1>4, <2>1, <2>4 DEF SynAckOk, AddsNone, Repeats
<1> QED
  BY <1>2, <1>3, <1>4 DEF Negotiate, SynAckBad, SynTimeout, AddsNone, Repeats

(* What receive_data writes is an ack. *)
ReplyIsBare == pc = "reply" => out.pay = 0

LEMMA ReceiveAdds ==
  ASSUME LinkTypeOK, ReplyIsBare, ReceiveData \/ CancelReply
  PROVE  AddsNone /\ ReplyIsBare'
<1> USE DEF link, call, history, net, AddsNone, Repeats
<1>1. SameLoad(toDev, toDev)
  BY DEF SameLoad
<1>2. \A a, p : Reply(a, p) => pc' = "reply" /\ out'.pay = 0
  BY DEF Reply, Ack
<1>3. \A p : Deliver(p) => pc' \in {"idle", "answer"}
  BY DEF Deliver
<1>4. CASE RecvPending
  BY <1>1, <1>3, <1>4 DEF RecvPending, ReplyIsBare
<1>5. CASE RecvBuffered \/ RecvInOrder
  BY <1>1, <1>2, <1>5 DEF RecvBuffered, RecvInOrder, ReplyIsBare
<1>6. CASE RecvAhead \/ RecvOld
  <2>1. /\ toDev' = toDev /\ nSent' = nSent /\ pc = "idle"
        /\ \/ \E a, p : Reply(a, p)
           \/ pc' = pc
    BY <1>6 DEF RecvAhead, RecvOld, Receiving
  <2> QED
    BY <1>1, <1>2, <2>1 DEF ReplyIsBare
<1>7. CASE RecvIgnore \/ RecvClosed
  BY <1>1, <1>7 DEF RecvIgnore, RecvClosed, Receiving, ReplyIsBare
<1>8. CASE ReplyWrite
  <2>1. SameLoad(toDev, Put(toDev, out))
    BY <1>8, PutLoad DEF ReplyWrite, ReplyIsBare, LinkTypeOK
  <2>2. pc' \in {"idle", "answer", "down"}
    BY <1>3, <1>8 DEF ReplyWrite
  <2> QED
    BY <1>8, <2>1, <2>2 DEF ReplyWrite, ReplyIsBare
<1>9. CASE CancelReply
  BY <1>1, <1>9 DEF CancelReply, ReplyIsBare
<1> QED
  BY <1>4, <1>5, <1>6, <1>7, <1>8, <1>9 DEF ReceiveData

LEMMA SendAdds ==
  ASSUME LinkTypeOK, SendData
  PROVE  (AddsNone \/ AddsNext) /\ ReplyIsBare'
<1> USE DEF link, call, history, net
<1>0. toDev \in Seq(AccPackets) /\ seq \in Seqs /\ ack \in Seqs
  BY DEF LinkTypeOK
<1>1. SameLoad(toDev, toDev)
  BY DEF SameLoad
<1>2. CASE SendStart
  <2> DEFINE p == Data(seq, ack, nSent + 1)
  <2>1. nSent + 1 \in 0 .. MaxSend /\ nSent + 1 # 0
    BY <1>2, LinkAssumption DEF SendStart, LinkTypeOK
  <2>2. p \in AccPackets /\ p.pay # 0
    BY <1>0, <2>1, AccPacketTypes DEF Data
  <2>3. toDev' = Put(toDev, p) /\ nSent' = nSent + 1
        /\ pc' \in {"send", "idle", "down"}
    BY <1>2 DEF SendStart
  <2>4. Loads(p)
    BY <1>0, <2>2, <2>3, PutLoad DEF Loads
  <2> QED
    BY <1>2, <2>1, <2>3, <2>4 DEF AddsNext, ReplyIsBare, SendStart, MaySend
<1> USE DEF AddsNone, Repeats, ReplyIsBare
<1>3. CASE SendAck
  <2>1. PICK p \in Incoming :
          /\ \/ toDev' = toDev
             \/ toDev' = Put(toDev, Ack(seq, p.seq))
          /\ pc' \in {"send", "idle", "down"}
    BY <1>3 DEF SendAck, SendFails
  <2>2. p.seq \in Seqs
    BY <2>1, TakeTypes, DevPacketFields DEF LinkTypeOK
  <2>3. Ack(seq, p.seq) \in AccPackets /\ Ack(seq, p.seq).pay = 0
    BY <1>0, <2>2, AccPacketTypes, LinkAssumption DEF Ack
  <2>4. SameLoad(toDev, toDev')
    BY <1>0, <1>1, <2>1, <2>3, PutLoad
  <2> QED
    BY <1>3, <2>1, <2>4 DEF SendAck
<1>4. CASE SendEak
  <2> DEFINE gap(p) == IF ReportsGap(p) THEN Put(toDev, Retransmitted(p)) ELSE toDev
  <2>1. PICK p \in Incoming :
          /\ \/ toDev' \in {toDev, gap(p)}
             \/ toDev' = Put(gap(p), Ack(seq', p.seq)) /\ seq' = Succ(seq)
          /\ pc' \in {"send", "idle", "down", "panic"}
    BY <1>4 DEF SendEak, SendFails
  <2>2. p.seq \in Seqs /\ p.ack \in Seqs /\ Succ(seq) \in Seqs
    BY <1>0, <2>1, SeqTypes, TakeTypes, DevPacketFields DEF LinkTypeOK
  <2>3. Ack(Succ(seq), p.seq) \in AccPackets /\ Ack(Succ(seq), p.seq).pay = 0
    BY <2>2, AccPacketTypes, LinkAssumption DEF Ack
  <2>4. ReportsGap(p) => Retransmitted(p) \in AccPackets /\ Retransmitted(p).pay = 0
    <3>1. SUFFICES ASSUME ReportsGap(p) PROVE p.ack + 1 \in Seqs
      BY <2>2, AccPacketTypes, LinkAssumption DEF Retransmitted, Ack
    <3>2. (seq - 1) % M \in Seqs /\ p.ack < (seq - 1) % M
      BY <1>0, <3>1, SeqTypes DEF ReportsGap, Seqs
    <3> QED
      BY <2>2, <3>2, MAssumption DEF Seqs
  <2>5. gap(p) \in Seq(AccPackets) /\ SameLoad(toDev, gap(p))
    BY <1>0, <1>1, <2>4, PutLoad, PutTypes
  <2> HIDE DEF gap
  <2>6. SameLoad(toDev, Put(gap(p), Ack(Succ(seq), p.seq)))
    BY <2>3, <2>5, PutLoad, SameLoadTrans
  <2>7. SameLoad(toDev, toDev')
    BY <1>1, <2>1, <2>5, <2>6
  <2> QED
    BY <1>4, <2>1, <2>7 DEF SendEak
<1>5. CASE SendUnexpected \/ SendTimeout \/ SendClosed
  BY <1>1, <1>5 DEF SendUnexpected, SendTimeout, SendClosed, SendFails
<1> QED
  BY <1>2, <1>3, <1>4, <1>5 DEF SendData

LEMMA ResendAdds ==
  ASSUME LinkTypeOK, ResendData, pc = "resend" => out.pay # 0
  PROVE  (AddsNone \/ AddsNext \/ AddsAgain) /\ ReplyIsBare'
<1> USE DEF link, call, history, net
<1>0. toDev \in Seq(AccPackets) /\ seq \in Seqs /\ ack \in Seqs /\ out \in AccPackets
  BY DEF LinkTypeOK
<1>1. SameLoad(toDev, toDev)
  BY DEF SameLoad
<1>2. CASE ResendStart
  <2> DEFINE p == Data(seq, ack, nSent + 1)
  <2>1. nSent + 1 \in 0 .. MaxSend /\ nSent + 1 # 0
    BY <1>2, LinkAssumption DEF ResendStart, LinkTypeOK
  <2>2. p \in AccPackets /\ p.pay # 0
    BY <1>0, <2>1, AccPacketTypes DEF Data
  <2>3. toDev' = Put(toDev, p) /\ nSent' = nSent + 1 /\ out' = p
        /\ pc' \in {"resend", "down"}
    BY <1>2 DEF ResendStart
  <2>4. Loads(p)
    BY <1>0, <2>2, <2>3, PutLoad DEF Loads
  <2> QED
    BY <1>2, <2>1, <2>3, <2>4 DEF AddsNext, ReplyIsBare, ResendStart
<1> USE DEF Repeats, ReplyIsBare
<1>3. CASE AnswerSkipped \/ ResendAck \/ ResendOther \/ ResendAborted
  BY <1>1, <1>3 DEF AnswerSkipped, ResendAck, ResendOther, ResendAborted, AddsNone
<1>4. CASE ResendMessage
  <2>1. PICK p \in Incoming :
          /\ toDev' = Put(toDev, Ack(seq, p.seq))
          /\ pc' \in {"resend", "idle", "down"}
    BY <1>4 DEF ResendMessage
  <2>2. p.seq \in Seqs
    BY <2>1, TakeTypes, DevPacketFields DEF LinkTypeOK
  <2>3. Ack(seq, p.seq) \in AccPackets /\ Ack(seq, p.seq).pay = 0
    BY <1>0, <2>2, AccPacketTypes, LinkAssumption DEF Ack
  <2>4. SameLoad(toDev, toDev')
    BY <1>0, <2>1, <2>3, PutLoad
  <2> QED
    BY <1>4, <2>1, <2>4 DEF ResendMessage, AddsNone
<1>5. CASE ResendTimeout
  <2>1. \/ toDev' = toDev
        \/ toDev' = Put(toDev, out)
    BY <1>5 DEF ResendTimeout, Resent
  <2>2. pc = "resend" /\ pc' \in {"resend", "down"} /\ out' = out /\ nSent' = nSent
    BY <1>5 DEF ResendTimeout
  <2>3. CASE toDev' = toDev
    BY <1>1, <2>2, <2>3 DEF AddsNone
  <2>4. CASE toDev' = Put(toDev, out)
    <3>1. Loads(out)
      BY <1>0, <2>2, <2>4, PutLoad DEF Loads
    <3> QED
      BY <2>2, <3>1 DEF AddsAgain
  <2> QED
    BY <2>1, <2>2, <2>3, <2>4
<1> QED
  BY <1>2, <1>3, <1>4, <1>5 DEF ResendData

(* What goes to the device does so in the order of its payloads, and       *)
(* repetitions with the number they had: of the payload the device got     *)
(* last, too, so that it will not be taken again.                          *)
OutInOrder ==
  /\ \A i, j \in Load(toDev) : i <= j =>
       /\ toDev[i].pay <= toDev[j].pay
       /\ toDev[i].pay = toDev[j].pay => toDev[i].seq = toDev[j].seq
  /\ \A i \in Load(toDev) : toDev[i].pay <= nSent

GotBefore ==
  /\ \A i \in Load(toDev) : \A k \in DOMAIN dGot :
       /\ dGot[k] <= toDev[i].pay
       /\ dGot[k] = toDev[i].pay => toDev[i].seq = dLast
  /\ \A k \in DOMAIN dGot : dGot[k] \in 1 .. nSent
  /\ dState # "up" => dGot = <<>>

ResendIsLast ==
  pc = "resend" =>
    /\ out.pay = nSent /\ nSent # 0
    /\ \A i \in Load(toDev) : toDev[i].pay = nSent => toDev[i].seq = out.seq
    /\ \A k \in DOMAIN dGot : dGot[k] = nSent => dLast = out.seq

OutInv ==
  ReplyIsBare /\ OutInOrder /\ GotBefore /\ ResendIsLast /\ DeviceInOrder

LEMMA LoadTypes ==
  ASSUME NEW q \in Seq(AccPackets), NEW i \in Load(q)
  PROVE  i \in Nat /\ i >= 1 /\ q[i].pay \in Nat /\ q[i].pay # 0
<1>1. i \in 1 .. Len(q) /\ Len(q) \in Nat /\ q[i].pay # 0
  BY DEF Load
<1>2. q[i] \in AccPackets
  BY <1>1
<1>3. q[i].pay \in 0 .. MaxSend
  BY <1>2 DEF AccPackets
<1> QED
  BY <1>1, <1>3, LinkAssumption

LEMMA TailLoad ==
  ASSUME NEW q \in Seq(AccPackets), q # <<>>
  PROVE  /\ \A i \in Load(Tail(q)) : i + 1 \in Load(q) /\ Tail(q)[i] = q[i + 1]
         /\ Head(q).pay # 0 => 1 \in Load(q)
         /\ Head(q) = q[1]
         /\ \A i \in Load(q) : i # 1 => i - 1 \in Load(Tail(q)) /\ Tail(q)[i - 1] = q[i]
<1> DEFINE t == Tail(q)
<1>1. /\ Len(q) \in Nat /\ Len(q) >= 1 /\ Len(t) = Len(q) - 1
      /\ t \in Seq(AccPackets) /\ Head(q) = q[1]
      /\ \A i \in 1 .. Len(t) : t[i] = q[i + 1]
  OBVIOUS
<1>2. DOMAIN t = 1 .. Len(t) /\ DOMAIN q = 1 .. Len(q)
  BY <1>1
<1> HIDE DEF t
<1>3. \A i \in 1 .. Len(t) : i + 1 \in 1 .. Len(q)
  BY <1>1
<1>4. \A i \in 1 .. Len(q) : i # 1 => i - 1 \in 1 .. Len(t) /\ (i - 1) + 1 = i
  BY <1>1
<1>5. ASSUME NEW i \in Load(q), i # 1
      PROVE  i - 1 \in Load(t) /\ t[i - 1] = q[i]
  BY <1>1, <1>2, <1>4, <1>5 DEF Load
<1> QED
  BY <1>1, <1>2, <1>3, <1>5 DEF Load, t

LEMMA AddedOut ==
  ASSUME TypeOK, TypeOK', OutInv, UNCHANGED device,
         NEW p, p.pay = nSent', nSent' \in {nSent, nSent + 1}, nSent' # 0,
         \A i \in Load(toDev) : toDev[i].pay = nSent' => toDev[i].seq = p.seq,
         \A k \in DOMAIN dGot : dGot[k] = nSent' => dLast = p.seq,
         SameLoad(toDev, toDev') \/ MoreLoad(toDev, toDev', p),
         pc' = "resend" => out' = p
  PROVE  OutInOrder' /\ GotBefore' /\ ResendIsLast'
<1> USE DEF device
<1>0. /\ toDev \in Seq(AccPackets) /\ toDev' \in Seq(AccPackets)
      /\ nSent \in Nat /\ nSent' \in Nat /\ nSent <= nSent'
      /\ dGot \in Seq(0 .. MaxSend)
  BY LinkAssumption DEF TypeOK
<1>1. /\ \A i \in Load(toDev) : i \in Nat /\ toDev[i].pay \in Nat
      /\ \A i \in Load(toDev') : i \in Nat /\ toDev'[i].pay \in Nat
  BY <1>0, LoadTypes
<1>2. \A i \in Load(toDev') :
        \/ i \in Load(toDev) /\ toDev'[i] = toDev[i]
        \/ toDev'[i] = p /\ \A j \in Load(toDev) : j < i
  BY DEF SameLoad, MoreLoad
<1>3. OutInOrder'
  <2>1. \A i \in Load(toDev) : toDev[i].pay <= nSent'
    BY <1>0, <1>1 DEF OutInv, OutInOrder
  <2>2. \A i \in Load(toDev') : toDev'[i].pay <= nSent'
    BY <1>0, <1>2, <2>1
  <2>3. ASSUME NEW i \in Load(toDev'), NEW j \in Load(toDev'), i <= j
        PROVE  /\ toDev'[i].pay <= toDev'[j].pay
               /\ toDev'[i].pay = toDev'[j].pay => toDev'[i].seq = toDev'[j].seq
    <3>1. CASE toDev'[j] = p
      BY <1>0, <1>2, <2>2, <3>1
    <3>2. CASE j \in Load(toDev) /\ toDev'[j] = toDev[j]
      <4>1. ~ \A k \in Load(toDev) : k < i
        BY <1>1, <2>3, <3>2
      <4>2. i \in Load(toDev) /\ toDev'[i] = toDev[i]
        BY <1>2, <4>1
      <4> QED
        BY <2>3, <3>2, <4>2 DEF OutInv, OutInOrder
    <3> QED
      BY <1>2, <3>1, <3>2
  <2> QED
    BY <2>2, <2>3 DEF OutInOrder
<1>4. GotBefore'
  <2>1. \A k \in DOMAIN dGot : dGot[k] \in 1 .. nSent'
    BY <1>0 DEF OutInv, GotBefore
  <2>2. ASSUME NEW i \in Load(toDev'), NEW k \in DOMAIN dGot
        PROVE  dGot[k] <= toDev'[i].pay /\ (dGot[k] = toDev'[i].pay => toDev'[i].seq = dLast)
    BY <1>2, <2>1 DEF OutInv, GotBefore
  <2> QED
    BY <2>1, <2>2 DEF OutInv, GotBefore
<1>5. ResendIsLast'
  BY <1>2 DEF ResendIsLast
<1> QED
  BY <1>3, <1>4, <1>5

LEMMA AccessoryKeepsOut ==
  ASSUME TypeOK, TypeOK', OutInv, UNCHANGED device,
         AddsNone \/ AddsNext \/ AddsAgain, ReplyIsBare'
  PROVE  OutInv'
<1>0. /\ toDev \in Seq(AccPackets) /\ nSent \in Nat /\ dGot \in Seq(0 .. MaxSend)
      /\ \A i \in Load(toDev) : toDev[i].pay <= nSent
      /\ \A k \in DOMAIN dGot : dGot[k] \in 1 .. nSent
  BY LinkAssumption DEF TypeOK, OutInv, OutInOrder, GotBefore
<1>1. \A i \in Load(toDev) : toDev[i].pay \in Nat
  BY <1>0, LoadTypes
<1>2. DeviceInOrder'
  BY DEF OutInv, DeviceInOrder, device
<1>3. CASE AddsNone
  BY <1>2, <1>3 DEF AddsNone, Repeats, SameLoad, OutInv, OutInOrder, GotBefore,
     ResendIsLast, device
<1>4. CASE AddsNext
  <2> DEFINE p == Data(seq, ack, nSent + 1)
  <2>1. p.pay = nSent + 1 /\ p.seq = seq
    BY DEF Data
  <2>2. /\ nSent' = nSent + 1
        /\ pc' = "resend" => out' = p
        /\ SameLoad(toDev, toDev') \/ MoreLoad(toDev, toDev', p)
    BY <1>4 DEF AddsNext, Loads
  <2> HIDE DEF p
  <2>3. /\ \A i \in Load(toDev) : toDev[i].pay # nSent'
        /\ \A k \in DOMAIN dGot : dGot[k] # nSent'
        /\ nSent' # 0
    BY <1>0, <1>1, <2>2
  <2>4. OutInOrder' /\ GotBefore' /\ ResendIsLast'
    BY <2>1, <2>2, <2>3, AddedOut
  <2> QED
    BY <1>2, <2>4 DEF OutInv
<1>5. CASE AddsAgain
  <2>1. /\ nSent' = nSent /\ pc = "resend" /\ (pc' = "resend" => out' = out)
        /\ SameLoad(toDev, toDev') \/ MoreLoad(toDev, toDev', out)
    BY <1>5 DEF AddsAgain, Repeats, Loads
  <2>2. OutInOrder' /\ GotBefore' /\ ResendIsLast'
    BY <2>1, AddedOut DEF OutInv, ResendIsLast
  <2> QED
    BY <1>2, <2>2 DEF OutInv
<1> QED
  BY <1>3, <1>4, <1>5

(* The device reads nothing, or a packet that it does not take. *)
LEMMA DeviceKeepsOut ==
  ASSUME TypeOK, TypeOK', OutInv, UNCHANGED <<call, nSent, dGot>>,
         \/ toDev' = toDev
         \/ toDev # <<>> /\ toDev' = Tail(toDev),
         \/ UNCHANGED <<dState, dLast>>
         \/ dState # "up"
  PROVE  OutInv'
<1> USE DEF call
<1>0. toDev \in Seq(AccPackets)
  BY DEF TypeOK
<1>1. DeviceInOrder' /\ ReplyIsBare'
  BY DEF OutInv, DeviceInOrder, ReplyIsBare
<1>2. dState # "up" => DOMAIN dGot = {}
  BY DEF OutInv, GotBefore
<1>3. CASE toDev' = toDev
  <2>1. GotBefore'
    BY <1>2, <1>3 DEF OutInv, GotBefore
  <2> QED
    BY <1>1, <1>2, <1>3, <2>1 DEF OutInv, OutInOrder, ResendIsLast
<1>4. CASE toDev # <<>> /\ toDev' = Tail(toDev)
  <2>1. \A i \in Load(toDev') : i + 1 \in Load(toDev) /\ toDev'[i] = toDev[i + 1]
    BY <1>0, <1>4, TailLoad
  <2>2. \A i \in Load(toDev') : i \in Nat
    BY LoadTypes DEF TypeOK
  <2>3. OutInOrder'
    <3>1. \A i, j \in Load(toDev') : i <= j => i + 1 <= j + 1
      BY <2>2
    <3> QED
      BY <2>1, <3>1 DEF OutInv, OutInOrder
  <2>4. GotBefore'
    BY <1>2, <2>1 DEF OutInv, GotBefore
  <2>5. ResendIsLast'
    BY <1>2, <2>1 DEF OutInv, ResendIsLast
  <2> QED
    BY <1>1, <2>3, <2>4, <2>5 DEF OutInv
<1> QED
  BY <1>3, <1>4

LEMMA TakeKeepsOut == TypeOK /\ TypeOK' /\ OutInv /\ DevTake => OutInv'
<1> SUFFICES ASSUME TypeOK, TypeOK', OutInv, DevTake PROVE OutInv'
  OBVIOUS
<1> USE DEF call, history
<1>0. /\ toDev \in Seq(AccPackets) /\ nSent \in Nat /\ dLast \in Seqs
      /\ dGot \in Seq(0 .. MaxSend)
  BY LinkAssumption DEF TypeOK
<1>1. PICK p \in Arriving :
        /\ DevReads(p) /\ p.pay # 0 /\ p.seq = Succ(dLast)
        /\ dLast' = p.seq /\ dGot' = Append(dGot, p.pay)
  BY DEF DevTake
<1>2. /\ toDev # <<>> /\ p = toDev[1] /\ toDev' = Tail(toDev) /\ 1 \in Load(toDev)
      /\ UNCHANGED <<call, nSent>> /\ dState = "up" /\ dState' = "up"
  BY <1>0, <1>1, TailLoad DEF DevReads, DevTake
<1>3. Succ(dLast) # dLast
  <2>1. dLast \in Nat /\ dLast < dLast + 1 /\ dLast + 1 < dLast + M /\ dLast % M = dLast
    BY <1>0, MAssumption, SMTT(30) DEF Seqs
  <2>2. dLast % M # (dLast + 1) % M
    BY <2>1, ModDistinct
  <2> QED
    BY <2>1, <2>2 DEF Succ
<1>4. p.pay \in 1 .. nSent /\ \A k \in DOMAIN dGot : dGot[k] < p.pay
  <2>1. p.pay \in Nat /\ p.pay # 0
    BY <1>0, <1>2, LoadTypes
  <2>2. p.pay <= nSent
    BY <1>2 DEF OutInv, OutInOrder
  <2>3. \A k \in DOMAIN dGot : dGot[k] <= p.pay /\ dGot[k] # p.pay
    BY <1>1, <1>2, <1>3 DEF OutInv, GotBefore
  <2>4. \A k \in DOMAIN dGot : dGot[k] \in Nat
    BY <1>0, LinkAssumption
  <2> QED
    BY <1>0, <2>1, <2>2, <2>3, <2>4
<1>5. /\ Len(dGot) \in Nat /\ DOMAIN dGot = 1 .. Len(dGot)
      /\ DOMAIN dGot' = 1 .. Len(dGot) + 1
      /\ dGot'[Len(dGot) + 1] = p.pay
      /\ \A k \in 1 .. Len(dGot) : dGot'[k] = dGot[k]
  BY <1>0, <1>1
<1>6. \A i \in Load(toDev') : i + 1 \in Load(toDev) /\ toDev'[i] = toDev[i + 1]
  BY <1>0, <1>2, TailLoad
<1>7. \A i \in Load(toDev') : i \in Nat /\ 1 <= i + 1
  <2>1. toDev' \in Seq(AccPackets)
    BY DEF TypeOK
  <2> QED
    BY <2>1, LoadTypes
<1>8. \A k \in DOMAIN dGot' :
        \/ k \in DOMAIN dGot /\ dGot'[k] = dGot[k]
        \/ dGot'[k] = p.pay
  BY <1>5
<1>9. \A i \in Load(toDev') :
        /\ p.pay <= toDev'[i].pay
        /\ p.pay = toDev'[i].pay => toDev'[i].seq = p.seq
  BY ZenonT(60), <1>2, <1>6, <1>7 DEF OutInv, OutInOrder
<1>10. \A i \in Load(toDev') : toDev'[i].pay \in Nat
  BY LoadTypes DEF TypeOK
<1>11. DeviceInOrder'
  BY <1>4, <1>5, <1>8 DEF OutInv, DeviceInOrder
<1>12. OutInOrder'
  <2>1. \A i, j \in Load(toDev') : i <= j => i + 1 <= j + 1
    BY <1>7
  <2>2. \A i \in Load(toDev') : toDev'[i].pay <= nSent'
    BY <1>2, <1>6 DEF OutInv, OutInOrder, call
  <2>3. ASSUME NEW i \in Load(toDev'), NEW j \in Load(toDev'), i <= j
        PROVE  /\ toDev'[i].pay <= toDev'[j].pay
               /\ toDev'[i].pay = toDev'[j].pay => toDev'[i].seq = toDev'[j].seq
    BY <1>6, <2>1, <2>3 DEF OutInv, OutInOrder
  <2> QED
    BY <2>2, <2>3 DEF OutInOrder
<1>13. GotBefore'
  <2>1. \A k \in DOMAIN dGot' : dGot'[k] \in 1 .. nSent /\ dGot'[k] <= p.pay
    BY <1>0, <1>4, <1>8 DEF OutInv, GotBefore
  <2>2. \A i \in Load(toDev') : \A k \in DOMAIN dGot' :
          /\ dGot'[k] <= toDev'[i].pay
          /\ dGot'[k] = toDev'[i].pay => toDev'[i].seq = p.seq
    BY <1>0, <1>4, <1>9, <1>10, <2>1
  <2> QED
    BY <1>1, <1>2, <2>1, <2>2 DEF GotBefore
<1>14. ResendIsLast'
  <2>1. pc = "resend" => \A i \in Load(toDev') : toDev'[i].pay = nSent => toDev'[i].seq = out.seq
    BY <1>6 DEF OutInv, ResendIsLast
  <2>2. pc = "resend" => \A k \in DOMAIN dGot' : dGot'[k] = nSent => p.seq = out.seq
    <3>1. \A k \in DOMAIN dGot' : dGot'[k] = nSent => p.pay = nSent
      BY <1>0, <1>4, <1>8 DEF OutInv, GotBefore
    <3> QED
      BY <1>2, <3>1 DEF OutInv, ResendIsLast
  <2> QED
    BY <1>1, <1>2, <2>1, <2>2 DEF OutInv, ResendIsLast
<1> QED
  BY <1>2, <1>11, <1>12, <1>13, <1>14 DEF OutInv, ReplyIsBare

LEMMA StepOut == TypeOK /\ TypeOK' /\ OutInv /\ [AnyNext]_vars => OutInv'
<1> SUFFICES ASSUME TypeOK, TypeOK', OutInv, [AnyNext]_vars PROVE OutInv'
  OBVIOUS
<1>0. LinkTypeOK
  BY TypeParts
<1>1. CASE Accessory \/ Cancel
  <2>1. UNCHANGED device
    BY <1>1 DEF Accessory, Cancel
  <2>2. ASSUME Negotiate PROVE AddsNone /\ ReplyIsBare'
    BY <1>0, <2>2, NegotiateAdds
    DEF Negotiate, NegotiateStart, SynAckOk, SynAckBad, SynTimeout, RetrySyn, ReplyIsBare
  <2>3. ASSUME ReceiveData \/ CancelReply PROVE AddsNone /\ ReplyIsBare'
    BY <1>0, <2>3, ReceiveAdds DEF OutInv
  <2>4. ASSUME SendData PROVE (AddsNone \/ AddsNext) /\ ReplyIsBare'
    BY <1>0, <2>4, SendAdds
  <2>5. ASSUME ResendData PROVE (AddsNone \/ AddsNext \/ AddsAgain) /\ ReplyIsBare'
    BY <1>0, <2>5, ResendAdds DEF OutInv, ResendIsLast
  <2> QED
    BY <1>1, <2>1, <2>2, <2>3, <2>4, <2>5, AccessoryKeepsOut DEF Accessory, Cancel
<1>2. CASE DevTake
  BY <1>2, TakeKeepsOut
<1> USE DEF link, call, history, device, linkVars, net
<1>3. CASE DevStray \/ DevSend \/ Close \/ DevResend \/ LoseToAcc
  BY <1>3, DeviceKeepsOut DEF DevStray, DevSend, Close, DevResend, LoseToAcc
<1>4. CASE DevDetect \/ DevAcked \/ DevOld \/ DevGap
  BY <1>4, DeviceKeepsOut DEF DevDetect, DevAcked, DevOld, DevGap, DevReads
<1>5. CASE DevEstablished
  BY <1>5, DeviceKeepsOut DEF DevEstablished
<1>6. CASE DevSyn
  BY <1>6, DeviceKeepsOut DEF DevSyn, DevReads
<1>7. CASE LoseToDev
  BY <1>7, DeviceKeepsOut DEF LoseToDev
<1>8. CASE UNCHANGED vars
  BY <1>8, DeviceKeepsOut DEF vars
<1> QED
  BY <1>1, <1>2, <1>3, <1>4, <1>5, <1>6, <1>7, <1>8
  DEF AnyNext, Next, Faults, Device

LEMMA InitOut == Init => OutInv
BY DEF Init, LinkInit, DevInitState, OutInv, ReplyIsBare, OutInOrder, GotBefore,
       ResendIsLast, DeviceInOrder, Load

(* The device gets the accessory's payloads in their order, each at most   *)
(* once: whatever is lost, repeated or dropped in either direction.        *)
THEOREM DeviceGetsInOrder == AnySpec => []DeviceInOrder
<1>1. TypeOK /\ TypeOK' /\ OutInv /\ [AnyNext]_vars => OutInv'
  BY StepOut
<1>2. OutInv => DeviceInOrder
  BY DEF OutInv
<1> QED
  BY <1>1, <1>2, InitOut, TypeCorrect, PTL DEF AnySpec

-----------------------------------------------------------------------------
(* On a reliable stream: the link is a channel towards the device, too     *)

(* The number of the accessory's n-th payload. *)
SeqIn(n) == (InitialSeq + n) % M

Started == pc \notin {"new", "syn", "down", "panic"}

SynsFirst(q) == \A i \in DOMAIN q : q[i].kind = "Syn" => q[i].seq = InitialSeq

(* No number is spent on anything but a payload: only an EAK would, and    *)
(* the device has no reason to send one.                                   *)
LinkNumbers ==
  /\ SynsFirst(toDev)
  /\ \A i \in DOMAIN toAcc : toAcc[i].kind # "Eak"
  /\ pc = "syn" => seq = InitialSeq
  /\ pc \in {"new", "syn"} => nSent = 0
  /\ pc \in {"reply", "resend"} => out.kind = "Ack"
  /\ ~ closed /\ Started => seq = SeqIn(nSent + 1)
  /\ ~ closed /\ pc = "resend" => out.seq = SeqIn(nSent)

(* What the device does not have yet is on its way. *)
LoadNumbers ==
  /\ \A i \in Load(toDev) :
       toDev[i].kind = "Ack" /\ toDev[i].seq = SeqIn(toDev[i].pay)
  /\ ~ closed => \A k \in Len(dGot) + 1 .. nSent :
                   \E i \in Load(toDev) : toDev[i].pay = k

DeviceStart ==
  /\ dState # "listen" => dLast = SeqIn(Len(dGot))
  /\ \A k \in DOMAIN dGot : dGot[k] = k

NumberInv == LinkNumbers /\ LoadNumbers /\ DeviceStart

LEMMA SeqInSucc ==
  /\ SeqIn(0) = InitialSeq
  /\ \A n \in Nat : Succ(SeqIn(n)) = SeqIn(n + 1) /\ SeqIn(n) # SeqIn(n + 1)
                    /\ SeqIn(n) \in Seqs
<1>1. InitialSeq \in Nat /\ InitialSeq < M
  BY LinkAssumption, MAssumption DEF Seqs
<1>2. SeqIn(0) = InitialSeq
  BY <1>1, MAssumption, SMTT(30) DEF SeqIn
<1>3. ASSUME NEW n \in Nat
      PROVE  Succ(SeqIn(n)) = SeqIn(n + 1) /\ SeqIn(n) # SeqIn(n + 1) /\ SeqIn(n) \in Seqs
  <2>1. /\ InitialSeq + n \in Nat /\ InitialSeq + (n + 1) = (InitialSeq + n) + 1
        /\ InitialSeq + n < (InitialSeq + n) + 1
        /\ (InitialSeq + n) + 1 < (InitialSeq + n) + M
    BY <1>1, MAssumption
  <2>2. (InitialSeq + n) % M # ((InitialSeq + n) + 1) % M
    BY <2>1, ModDistinct
  <2> QED
    BY <2>1, <2>2, SuccMod, SeqTypes DEF SeqIn
<1> QED
  BY <1>2, <1>3

LEMMA PutSyns ==
  ASSUME NEW q \in Seq(AccPackets), NEW p \in AccPackets, SynsFirst(q),
         p.kind = "Syn" => p.seq = InitialSeq
  PROVE  SynsFirst(Put(q, p))
<1>1. CASE closed
  BY <1>1 DEF Put
<1>2. CASE ~ closed
  <2>1. /\ Put(q, p) = Append(q, p) /\ Len(q) \in Nat /\ DOMAIN q = 1 .. Len(q)
        /\ DOMAIN Append(q, p) = 1 .. Len(q) + 1
        /\ Append(q, p)[Len(q) + 1] = p
        /\ \A i \in 1 .. Len(q) : Append(q, p)[i] = q[i]
    BY <1>2 DEF Put
  <2> QED
    BY <2>1 DEF SynsFirst
<1> QED
  BY <1>1, <1>2

(* Nothing else that is sent is a SYN. *)
LEMMA PutAck ==
  ASSUME NEW q \in Seq(AccPackets), SynsFirst(q), NEW s \in Seqs, NEW a \in Seqs,
         NEW m \in 0 .. MaxSend
  PROVE  SynsFirst(Put(q, Ack(s, a))) /\ SynsFirst(Put(q, Data(s, a, m)))
<1>1. /\ Ack(s, a) \in AccPackets /\ Ack(s, a).kind = "Ack"
      /\ Data(s, a, m) \in AccPackets /\ Data(s, a, m).kind = "Ack"
  BY AccPacketTypes DEF Ack, Data
<1> QED
  BY <1>1, PutSyns

NoEaks(q) == \A i \in DOMAIN q : q[i].kind # "Eak"

LEMMA TakeNoEak ==
  ASSUME toAcc \in Seq(DevPackets), NoEaks(toAcc)
  PROVE  /\ \A p \in Incoming : p.kind # "Eak"
         /\ Incoming # {} => NoEaks(Tail(toAcc))
<1>1. CASE toAcc = <<>>
  BY <1>1 DEF Incoming
<1>2. CASE toAcc # <<>>
  <2>1. /\ Len(toAcc) \in Nat /\ 1 \in DOMAIN toAcc /\ Head(toAcc) = toAcc[1]
        /\ \A i \in DOMAIN Tail(toAcc) : i + 1 \in DOMAIN toAcc /\ Tail(toAcc)[i] = toAcc[i + 1]
    BY <1>2
  <2> QED
    BY <2>1 DEF Incoming, NoEaks
<1> QED
  BY <1>1, <1>2

(* A step of the accessory reads a packet or none. *)
Reads == toAcc' = toAcc \/ (Take /\ Incoming # {})

LEMMA NegotiateNumbers ==
  ASSUME LinkTypeOK, LinkNumbers, Negotiate
  PROVE  LinkNumbers'
<1> USE DEF link, call, history, net
<1>0. /\ toDev \in Seq(AccPackets) /\ toAcc \in Seq(DevPackets)
      /\ InitialSeq \in Seqs /\ 0 \in 0 .. MaxSend
  BY LinkAssumption DEF LinkTypeOK
<1>1. NoEaks(toAcc) /\ SynsFirst(toDev)
  BY DEF LinkNumbers, NoEaks
<1>2. Detect \in AccPackets /\ Detect.kind # "Syn" /\ Syn(InitialSeq) \in AccPackets
      /\ Syn(InitialSeq).seq = InitialSeq
  BY <1>0, AccPacketTypes DEF Detect, Syn
<1>3. CASE NegotiateStart
  <2>1. SynsFirst(Put(toDev, Detect)) /\ Put(toDev, Detect) \in Seq(AccPackets)
    BY <1>0, <1>1, <1>2, PutSyns, PutTypes
  <2>2. SynsFirst(toDev')
    BY <1>2, <1>3, <2>1, PutSyns DEF NegotiateStart
  <2>3. NoEaks(toAcc')
    BY <1>0, <1>1, <1>3, TakeNoEak DEF NegotiateStart, Incoming
  <2>4. seq' = InitialSeq /\ pc' \in {"syn", "down"} /\ nSent' = 0
    BY <1>3 DEF NegotiateStart, LinkNumbers
  <2> QED
    BY <2>2, <2>3, <2>4 DEF LinkNumbers, NoEaks, Started
<1>4. ASSUME RetrySyn, pc = "syn", Reads
      PROVE  LinkNumbers'
  <2>1. seq = InitialSeq /\ nSent = 0
    BY <1>4 DEF LinkNumbers
  <2>2. /\ toDev' \in {toDev, Put(toDev, Syn(seq))} /\ seq' = seq /\ nSent' = nSent
        /\ pc' \in {"syn", "down"}
    BY <1>4 DEF RetrySyn
  <2>3. SynsFirst(toDev')
    BY <1>0, <1>1, <1>2, <2>1, <2>2, PutSyns
  <2>4. NoEaks(toAcc')
    BY <1>0, <1>1, <1>4, TakeNoEak DEF Take, Reads
  <2> QED
    BY <2>1, <2>2, <2>3, <2>4 DEF LinkNumbers, NoEaks, Started
<1>5. CASE SynAckOk
  <2>1. PICK p \in Incoming :
          /\ toDev' = Put(toDev, Ack(seq', p.seq)) /\ pc' \in {"idle", "down"}
          /\ seq' = Succ(seq) /\ Take /\ pc = "syn" /\ nSent' = nSent
    BY <1>5 DEF SynAckOk
  <2>2. p.seq \in Seqs
    BY <2>1, TakeTypes, DevPacketFields DEF LinkTypeOK
  <2>3. nSent = 0 /\ seq = InitialSeq
    BY <2>1 DEF LinkNumbers
  <2>4. seq' = SeqIn(nSent' + 1) /\ seq' \in Seqs
    BY <1>0, <2>1, <2>3, SeqInSucc, SeqTypes
  <2>5. SynsFirst(toDev')
    BY <1>0, <1>1, <2>1, <2>2, <2>4, PutAck
  <2>6. NoEaks(toAcc')
    BY <1>0, <1>1, <2>1, TakeNoEak DEF Take
  <2> QED
    BY <2>1, <2>4, <2>5, <2>6 DEF LinkNumbers, NoEaks, Started
<1>6. CASE SynAckBad
  <2>1. RetrySyn /\ pc = "syn" /\ Reads
    BY <1>6 DEF SynAckBad, Reads
  <2> QED
    BY <1>4, <2>1
<1>7. CASE SynTimeout
  <2>1. RetrySyn /\ pc = "syn" /\ Reads
    BY <1>7 DEF SynTimeout, Reads
  <2> QED
    BY <1>4, <2>1
<1> QED
  BY <1>3, <1>5, <1>6, <1>7 DEF Negotiate

(* A step of the established link that spends no number. *)
Spends ==
  /\ UNCHANGED <<seq, nSent, closed>>
  /\ Started /\ pc' \notin {"new", "syn"}
  /\ pc' \in {"reply", "resend"} => out'.kind = "Ack"
  /\ pc' = "resend" => pc = "resend" /\ out' = out

LEMMA NoneSpent ==
  ASSUME LinkTypeOK, LinkNumbers, Spends,
         Reads, SynsFirst(toDev')
  PROVE  LinkNumbers'
<1>1. NoEaks(toAcc) /\ toAcc \in Seq(DevPackets)
  BY DEF LinkNumbers, NoEaks, LinkTypeOK
<1>2. NoEaks(toAcc')
  BY <1>1, TakeNoEak DEF Take, Reads
<1> QED
  BY <1>2 DEF Spends, LinkNumbers, NoEaks, Started

LEMMA ReceiveNumbers ==
  ASSUME LinkTypeOK, LinkNumbers, ReceiveData
  PROVE  LinkNumbers'
<1> USE DEF link, call, history, net
<1>1. SynsFirst(toDev)
  BY DEF LinkNumbers
<1>2. \A a, p : Reply(a, p) => pc' = "reply" /\ out'.kind = "Ack"
  BY DEF Reply, Ack
<1>3. \A p : Deliver(p) => pc' \in {"idle", "answer"}
  BY DEF Deliver
<1>4. CASE RecvPending
  <2>1. Spends
    BY <1>1, <1>2, <1>3, <1>4 DEF RecvPending, Spends, Started
  <2>2. Reads /\ toDev' = toDev
    BY <1>4 DEF RecvPending, Reads
  <2> QED
    BY <1>1, <2>1, <2>2, NoneSpent
<1>5. CASE RecvBuffered \/ RecvInOrder
  <2>1. Spends
    BY <1>1, <1>2, <1>3, <1>5 DEF RecvBuffered, RecvInOrder, Receiving, Spends, Started
  <2>2. Reads /\ toDev' = toDev
    BY <1>5 DEF RecvBuffered, RecvInOrder, Receiving, Reads
  <2> QED
    BY <1>1, <2>1, <2>2, NoneSpent
<1>6. CASE RecvAhead \/ RecvOld
  <2>1. /\ UNCHANGED <<toDev, seq, nSent, closed>> /\ pc = "idle" /\ Take /\ Incoming # {}
        /\ \/ \E a, p : Reply(a, p)
           \/ pc' = pc
    BY <1>6 DEF RecvAhead, RecvOld, Receiving
  <2>2. Spends
    BY <1>2, <2>1 DEF Spends, Started
  <2> QED
    BY <1>1, <2>1, <2>2, NoneSpent DEF Reads
<1>7. CASE RecvIgnore
  BY <1>1, <1>7, NoneSpent DEF RecvIgnore, Receiving, Spends, Started, Reads
<1>8. CASE RecvClosed
  <2>1. pc = "idle" /\ pc' = "down" /\ UNCHANGED <<toDev, toAcc, seq, nSent, closed>>
    BY <1>8 DEF RecvClosed, Receiving
  <2>2. Spends
    BY <2>1 DEF Spends, Started
  <2> QED
    BY <1>1, <2>1, <2>2, NoneSpent DEF Reads
<1>9. CASE ReplyWrite
  <2>1. SynsFirst(Put(toDev, out))
    BY <1>1, <1>9, PutSyns DEF ReplyWrite, LinkNumbers, LinkTypeOK
  <2>2. pc' \in {"idle", "answer", "down"} /\ pc = "reply"
    BY <1>3, <1>9 DEF ReplyWrite
  <2>3. Spends /\ toAcc' = toAcc
    BY <1>9, <2>2 DEF ReplyWrite, Spends, Started
  <2> QED
    BY <1>9, <2>1, <2>3, NoneSpent DEF ReplyWrite, Reads
<1> QED
  BY <1>4, <1>5, <1>6, <1>7, <1>8, <1>9 DEF ReceiveData

LEMMA SendNumbers ==
  ASSUME LinkTypeOK, LinkNumbers, SendData
  PROVE  LinkNumbers'
<1> USE DEF link, call, history, net
<1>0. /\ toDev \in Seq(AccPackets) /\ seq \in Seqs /\ ack \in Seqs
      /\ toAcc \in Seq(DevPackets) /\ nSent \in Nat
  BY LinkAssumption DEF LinkTypeOK
<1>1. SynsFirst(toDev) /\ NoEaks(toAcc) /\ 0 \in 0 .. MaxSend
  BY LinkAssumption DEF LinkNumbers, NoEaks
<1>2. CASE SendStart
  <2>1. nSent' \in 0 .. MaxSend /\ nSent' = nSent + 1
    BY <1>2, LinkAssumption DEF SendStart, LinkTypeOK
  <2>2. SynsFirst(toDev')
    BY <1>0, <1>1, <1>2, <2>1, PutAck DEF SendStart
  <2>3. /\ toAcc' = toAcc /\ closed' = closed /\ pc' \in {"send", "idle", "down"}
        /\ pc = "idle" /\ (~ closed => seq' = Succ(seq))
    BY <1>2 DEF SendStart, MaySend, Written
  <2>4. ~ closed => seq' = SeqIn(nSent' + 1)
    BY <1>0, <2>1, <2>3, SeqInSucc DEF LinkNumbers, Started
  <2> QED
    BY <2>2, <2>3, <2>4 DEF LinkNumbers, Started
<1>3. CASE SendAck
  <2>1. PICK p \in Incoming :
          /\ Take
          /\ \/ toDev' = toDev
             \/ toDev' = Put(toDev, Ack(seq, p.seq))
          /\ pc' \in {"send", "idle", "down"}
    BY <1>3 DEF SendAck, SendFails
  <2>2. p.seq \in Seqs
    BY <2>1, TakeTypes, DevPacketFields DEF LinkTypeOK
  <2>3. SynsFirst(toDev')
    BY <1>0, <1>1, <2>1, <2>2, PutAck
  <2>4. Spends
    BY <1>3, <2>1 DEF SendAck, Spends, Started
  <2> QED
    BY <2>1, <2>3, <2>4, NoneSpent DEF Reads
<1>4. CASE SendEak
  BY <1>0, <1>1, <1>4, TakeNoEak DEF SendEak
<1>5. CASE SendUnexpected \/ SendTimeout \/ SendClosed
  <2>1. Spends /\ toDev' = toDev
    BY <1>5 DEF SendUnexpected, SendTimeout, SendClosed, SendFails, Spends, Started
  <2>2. Reads
    BY <1>5 DEF SendUnexpected, SendTimeout, SendClosed, Reads
  <2> QED
    BY <1>1, <2>1, <2>2, NoneSpent
<1> QED
  BY <1>2, <1>3, <1>4, <1>5 DEF SendData

LEMMA ResendNumbers ==
  ASSUME LinkTypeOK, LinkNumbers, ResendData
  PROVE  LinkNumbers'
<1> USE DEF link, call, history, net
<1>0. /\ toDev \in Seq(AccPackets) /\ seq \in Seqs /\ ack \in Seqs /\ out \in AccPackets
      /\ toAcc \in Seq(DevPackets) /\ nSent \in Nat
  BY LinkAssumption DEF LinkTypeOK
<1>1. SynsFirst(toDev) /\ NoEaks(toAcc) /\ 0 \in 0 .. MaxSend
  BY LinkAssumption DEF LinkNumbers, NoEaks
<1>2. CASE ResendStart
  <2>1. nSent' \in 0 .. MaxSend /\ nSent' = nSent + 1
    BY <1>2, LinkAssumption DEF ResendStart, LinkTypeOK
  <2>2. out' = Data(seq, ack, nSent') /\ out'.seq = seq /\ out'.kind = "Ack"
    BY <1>2 DEF ResendStart, Data
  <2>3. SynsFirst(toDev')
    BY <1>0, <1>1, <1>2, <2>1, <2>2, PutAck DEF ResendStart
  <2>4. /\ toAcc' = toAcc /\ closed' = closed /\ pc' \in {"resend", "down"}
        /\ pc = "answer" /\ (~ closed => seq' = Succ(seq))
    BY <1>2 DEF ResendStart, Written
  <2>5. ~ closed => seq = SeqIn(nSent') /\ seq' = SeqIn(nSent' + 1)
    BY <1>0, <2>1, <2>4, SeqInSucc DEF LinkNumbers, Started
  <2> QED
    BY <2>2, <2>3, <2>4, <2>5 DEF LinkNumbers, Started
<1>3. CASE AnswerSkipped \/ ResendAck \/ ResendOther \/ ResendAborted
  <2>1. Reads
    BY <1>3 DEF AnswerSkipped, ResendAck, ResendOther, ResendAborted, Reads
  <2>2. Spends /\ toDev' = toDev
    BY <1>3 DEF AnswerSkipped, ResendAck, ResendOther, ResendAborted, Spends, Started,
       LinkNumbers
  <2> QED
    BY <1>1, <2>1, <2>2, NoneSpent
<1>4. CASE ResendMessage
  <2>1. PICK p \in Incoming :
          /\ Take
          /\ toDev' = Put(toDev, Ack(seq, p.seq))
          /\ pc' \in {"resend", "idle", "down"}
    BY <1>4 DEF ResendMessage
  <2>2. p.seq \in Seqs
    BY <2>1, TakeTypes, DevPacketFields DEF LinkTypeOK
  <2>3. SynsFirst(toDev')
    BY <1>0, <1>1, <2>1, <2>2, PutAck
  <2>4. Spends
    BY <1>4, <2>1 DEF ResendMessage, Spends, Started, LinkNumbers
  <2> QED
    BY <2>1, <2>3, <2>4, NoneSpent DEF Reads
<1>5. CASE ResendTimeout
  <2>1. toDev' = toDev \/ toDev' = Put(toDev, out)
    BY <1>5 DEF ResendTimeout, Resent
  <2>2. out.kind = "Ack"
    BY <1>5 DEF ResendTimeout, LinkNumbers
  <2>3. SynsFirst(toDev')
    BY <1>0, <1>1, <2>1, <2>2, PutSyns
  <2>4. Spends /\ toAcc' = toAcc
    BY <1>5, <2>2 DEF ResendTimeout, Spends, Started
  <2> QED
    BY <2>3, <2>4, NoneSpent DEF Reads
<1> QED
  BY <1>2, <1>3, <1>4, <1>5 DEF ResendData

LEMMA AccessoryNumbers ==
  ASSUME TypeOK, OutInv, NumberInv, Accessory
  PROVE  /\ NumberInv'
         /\ AddsNone \/ AddsNext \/ AddsAgain
<1>0. LinkTypeOK /\ UNCHANGED device
  BY TypeParts DEF Accessory
<1>1. LinkNumbers'
  BY <1>0, NegotiateNumbers, ReceiveNumbers, SendNumbers, ResendNumbers
  DEF Accessory, NumberInv
<1>2. DeviceStart'
  BY <1>0 DEF NumberInv, DeviceStart, device
<1>3. AddsNone \/ AddsNext \/ AddsAgain
  BY <1>0, NegotiateAdds, ReceiveAdds, SendAdds, ResendAdds
  DEF Accessory, OutInv, ResendIsLast
<1>4. closed' = closed
  BY DEF Accessory, Negotiate, NegotiateStart, SynAckOk, SynAckBad, SynTimeout,
     RetrySyn, ReceiveData, RecvPending, RecvBuffered, RecvInOrder, RecvAhead,
     RecvOld, RecvIgnore, RecvClosed, ReplyWrite, SendData, SendStart, SendAck,
     SendEak, SendUnexpected, SendTimeout, SendClosed, ResendData, ResendStart,
     AnswerSkipped, ResendMessage, ResendAck, ResendOther, ResendTimeout,
     ResendAborted, net
<1>5. LoadNumbers'
  <2>0. nSent \in Nat /\ Len(dGot) \in Nat /\ dGot' = dGot
    BY <1>0, LinkAssumption DEF TypeOK, device
  <2>1. CASE AddsNone
    BY <1>4, <2>0, <2>1 DEF AddsNone, SameLoad, NumberInv, LoadNumbers
  <2>2. CASE AddsNext
    <3> DEFINE p == Data(seq, ack, nSent + 1)
    <3>1. p.pay = nSent + 1 /\ p.seq = seq /\ p.kind = "Ack"
      BY DEF Data
    <3>2. nSent' = nSent + 1 /\ Loads(p) /\ Started
      BY <2>2 DEF AddsNext, Started
    <3> HIDE DEF p
    <3>3. CASE closed
      BY <1>4, <3>2, <3>3 DEF Loads, SameLoad, NumberInv, LoadNumbers
    <3>4. CASE ~ closed
      <4>1. seq = SeqIn(nSent + 1)
        BY <3>2, <3>4 DEF NumberInv, LinkNumbers
      <4>2. PICK l \in Load(toDev') :
              /\ Load(toDev') = Load(toDev) \cup {l} /\ toDev'[l] = p
              /\ \A i \in Load(toDev) : toDev'[i] = toDev[i]
        BY <3>2, <3>4 DEF Loads, MoreLoad
      <4>3. \A i \in Load(toDev') :
              toDev'[i].kind = "Ack" /\ toDev'[i].seq = SeqIn(toDev'[i].pay)
        BY <3>1, <4>1, <4>2 DEF NumberInv, LoadNumbers
      <4>4. ASSUME NEW k \in Len(dGot) + 1 .. nSent + 1
            PROVE  \E i \in Load(toDev') : toDev'[i].pay = k
        <5>1. CASE k = nSent + 1
          BY <3>1, <4>2, <5>1
        <5>2. CASE k \in Len(dGot) + 1 .. nSent
          BY <3>4, <4>2, <5>2 DEF NumberInv, LoadNumbers
        <5> QED
          BY <2>0, <5>1, <5>2
      <4> QED
        BY <2>0, <3>2, <4>3, <4>4 DEF LoadNumbers
    <3> QED
      BY <3>3, <3>4
  <2>3. CASE AddsAgain
    <3>1. nSent' = nSent /\ Loads(out) /\ pc = "resend"
      BY <2>3 DEF AddsAgain
    <3>2. CASE closed
      BY <1>4, <3>1, <3>2 DEF Loads, SameLoad, NumberInv, LoadNumbers
    <3>3. CASE ~ closed
      <4>1. out.kind = "Ack" /\ out.seq = SeqIn(out.pay)
        BY <3>1, <3>3 DEF NumberInv, LinkNumbers, OutInv, ResendIsLast
      <4>2. PICK l \in Load(toDev') :
              /\ Load(toDev') = Load(toDev) \cup {l} /\ toDev'[l] = out
              /\ \A i \in Load(toDev) : toDev'[i] = toDev[i]
        BY <3>1, <3>3 DEF Loads, MoreLoad
      <4> QED
        BY <2>0, <3>1, <3>3, <4>1, <4>2 DEF NumberInv, LoadNumbers
    <3> QED
      BY <3>2, <3>3
  <2> QED
    BY <1>3, <2>1, <2>2, <2>3
<1> QED
  BY <1>1, <1>2, <1>3, <1>5 DEF NumberInv

(* The payload that arrives is the next one, or the last one again. *)
LEMMA HeadLoad ==
  ASSUME TypeOK, OutInv, NumberInv, ~ closed, toDev # <<>>, Head(toDev).pay # 0
  PROVE  LET p == Head(toDev)
             g == Len(dGot)
         IN  /\ g \in Nat /\ 1 \in Load(toDev) /\ p = toDev[1]
             /\ p.pay \in {g, g + 1} /\ p.pay <= nSent /\ p.seq = SeqIn(p.pay)
             /\ p.kind = "Ack"
<1> DEFINE p == Head(toDev)
           g == Len(dGot)
<1>1. /\ toDev \in Seq(AccPackets) /\ dGot \in Seq(0 .. MaxSend) /\ nSent \in Nat
      /\ g \in Nat /\ DOMAIN dGot = 1 .. g
  BY LinkAssumption DEF TypeOK
<1>2. 1 \in Load(toDev) /\ p = toDev[1]
  BY <1>1, TailLoad
<1>3. /\ p.pay \in Nat /\ p.pay >= 1 /\ p.pay <= nSent /\ p.seq = SeqIn(p.pay)
      /\ p.kind = "Ack"
  <2>1. p.pay \in Nat /\ p.pay # 0
    BY <1>1, <1>2, LoadTypes
  <2>2. p.pay <= nSent /\ p.seq = SeqIn(p.pay) /\ p.kind = "Ack"
    BY <1>2 DEF OutInv, OutInOrder, NumberInv, LoadNumbers
  <2> QED
    BY <2>1, <2>2
<1> HIDE DEF p
<1>4. p.pay >= g
  <2>1. CASE g = 0
    BY <1>3, <2>1
  <2>2. CASE g # 0
    <3>1. g \in DOMAIN dGot /\ dGot[g] = g
      BY <1>1, <2>2 DEF NumberInv, DeviceStart
    <3> QED
      BY <1>1, <1>2, <1>3, <3>1 DEF OutInv, GotBefore
  <2> QED
    BY <2>1, <2>2
<1>5. ASSUME p.pay > g + 1 PROVE FALSE
  <2>1. g + 1 \in g + 1 .. nSent
    BY <1>1, <1>3, <1>5
  <2>2. PICK i \in Load(toDev) : toDev[i].pay = g + 1
    BY <2>1 DEF NumberInv, LoadNumbers
  <2>3. i \in Nat /\ i >= 1
    BY <1>1, LoadTypes
  <2>4. toDev[1].pay <= toDev[i].pay
    BY <1>2, <2>3 DEF OutInv, OutInOrder
  <2> QED
    BY <1>1, <1>2, <1>3, <1>5, <2>2, <2>4
<1> QED
  BY <1>1, <1>2, <1>3, <1>4, <1>5 DEF p

LEMMA SendNoEak ==
  ASSUME toAcc \in Seq(DevPackets), NoEaks(toAcc), NEW p, p.kind # "Eak", DevSends(p)
  PROVE  NoEaks(toAcc')
BY DEF DevSends, NoEaks

(* What the device reads without taking it was taken before. *)
LEMMA DropNumbers ==
  ASSUME TypeOK, OutInv, NumberInv, UNCHANGED <<link, call, nSent, dGot, closed>>,
         toDev # <<>>, toDev' = Tail(toDev), ~ closed,
         Head(toDev).pay = 0 \/ Head(toDev).pay = Len(dGot)
  PROVE  SynsFirst(toDev') /\ LoadNumbers'
<1>0. toDev \in Seq(AccPackets) /\ Len(dGot) \in Nat
  BY DEF TypeOK
<1>1. SynsFirst(toDev')
  <2>1. /\ Len(toDev) \in Nat
        /\ \A i \in DOMAIN Tail(toDev) : i + 1 \in DOMAIN toDev /\ Tail(toDev)[i] = toDev[i + 1]
    BY <1>0
  <2> QED
    BY <2>1 DEF NumberInv, LinkNumbers, SynsFirst
<1>2. /\ \A i \in Load(toDev') : i + 1 \in Load(toDev) /\ toDev'[i] = toDev[i + 1]
      /\ Head(toDev) = toDev[1]
      /\ \A i \in Load(toDev) : i # 1 => i - 1 \in Load(toDev') /\ toDev'[i - 1] = toDev[i]
  BY <1>0, TailLoad
<1>3. ASSUME NEW k \in Len(dGot) + 1 .. nSent
      PROVE  \E i \in Load(toDev') : toDev'[i].pay = k
  <2>1. PICK i \in Load(toDev) : toDev[i].pay = k
    BY DEF NumberInv, LoadNumbers
  <2>2. i # 1
    BY <1>0, <1>2, <2>1
  <2> QED
    BY <1>2, <2>1, <2>2
<1>4. \A i \in Load(toDev') :
        toDev'[i].kind = "Ack" /\ toDev'[i].seq = SeqIn(toDev'[i].pay)
  <2>1. \A i \in Load(toDev) :
          toDev[i].kind = "Ack" /\ toDev[i].seq = SeqIn(toDev[i].pay)
    BY DEF NumberInv, LoadNumbers
  <2>2. ASSUME NEW i \in Load(toDev')
        PROVE  toDev'[i].kind = "Ack" /\ toDev'[i].seq = SeqIn(toDev'[i].pay)
    <3>1. i + 1 \in Load(toDev) /\ toDev'[i] = toDev[i + 1]
      BY <1>2
    <3> QED
      BY <2>1, <3>1
  <2> QED
    BY <2>2
<1> QED
  BY <1>1, <1>3, <1>4 DEF LoadNumbers

LEMMA SuccIsAfter ==
  ASSUME NEW s \in Seqs
  PROVE  /\ IsAfter(Succ(s), s)
         /\ ~ IsAfter(Succ(s), Succ(s)) /\ ~ IsAfter(s, Succ(s))
<1>1. s \in Nat /\ s < M /\ M >= 4 /\ M \in Nat /\ M \div 2 >= 2 /\ M \div 2 <= M - 2
  BY MAssumption, SMTT(30) DEF Seqs
<1>2. CASE s + 1 < M
  <2>1. Succ(s) = s + 1
    BY <1>1, <1>2, SMTT(30) DEF Succ
  <2>2. (s + 1 - s) % M = 1 /\ (s + 1 - (s + 1)) % M = 0 /\ (s - (s + 1)) % M = M - 1
    BY <1>1, SMTT(30)
  <2> QED
    BY <1>1, <2>1, <2>2 DEF IsAfter, Diff
<1>3. CASE s + 1 = M
  <2>1. Succ(s) = 0
    BY <1>1, <1>3, SMTT(30) DEF Succ
  <2>2. (0 - s) % M = 1 /\ (0 - 0) % M = 0 /\ (s - 0) % M = M - 1
    BY <1>1, <1>3, SMTT(30)
  <2> QED
    BY <1>1, <2>1, <2>2 DEF IsAfter, Diff
<1> QED
  BY <1>1, <1>2, <1>3

LEMMA DeviceKeepsNumbers ==
  ASSUME TypeOK, OutInv, NumberInv, Device \/ Close
  PROVE  NumberInv'
<1> USE DEF link, call, history, device, linkVars, net
<1>0. /\ toDev \in Seq(AccPackets) /\ toAcc \in Seq(DevPackets)
      /\ dGot \in Seq(0 .. MaxSend) /\ nSent \in Nat /\ Len(dGot) \in Nat
  BY LinkAssumption DEF TypeOK
<1>1. NoEaks(toAcc) /\ SynsFirst(toDev)
  BY DEF NumberInv, LinkNumbers, NoEaks
(* No packet arrives from the accessory. *)
<1>2. ASSUME UNCHANGED <<link, call, nSent, dGot, toDev>>, NoEaks(toAcc'),
             closed' = closed \/ closed', DeviceStart'
      PROVE  NumberInv'
  BY <1>2 DEF NumberInv, LinkNumbers, LoadNumbers, NoEaks, Started
(* One does, and is not taken. *)
<1>3. ASSUME UNCHANGED <<link, call, nSent, dGot, closed>>, NoEaks(toAcc'),
             ~ closed, toDev # <<>>, toDev' = Tail(toDev),
             Head(toDev).pay = 0 \/ Head(toDev).pay = Len(dGot), DeviceStart'
      PROVE  NumberInv'
  <2>1. SynsFirst(toDev') /\ LoadNumbers'
    BY <1>3, DropNumbers
  <2> QED
    BY <1>3, <2>1 DEF NumberInv, LinkNumbers, NoEaks, Started
<1>4. UNCHANGED <<dState, dLast, dGot>> => DeviceStart'
  BY DEF NumberInv, DeviceStart
<1>5. CASE DevStray \/ DevSend
  <2>1. NoEaks(toAcc')
    <3>1. conv.kind # "Eak"
      BY LinkSystemAssumption DEF TypeOK, Conventions
    <3>2. /\ DevPacket("Detect", 0, 0, 0, 0, 0).kind # "Eak"
          /\ Message(dSent + 1, dLast).kind # "Eak"
      BY <3>1 DEF Message, DevPacket
    <3> QED
      BY <1>0, <1>1, <1>5, <3>2, SendNoEak DEF DevStray, DevSend
  <2> QED
    BY <1>2, <1>4, <1>5, <2>1 DEF DevStray, DevSend
<1>6. CASE Close
  BY <1>1, <1>2, <1>4, <1>6 DEF Close
<1>7. CASE DevEstablished
  <2>1. DeviceStart'
    BY <1>7 DEF DevEstablished, NumberInv, DeviceStart
  <2> QED
    BY <1>1, <1>2, <1>7, <2>1 DEF DevEstablished
(* A payload that was not taken is that of the last packet taken. *)
<1>8. ASSUME ~ closed, toDev # <<>>, Head(toDev).pay # 0
      PROVE  /\ Head(toDev).kind = "Ack"
             /\ dState = "up" => \/ Head(toDev).pay = Len(dGot) /\ Head(toDev).seq = dLast
                                 \/ /\ Head(toDev).pay = Len(dGot) + 1
                                    /\ Head(toDev).seq = Succ(dLast)
  <2>1. dState = "up" => dLast = SeqIn(Len(dGot))
    BY DEF NumberInv, DeviceStart
  <2> QED
    BY <1>0, <1>8, <2>1, HeadLoad, SeqInSucc
<1>9. CASE DevDetect \/ DevAcked
  <2>1. /\ toDev # <<>> /\ toDev' = Tail(toDev) /\ ~ closed /\ toAcc' = toAcc
        /\ Head(toDev).kind = "Detect" \/ Head(toDev).pay = 0
    BY <1>9 DEF DevDetect, DevAcked, DevReads, Room
  <2>2. Head(toDev).pay = 0
    BY <1>8, <2>1
  <2> QED
    BY <1>1, <1>3, <1>4, <1>9, <2>1, <2>2 DEF DevDetect, DevAcked
<1>10. CASE DevSyn
  <2>1. PICK p \in Arriving :
          /\ DevReads(p) /\ p.kind = "Syn" /\ dState # "up"
          /\ dState' = "synced" /\ dLast' = p.seq
          /\ DevSends(DevPacket("SynAck", SeqOf(0), p.seq, 0, 0, 0))
    BY <1>10 DEF DevSyn
  <2>2. toDev # <<>> /\ toDev' = Tail(toDev) /\ ~ closed /\ p = Head(toDev)
    BY <2>1 DEF DevReads, Room
  <2>3. p.pay = 0
    BY <1>8, <2>1, <2>2
  <2>4. p.seq = InitialSeq
    <3>1. 1 \in DOMAIN toDev /\ p = toDev[1]
      BY <1>0, <2>2
    <3> QED
      BY <1>1, <2>1, <3>1 DEF SynsFirst
  <2>5. Len(dGot) = 0
    BY <2>1 DEF OutInv, GotBefore
  <2>6. DeviceStart'
    BY <1>10, <2>1, <2>4, <2>5, SeqInSucc DEF DevSyn, NumberInv, DeviceStart
  <2>7. NoEaks(toAcc')
    BY <1>0, <1>1, <2>1, SendNoEak DEF DevPacket
  <2> QED
    BY <1>3, <1>10, <2>2, <2>3, <2>6, <2>7 DEF DevSyn
<1>11. CASE DevTake
  <2>1. PICK p \in Arriving :
          /\ DevReads(p) /\ p.pay # 0 /\ p.seq = Succ(dLast) /\ dState = "up"
          /\ dLast' = p.seq /\ dGot' = Append(dGot, p.pay)
          /\ \/ DevSends(Bare("Ack", p.seq, 0))
             \/ DevSends(Message(dSent + 1, p.seq))
    BY <1>11 DEF DevTake
  <2>2. /\ toDev # <<>> /\ toDev' = Tail(toDev) /\ ~ closed /\ p = Head(toDev)
        /\ UNCHANGED <<link, call, nSent, closed>> /\ dState' = "up"
    BY <1>11, <2>1 DEF DevTake, DevReads, Room
  <2>3. p.pay = Len(dGot) + 1 /\ p.seq = SeqIn(Len(dGot) + 1)
    <3>1. dLast = SeqIn(Len(dGot))
      BY <2>1 DEF NumberInv, DeviceStart
    <3> QED
      BY <1>0, <1>8, <2>1, <2>2, <3>1, SeqInSucc
  <2>4. /\ Len(dGot') = Len(dGot) + 1 /\ DOMAIN dGot' = 1 .. Len(dGot) + 1
        /\ DOMAIN dGot = 1 .. Len(dGot)
        /\ dGot'[Len(dGot) + 1] = p.pay
        /\ \A k \in 1 .. Len(dGot) : dGot'[k] = dGot[k]
    BY <1>0, <2>1
  <2>5. DeviceStart'
    BY <2>1, <2>3, <2>4 DEF NumberInv, DeviceStart
  <2>6. NoEaks(toAcc')
    <3>1. conv.kind # "Eak"
      BY LinkSystemAssumption DEF TypeOK, Conventions
    <3>2. Bare("Ack", p.seq, 0).kind # "Eak" /\ Message(dSent + 1, p.seq).kind # "Eak"
      BY <3>1 DEF Bare, Message, DevPacket
    <3> QED
      BY <1>0, <1>1, <2>1, <3>2, SendNoEak
  <2>7. /\ \A i \in Load(toDev') : i + 1 \in Load(toDev) /\ toDev'[i] = toDev[i + 1]
        /\ Head(toDev) = toDev[1]
        /\ \A i \in Load(toDev) : i # 1 => i - 1 \in Load(toDev') /\ toDev'[i - 1] = toDev[i]
    BY <1>0, <2>2, TailLoad
  <2>8. SynsFirst(toDev')
    <3>1. /\ Len(toDev) \in Nat
          /\ \A i \in DOMAIN Tail(toDev) : i + 1 \in DOMAIN toDev /\ Tail(toDev)[i] = toDev[i + 1]
      BY <1>0, <2>2
    <3> QED
      BY <1>1, <2>2, <3>1 DEF SynsFirst
  <2>9. LoadNumbers'
    <3>1. ASSUME NEW k \in Len(dGot') + 1 .. nSent
          PROVE  \E i \in Load(toDev') : toDev'[i].pay = k
      <4>1. k \in Len(dGot) + 1 .. nSent /\ k # p.pay
        BY <1>0, <2>3, <2>4
      <4>2. PICK i \in Load(toDev) : toDev[i].pay = k
        BY <2>2, <4>1 DEF NumberInv, LoadNumbers
      <4>3. i # 1
        BY <2>2, <2>7, <4>1, <4>2
      <4> QED
        BY <2>7, <4>2, <4>3
    <3>2. \A i \in Load(toDev') :
            toDev'[i].kind = "Ack" /\ toDev'[i].seq = SeqIn(toDev'[i].pay)
      <4>1. \A i \in Load(toDev) :
              toDev[i].kind = "Ack" /\ toDev[i].seq = SeqIn(toDev[i].pay)
        BY DEF NumberInv, LoadNumbers
      <4> QED
        BY <2>7, <4>1
    <3> QED
      BY <2>2, <3>1, <3>2 DEF LoadNumbers
  <2> QED
    BY <2>2, <2>5, <2>6, <2>8, <2>9 DEF NumberInv, LinkNumbers, NoEaks, Started
<1>12. CASE DevOld
  <2>1. /\ toDev # <<>> /\ toDev' = Tail(toDev) /\ ~ closed /\ dState = "up"
        /\ Head(toDev).pay # 0 /\ ~ IsAfter(Head(toDev).seq, dLast)
        /\ DevSends(Bare("Ack", dLast, 0))
    BY <1>12 DEF DevOld, DevReads, Room, Arriving
  <2>2. Head(toDev).pay = Len(dGot)
    <3>1. dLast \in Seqs
      BY DEF TypeOK
    <3>2. IsAfter(Succ(dLast), dLast)
      BY <3>1, SuccIsAfter
    <3> QED
      BY <1>8, <2>1, <3>2
  <2>3. NoEaks(toAcc')
    BY <1>0, <1>1, <2>1, SendNoEak DEF Bare, DevPacket
  <2> QED
    BY <1>3, <1>4, <1>12, <2>1, <2>2, <2>3 DEF DevOld
<1>13. CASE DevGap
  <2>1. /\ toDev # <<>> /\ ~ closed /\ dState = "up"
        /\ Head(toDev).pay # 0 /\ IsAfter(Head(toDev).seq, Succ(dLast))
    BY <1>13 DEF DevGap, DevReads, Room, Arriving
  <2>2. dLast \in Seqs
    BY DEF TypeOK
  <2>3. ~ IsAfter(Succ(dLast), Succ(dLast)) /\ ~ IsAfter(dLast, Succ(dLast))
    BY <2>2, SuccIsAfter
  <2> QED
    BY <1>8, <2>1, <2>3
<1> QED
  BY <1>5, <1>6, <1>7, <1>9, <1>10, <1>11, <1>12, <1>13 DEF Device

LEMMA StepNumbers == TypeOK /\ OutInv /\ NumberInv /\ [Next]_vars => NumberInv'
<1>1. ASSUME NumberInv, UNCHANGED vars PROVE NumberInv'
  BY <1>1 DEF NumberInv, LinkNumbers, LoadNumbers, DeviceStart, Started, vars,
     linkVars, link, call, history, net, device
<1> QED
  BY <1>1, AccessoryNumbers, DeviceKeepsNumbers DEF Next

LEMMA InitNumbers == Init => NumberInv
BY DEF Init, LinkInit, DevInitState, NumberInv, LinkNumbers, LoadNumbers,
       DeviceStart, SynsFirst, Load, Started

(* A step hands a payload to the link, or the device gets the next one.    *)
LEMMA ToDeviceStep ==
  TypeOK /\ OutInv /\ NumberInv /\ [Next]_vars => [ToDevice!Next]_<<nSent, dGot>>
<1> SUFFICES ASSUME TypeOK, OutInv, NumberInv, [Next]_vars
             PROVE  ToDevice!Next \/ UNCHANGED <<nSent, dGot>>
  OBVIOUS
<1> USE DEF link, call, history, device, linkVars, net
<1>1. CASE Accessory
  <2>1. AddsNone \/ AddsNext \/ AddsAgain
    BY <1>1, AccessoryNumbers
  <2>2. dGot' = dGot
    BY <1>1 DEF Accessory
  <2> QED
    BY <2>1, <2>2 DEF AddsNone, AddsNext, AddsAgain, ToDevice!Next, ToDevice!Send
<1>2. CASE DevTake
  <2>1. PICK p \in Arriving :
          /\ DevReads(p) /\ p.pay # 0 /\ p.seq = Succ(dLast)
          /\ dGot' = Append(dGot, p.pay) /\ nSent' = nSent
    BY <1>2 DEF DevTake
  <2>2. toDev # <<>> /\ ~ closed /\ p = Head(toDev) /\ dLast = SeqIn(Len(dGot))
    BY <1>2, <2>1 DEF DevTake, DevReads, Room, NumberInv, DeviceStart
  <2>3. p.pay = Len(dGot) + 1 /\ p.pay <= nSent /\ Len(dGot) \in Nat
    BY <2>1, <2>2, HeadLoad, SeqInSucc
  <2>4. nSent \in Nat
    BY LinkAssumption DEF TypeOK
  <2> QED
    BY <2>1, <2>3, <2>4 DEF ToDevice!Next, ToDevice!Receive
<1>3. CASE (Device /\ ~ DevTake) \/ Close \/ UNCHANGED vars
  BY <1>3 DEF Device, DevStray, DevDetect, DevSyn, DevEstablished, DevAcked, DevOld,
     DevGap, DevSend, Close, vars
<1> QED
  BY <1>1, <1>2, <1>3 DEF Next

(* The link implements the abstract channel towards the device: every      *)
(* payload the device gets is the next one handed to a send.  Any device   *)
(* of the conventions considered, and any number of payloads.              *)
THEOREM LinkIsChannelOut == Spec => FromAccessoryIsChannel
<1>0. [Next]_vars => [AnyNext]_vars
  BY DEF AnyNext
<1>1. TypeOK /\ TypeOK' /\ OutInv /\ [AnyNext]_vars => OutInv'
  BY StepOut
<1>2. TypeOK /\ OutInv /\ NumberInv /\ [Next]_vars => NumberInv'
  BY StepNumbers
<1>3. TypeOK /\ OutInv /\ NumberInv /\ [Next]_vars => [ToDevice!Next]_<<nSent, dGot>>
  BY ToDeviceStep
<1>4. Init => ToDevice!Init
  BY DEF Init, LinkInit, DevInitState, ToDevice!Init
<1> QED
  BY <1>0, <1>1, <1>2, <1>3, <1>4, InitOut, InitNumbers, TypeCorrect, PTL
  DEF Spec, AnySpec, FromAccessoryIsChannel, ToDevice!Spec

-----------------------------------------------------------------------------
(* No send meets what is left of the handshake                             *)

OfHandshake(p) == p.kind \in {"SynAck", "Detect"}

(* The accessory has read a message. *)
HasHeard ==
  \/ delivered # <<>> \/ held # NoPacket \/ rxBuffer # {} \/ pending # <<>>
  \/ pc \in {"answer", "send", "resend"}

(* The device sends messages when the handshake is complete, and nothing   *)
(* of it after them.                                                       *)
HandshakeFirst(q) ==
  /\ \A i \in DOMAIN q : q[i].kind \in {"Ack", "Eak", "SynAck", "Detect"}
  /\ \A i \in DOMAIN q : OfHandshake(q[i]) => q[i].pay = 0
  /\ \A i, j \in DOMAIN q : i < j /\ OfHandshake(q[j]) => OfHandshake(q[i])

NoHandshake(q) == \A i \in DOMAIN q : ~ OfHandshake(q[i])

HandshakeInv ==
  /\ HandshakeFirst(toAcc)
  /\ dState # "up" => \A i \in DOMAIN toAcc : OfHandshake(toAcc[i])
  /\ HasHeard => dState = "up" /\ NoHandshake(toAcc)
  /\ outcome # "Protocol"

(* The device puts its messages in packets of type Ack. *)
AckDevice == \A c \in Convs : c.kind = "Ack"

LEMMA HandshakeTail ==
  ASSUME NEW q \in Seq(DevPackets), q # <<>>, HandshakeFirst(q)
  PROVE  /\ HandshakeFirst(Tail(q))
         /\ NoHandshake(q) => NoHandshake(Tail(q))
         /\ ~ OfHandshake(Head(q)) => NoHandshake(Tail(q))
         /\ (\A i \in DOMAIN q : OfHandshake(q[i])) =>
              \A i \in DOMAIN Tail(q) : OfHandshake(Tail(q)[i])
         /\ Head(q).kind \in {"Ack", "Eak", "SynAck", "Detect"}
         /\ OfHandshake(Head(q)) => Head(q).pay = 0
         /\ NoHandshake(q) => ~ OfHandshake(Head(q))
<1> DEFINE t == Tail(q)
<1>1. /\ Len(q) \in Nat /\ Len(q) >= 1 /\ DOMAIN q = 1 .. Len(q)
      /\ DOMAIN t = 1 .. Len(q) - 1 /\ Head(q) = q[1] /\ 1 \in DOMAIN q
      /\ \A i \in DOMAIN t : t[i] = q[i + 1]
  OBVIOUS
<1> HIDE DEF t
<1>2. \A i \in DOMAIN t : i + 1 \in DOMAIN q /\ 1 < i + 1 /\ t[i] = q[i + 1]
  BY <1>1
<1>3. \A i, j \in DOMAIN t : i < j => i + 1 < j + 1
  BY <1>1
<1>4. HandshakeFirst(t)
  BY <1>2, <1>3 DEF HandshakeFirst
<1>5. ~ OfHandshake(q[1]) => NoHandshake(t)
  BY <1>1, <1>2 DEF HandshakeFirst, NoHandshake
<1> QED
  BY <1>1, <1>2, <1>4, <1>5 DEF HandshakeFirst, NoHandshake, t

LEMMA HandshakeAppend ==
  ASSUME NEW q \in Seq(DevPackets), HandshakeFirst(q), NEW p,
         p.kind \in {"Ack", "Eak"} \/ (/\ OfHandshake(p) /\ p.pay = 0
                                       /\ \A i \in DOMAIN q : OfHandshake(q[i]))
  PROVE  /\ HandshakeFirst(Append(q, p))
         /\ NoHandshake(q) /\ ~ OfHandshake(p) => NoHandshake(Append(q, p))
         /\ OfHandshake(p) => \A i \in DOMAIN Append(q, p) : OfHandshake(Append(q, p)[i])
<1> DEFINE a == Append(q, p)
<1>1. /\ Len(q) \in Nat /\ DOMAIN q = 1 .. Len(q) /\ DOMAIN a = 1 .. Len(q) + 1
      /\ a[Len(q) + 1] = p /\ \A i \in 1 .. Len(q) : a[i] = q[i]
  OBVIOUS
<1> HIDE DEF a
<1>2. \A i \in DOMAIN a : (i \in DOMAIN q /\ a[i] = q[i]) \/ (i = Len(q) + 1 /\ a[i] = p)
  BY <1>1
<1>3. p.kind \in {"Ack", "Eak"} => ~ OfHandshake(p)
  BY DEF OfHandshake
<1>4. \A i, j \in DOMAIN a : i < j /\ OfHandshake(a[j]) => OfHandshake(a[i])
  <2>1. SUFFICES ASSUME NEW i \in DOMAIN a, NEW j \in DOMAIN a, i < j, OfHandshake(a[j])
                 PROVE  OfHandshake(a[i])
    OBVIOUS
  <2>2. i \in DOMAIN q /\ a[i] = q[i]
    BY <1>1, <2>1
  <2>3. CASE j \in DOMAIN q /\ a[j] = q[j]
    BY <2>1, <2>2, <2>3 DEF HandshakeFirst
  <2>4. CASE a[j] = p
    BY <1>3, <2>1, <2>2, <2>4
  <2> QED
    BY <1>2, <2>3, <2>4
<1>5. /\ \A i \in DOMAIN a : a[i].kind \in {"Ack", "Eak", "SynAck", "Detect"}
      /\ \A i \in DOMAIN a : OfHandshake(a[i]) => a[i].pay = 0
  BY <1>2, <1>3 DEF HandshakeFirst, OfHandshake
<1> QED
  BY <1>2, <1>3, <1>4, <1>5 DEF HandshakeFirst, NoHandshake, a

LEMMA DeviceHandshake ==
  ASSUME AckDevice, TypeOK, HandshakeInv, Device \/ Faults \/ Close
  PROVE  HandshakeInv'
<1> USE DEF link, call, history, device, linkVars, net
<1>0. toAcc \in Seq(DevPackets) /\ conv.kind = "Ack" /\ HandshakeFirst(toAcc)
  BY DEF TypeOK, HandshakeInv, AckDevice
<1>1. HasHeard' = HasHeard /\ outcome' = outcome
  BY DEF Device, Faults, DevStray, DevDetect, DevSyn, DevEstablished, DevAcked, DevTake,
     DevOld, DevGap, DevSend, Close, DevResend, LoseToAcc, LoseToDev, HasHeard
(* The device sends nothing. *)
<1>2. ASSUME toAcc' = toAcc, dState' = dState \/ dState' = "up" PROVE HandshakeInv'
  BY <1>1, <1>2 DEF HandshakeInv
(* A packet of a complete handshake. *)
<1>3. ASSUME NEW p, DevSends(p), p.kind \in {"Ack", "Eak"}, dState = "up", dState' = "up"
      PROVE  HandshakeInv'
  <2>1. ~ OfHandshake(p)
    BY <1>3 DEF OfHandshake
  <2> QED
    BY <1>0, <1>1, <1>3, <2>1, HandshakeAppend DEF DevSends, HandshakeInv
(* A packet of the handshake. *)
<1>4. ASSUME NEW p, DevSends(p), OfHandshake(p), p.pay = 0, dState # "up", dState' # "up"
      PROVE  HandshakeInv'
  BY <1>0, <1>1, <1>4, HandshakeAppend DEF DevSends, HandshakeInv
<1>5. \A k, s, a, m, e, n : DevPacket(k, s, a, m, e, n).kind = k
                            /\ DevPacket(k, s, a, m, e, n).pay = m
  BY DEF DevPacket
<1>6. /\ \A n, s : Message(n, s).kind = "Ack"
      /\ \A k, s, e : Bare(k, s, e).kind = k
  BY <1>0 DEF Message, Bare, DevPacket
<1>7. CASE DevStray
  BY <1>4, <1>5, <1>7 DEF DevStray, OfHandshake
<1>8. CASE DevSyn
  <2>1. PICK p \in Arriving :
          /\ dState # "up" /\ dState' = "synced"
          /\ DevSends(DevPacket("SynAck", SeqOf(0), p.seq, 0, 0, 0))
    BY <1>8 DEF DevSyn
  <2> QED
    BY <1>4, <1>5, <2>1 DEF OfHandshake
<1>9. CASE DevDetect \/ DevAcked \/ LoseToDev \/ Close
  BY <1>2, <1>9 DEF DevDetect, DevAcked, LoseToDev, Close
<1>10. CASE DevEstablished
  BY <1>2, <1>10 DEF DevEstablished
<1>11. CASE DevTake
  <2>1. PICK p \in Arriving :
          DevSends(Bare("Ack", p.seq, 0)) \/ DevSends(Message(dSent + 1, p.seq))
    BY <1>11 DEF DevTake
  <2>2. dState = "up" /\ dState' = "up"
    BY <1>11 DEF DevTake
  <2> QED
    BY <1>3, <1>6, <2>1, <2>2
<1>12. CASE DevOld \/ DevGap
  <2>1. \E k \in {"Ack", "Eak"} : \E e : DevSends(Bare(k, dLast, e))
    BY <1>12 DEF DevOld, DevGap
  <2>2. dState = "up" /\ dState' = "up"
    BY <1>12 DEF DevOld, DevGap
  <2> QED
    BY <1>3, <1>6, <2>1, <2>2
<1>13. CASE DevSend \/ DevResend
  <2>1. \E n : DevSends(Message(n, dLast))
    BY <1>13 DEF DevSend, DevResend
  <2>2. dState = "up" /\ dState' = "up"
    BY <1>13 DEF DevSend, DevResend
  <2> QED
    BY <1>3, <1>6, <2>1, <2>2
<1>14. CASE LoseToAcc
  <2>1. toAcc # <<>> /\ toAcc' = Tail(toAcc) /\ dState' = dState
    BY <1>14 DEF LoseToAcc
  <2> QED
    BY <1>0, <1>1, <2>1, HandshakeTail DEF HandshakeInv
<1> QED
  BY <1>7, <1>8, <1>9, <1>10, <1>11, <1>12, <1>13, <1>14 DEF Device, Faults

LEMMA AccessoryHandshake ==
  ASSUME TypeOK, HandshakeInv, Accessory \/ Cancel
  PROVE  HandshakeInv'
<1> USE DEF link, call, history, net
<1>0. toAcc \in Seq(DevPackets) /\ HandshakeFirst(toAcc) /\ dState' = dState
  BY DEF TypeOK, HandshakeInv, Accessory, Cancel, device
(* What a packet that was read tells of those behind it. *)
<1>1. \A p \in Incoming :
        /\ toAcc # <<>> /\ p = Head(toAcc)
        /\ p.pay # 0 \/ HasHeard => ~ OfHandshake(p)
        /\ ~ OfHandshake(p) => dState = "up" /\ NoHandshake(Tail(toAcc))
        /\ p.kind \in {"Ack", "Eak", "SynAck", "Detect"}
  <2>1. SUFFICES ASSUME NEW p \in Incoming, toAcc # <<>>, p = Head(toAcc)
                 PROVE  /\ p.pay # 0 \/ HasHeard => ~ OfHandshake(p)
                        /\ ~ OfHandshake(p) => dState = "up" /\ NoHandshake(Tail(toAcc))
                        /\ p.kind \in {"Ack", "Eak", "SynAck", "Detect"}
    BY DEF Incoming
  <2>2. 1 \in DOMAIN toAcc /\ p = toAcc[1]
    BY <1>0, <2>1
  <2> QED
    BY <1>0, <2>1, <2>2, HandshakeTail DEF HandshakeInv
(* Nothing is read, or a packet that says nothing new. *)
<1>2. ASSUME toAcc' = toAcc \/ (toAcc # <<>> /\ toAcc' = Tail(toAcc)),
             HasHeard' => HasHeard, outcome' # "Protocol"
      PROVE  HandshakeInv'
  BY <1>0, <1>2, HandshakeTail DEF HandshakeInv
(* The first message, or another. *)
<1>3. ASSUME NEW p \in Incoming, Take, p.pay # 0 \/ HasHeard, outcome' # "Protocol"
      PROVE  HandshakeInv'
  <2>1. toAcc # <<>> /\ toAcc' = Tail(toAcc) /\ dState = "up" /\ NoHandshake(toAcc')
    BY <1>1, <1>3 DEF Take
  <2> QED
    BY <1>0, <1>3, <2>1, HandshakeTail DEF HandshakeInv
<1>4. outcome # "Protocol"
  BY DEF HandshakeInv
<1>5. CASE NegotiateStart
  <2>1. toAcc' = toAcc \/ (toAcc # <<>> /\ toAcc' = Tail(toAcc))
    BY <1>5 DEF NegotiateStart
  <2>2. (HasHeard' => HasHeard) /\ outcome' = outcome
    BY <1>5 DEF NegotiateStart, HasHeard
  <2> QED
    BY <1>2, <1>4, <2>1, <2>2
<1>6. CASE SynAckOk \/ SynAckBad \/ SynTimeout
  <2>1. toAcc' = toAcc \/ (toAcc # <<>> /\ toAcc' = Tail(toAcc))
    BY <1>1, <1>6 DEF SynAckOk, SynAckBad, SynTimeout, Take
  <2>2. /\ UNCHANGED <<delivered, held, rxBuffer, pending, outcome>>
        /\ pc' \in {"idle", "syn", "down"}
    BY <1>6 DEF SynAckOk, SynAckBad, SynTimeout, RetrySyn
  <2>3. HasHeard' => HasHeard
    BY <2>2 DEF HasHeard
  <2> QED
    BY <1>2, <1>4, <2>1, <2>2, <2>3
<1>7. CASE RecvPending \/ RecvBuffered \/ RecvClosed \/ ReplyWrite \/ CancelReply
  <2>1. toAcc' = toAcc /\ outcome' = outcome
    BY <1>7 DEF RecvPending, RecvBuffered, RecvClosed, ReplyWrite, CancelReply
  <2>2. HasHeard' => HasHeard
    <3>1. CASE RecvPending \/ RecvBuffered
      BY <3>1 DEF RecvPending, RecvBuffered, Buffered, HasHeard
    <3>2. CASE RecvClosed
      BY <3>2 DEF RecvClosed, HasHeard
    <3>3. CASE ReplyWrite
      BY <3>3 DEF ReplyWrite, HasHeard, Deliver
    <3>4. CASE CancelReply
      BY <3>4 DEF CancelReply, HasHeard
    <3> QED
      BY <1>7, <3>1, <3>2, <3>3, <3>4
  <2> QED
    BY <1>2, <1>4, <2>1, <2>2
<1>8. CASE RecvInOrder \/ RecvAhead \/ RecvOld
  BY <1>3, <1>4, <1>8 DEF RecvInOrder, RecvAhead, RecvOld, HasMessage
<1>9. CASE RecvIgnore
  <2>1. toAcc # <<>> /\ toAcc' = Tail(toAcc)
    BY <1>1, <1>9 DEF RecvIgnore, Take
  <2>2. (HasHeard' => HasHeard) /\ outcome' = outcome
    BY <1>9 DEF RecvIgnore, HasHeard
  <2> QED
    BY <1>2, <1>4, <2>1, <2>2
<1>10. CASE SendStart \/ ResendStart
  <2>1. HasHeard /\ toAcc' = toAcc /\ outcome' # "Protocol"
    BY <1>10 DEF SendStart, ResendStart, MaySend, HasHeard
  <2> QED
    BY <1>2, <2>1
<1>11. CASE SendAck \/ SendEak
  <2>1. HasHeard
    BY <1>11 DEF SendAck, SendEak, HasHeard
  <2>2. outcome' \in {outcome, "ok", "Io"}
    BY <1>11 DEF SendAck, SendEak, SendFails
  <2> QED
    BY <1>3, <1>4, <1>11, <2>1, <2>2 DEF SendAck, SendEak
<1>12. CASE SendUnexpected
  <2>1. PICK p \in Incoming : p.kind \notin {"Ack", "Eak"}
    BY <1>12 DEF SendUnexpected
  <2>2. HasHeard
    BY <1>12 DEF SendUnexpected, HasHeard
  <2> QED
    BY <1>1, <2>1, <2>2 DEF OfHandshake
<1>13. CASE SendTimeout \/ SendClosed \/ AnswerSkipped \/ ResendTimeout \/ ResendAborted
  <2>1. HasHeard /\ toAcc' = toAcc
    BY <1>13 DEF SendTimeout, SendClosed, AnswerSkipped, ResendTimeout, ResendAborted, HasHeard
  <2>2. outcome' \in {outcome, "Timeout", "Io"}
    BY <1>13 DEF SendTimeout, SendClosed, AnswerSkipped, ResendTimeout, ResendAborted, SendFails
  <2> QED
    BY <1>2, <1>4, <2>1, <2>2
<1>14. CASE ResendMessage \/ ResendAck \/ ResendOther
  <2>1. HasHeard
    BY <1>14 DEF ResendMessage, ResendAck, ResendOther, HasHeard
  <2>2. outcome' \in {outcome, "ok", "Io"}
    BY <1>14 DEF ResendMessage, ResendAck, ResendOther
  <2> QED
    BY <1>3, <1>4, <1>14, <2>1, <2>2 DEF ResendMessage, ResendAck, ResendOther
<1> QED
  BY <1>5, <1>6, <1>7, <1>8, <1>9, <1>10, <1>11, <1>12, <1>13, <1>14
  DEF Accessory, Cancel, Negotiate, ReceiveData, SendData, ResendData

(* No send meets a packet it gives up on: from a device that puts its      *)
(* messages in Ack packets, receive_data has read what the handshake left  *)
(* behind when a send may start, whatever is lost or repeated.             *)
THEOREM SendsMeetNoHandshake ==
  ASSUME AckDevice
  PROVE  AnySpec => []NoProtocolError
<1>1. Init => HandshakeInv
  BY DEF Init, LinkInit, DevInitState, HandshakeInv, HandshakeFirst, NoHandshake, HasHeard
<1>2. TypeOK /\ HandshakeInv /\ [AnyNext]_vars => HandshakeInv'
  <2>1. ASSUME HandshakeInv, UNCHANGED vars PROVE HandshakeInv'
    BY <2>1 DEF HandshakeInv, HasHeard, vars, linkVars, link, call, history, net, device
  <2> QED
    BY <2>1, DeviceHandshake, AccessoryHandshake DEF AnyNext, Next
<1>3. HandshakeInv => NoProtocolError
  BY DEF HandshakeInv, NoProtocolError
<1> QED
  BY <1>1, <1>2, <1>3, TypeCorrect, PTL DEF AnySpec
=============================================================================
