-------------------------- MODULE LinkWindowProofs --------------------------
(***************************************************************************)
(* A stream that loses packets, and a device that sends its messages again *)
(* until they are acked.  While only the device sends, in Data packets,    *)
(* receive_data returns every message in order and acks none it then       *)
(* forgets.  The argument is that of a sliding window: what is in flight   *)
(* or buffered lies within one Window of what was received, so that        *)
(* sequence numbers modulo M compare as the messages themselves do.        *)
(***************************************************************************)
EXTENDS LinkProofs

ReceiveOnly == MaxSend = 0 /\ \A c \in Convs : c.kind = "Data"

(* A packet of a device that has sent n messages: a message carries its    *)
(* own number.                                                             *)
Genuine(p, n) ==
  /\ p.kind # "Ack"
  /\ p.kind = "SynAck" => p.seq = SeqOf(0) /\ p.pay = 0
  /\ p.pay # 0 => p.kind = "Data" /\ p.seq = SeqOf(p.pay) /\ p.pay <= n

(* What is in flight ahead of a message is no more than a window ahead. *)
InStep(q) ==
  \A i, j \in 1 .. Len(q) :
    i < j /\ q[j].pay # 0 => q[i].pay < q[j].pay + Window

DeviceWindow ==
  /\ dAcked <= dSent /\ dSent <= dAcked + Window
  /\ dState # "up" => dSent = 0
  /\ \A i \in 1 .. Len(toAcc) : Genuine(toAcc[i], dSent)
  /\ InStep(toAcc)

(* Everything acked was received, and everything received was sent. *)
GotBetween == dAcked <= Got /\ Got <= dSent

(* rx_buffer holds messages still to come, one under each number. *)
BufferAhead ==
  /\ \A q \in rxBuffer : /\ q.kind = "Data" /\ q.seq = SeqOf(q.pay)
                         /\ Got < q.pay /\ q.pay <= dSent
  /\ \A q, r \in rxBuffer : q.pay = r.pay => q = r

(* No message in flight is older than the window. *)
NoneStale ==
  \A i \in 1 .. Len(toAcc) :
    toAcc[i].pay # 0 =>
      /\ Got < toAcc[i].pay + Window
      /\ \A q \in rxBuffer : q.pay < toAcc[i].pay + Window

HeldFollows ==
  /\ held # NoPacket => held.pay # 0
  /\ held.pay # 0 => pc = "reply" /\ held.pay = Len(delivered) + 1

(* self.ack is the number of the last message received in order. *)
AckIsGot ==
  /\ pc \notin {"new", "syn"} => ack = SeqOf(Got)
  /\ pc = "reply" => out.kind = "Ack" /\ out.ack = ack

NoneRead ==
  pc \in {"new", "syn"} =>
    /\ Got = 0 /\ rxBuffer = {} /\ dState # "up"
    /\ \A i \in 1 .. Len(toDev) : toDev[i].kind # "Ack"

(* The acks in flight are of lo to hi messages, and never fall. *)
AcksRise(q, lo, hi) ==
  /\ \A i \in 1 .. Len(q) :
       q[i].kind = "Ack" => \E c \in lo .. hi : q[i].ack = SeqOf(c)
  /\ \A i, j \in 1 .. Len(q), c, d \in lo .. hi :
       /\ i < j /\ q[i].kind = "Ack" /\ q[j].kind = "Ack"
       /\ q[i].ack = SeqOf(c) /\ q[j].ack = SeqOf(d)
       => c <= d

LinkWindow ==
  /\ GotBetween /\ BufferAhead /\ NoneStale /\ HeldFollows /\ AckIsGot
  /\ NoneRead /\ AcksRise(toDev, dAcked, Got)

WindowInv ==
  /\ InOrder
  /\ pending = <<>> /\ pc \notin {"send", "resend", "panic"}
  /\ DeviceWindow
  /\ pc # "down" => LinkWindow

LEMMA SeqOfNear ==
  ASSUME NEW m \in Nat, NEW n \in Nat, m < n + M, n < m + M,
         SeqOf(m) = SeqOf(n)
  PROVE  m = n
<1>1. ~ (m < n) /\ ~ (n < m)
  BY SeqOfDistinct
<1> QED
  BY <1>1

LEMMA WindowSize == Window \in Nat /\ Window + 1 < M /\ Window < M \div 2 /\ M \in Nat
BY LinkSystemAssumption, MAssumption, SMTT(30)

(* A number of the half window up to n is not after n. *)
LEMMA OldIsNotAfter ==
  ASSUME NEW m \in Nat, NEW n \in Nat, m <= n, n < m + M \div 2
  PROVE  ~ IsAfter(SeqOf(m), SeqOf(n))
<1>0. M \in Nat /\ M >= 4 /\ M \div 2 \in Nat /\ 2 * (M \div 2) = M
  BY MAssumption, SMTT(30)
<1>1. DevInit \in Nat
  BY LinkSystemAssumption, MAssumption DEF Seqs
<1>2. PICK p \in Nat, r \in 0 .. M - 1 : DevInit + m = (M * p) + r /\ r = SeqOf(m)
  BY <1>1, Division DEF SeqOf
<1>3. PICK q \in Nat, s \in 0 .. M - 1 : DevInit + n = (M * q) + s /\ s = SeqOf(n)
  BY <1>1, Division DEF SeqOf
<1>4. PICK x \in Int, y \in Int : x = M * p /\ y = M * q
  BY <1>0, <1>2, <1>3
<1>5. /\ r \in Int /\ s \in Int /\ 0 <= r /\ 0 <= s /\ r < M /\ s < M
      /\ r - s = (m - n) + (y - x)
  <2>1. DevInit + m = x + r /\ DevInit + n = y + s
    BY <1>2, <1>3, <1>4
  <2> QED
    BY <2>1, <1>0, <1>1
<1>6. CASE q < p
  <2>1. y + M <= x
    BY <1>4, <1>6, MultiplesApart
  <2> QED
    BY <2>1, <1>0, <1>5
<1>7. CASE p + 1 < q
  <2>1. x + M <= M * (p + 1) /\ M * (p + 1) + M <= y
    BY <1>2, <1>4, <1>7, MultiplesApart
  <2>2. x + M + M <= y
    <3>1. PICK z \in Int : z = M * (p + 1)
      BY <1>0, <1>2
    <3> QED
      BY <2>1, <3>1, <1>0, <1>4
  <2> QED
    BY <2>2, <1>0, <1>5
<1>8. CASE q = p
  <2>1. r - s = m - n
    BY <1>4, <1>5, <1>8
  <2>2. r - s <= 0 /\ r - s > - (M \div 2) /\ r - s \in Int
    BY <2>1, <1>0, <1>5
  <2>3. (r - s) % M = 0 \/ (r - s) % M = (r - s) + M
    BY <2>2, <1>0, SMTT(30)
  <2> QED
    BY <2>2, <2>3, <1>0, <1>2, <1>3 DEF IsAfter, Diff
<1>9. CASE q = p + 1
  <2>1. y = x + M
    <3>1. M * (p + 1) = (M * p) + M
      BY <1>0, <1>2
    <3> QED
      BY <3>1, <1>4, <1>9
  <2>2. r - s = (m - n) + M
    BY <2>1, <1>0, <1>4, <1>5
  <2>3. r - s > M \div 2 /\ r - s < M /\ r - s \in Int
    BY <2>2, <1>0, <1>5
  <2>4. (r - s) % M = r - s
    BY <2>3, <1>0, SMTT(30)
  <2> QED
    BY <2>3, <2>4, <1>0, <1>2, <1>3 DEF IsAfter, Diff
<1> QED
  BY <1>2, <1>3, <1>6, <1>7, <1>8, <1>9

-----------------------------------------------------------------------------
(* The acks in flight                                                      *)

LEMMA RiseWrite ==
  ASSUME NEW q \in Seq(AccPackets), NEW p \in AccPackets,
         NEW lo \in Nat, NEW hi \in Nat, lo <= hi, hi < lo + M,
         AcksRise(q, lo, hi), p.kind = "Ack" => p.ack = SeqOf(hi)
  PROVE  AcksRise(Put(q, p), lo, hi)
<1> DEFINE a == Append(q, p)
<1>1. /\ Len(q) \in Nat /\ Len(a) = Len(q) + 1
      /\ \A i \in 1 .. Len(q) : a[i] = q[i]
      /\ a[Len(q) + 1] = p
  OBVIOUS
<1> HIDE DEF a
<1>2. \A i \in 1 .. Len(a) : i \in 1 .. Len(q) \/ i = Len(q) + 1
  BY <1>1
<1>3. ASSUME NEW i \in 1 .. Len(a), a[i].kind = "Ack"
      PROVE  \E c \in lo .. hi : a[i].ack = SeqOf(c)
  BY <1>1, <1>2, <1>3 DEF AcksRise
<1>4. ASSUME NEW i \in 1 .. Len(a), NEW j \in 1 .. Len(a),
             NEW c \in lo .. hi, NEW d \in lo .. hi,
             i < j, a[i].kind = "Ack", a[j].kind = "Ack",
             a[i].ack = SeqOf(c), a[j].ack = SeqOf(d)
      PROVE  c <= d
  <2>1. i \in 1 .. Len(q)
    BY <1>1, <1>2, <1>4
  <2>2. CASE j \in 1 .. Len(q)
    BY <1>1, <1>4, <2>1, <2>2 DEF AcksRise
  <2>3. CASE j = Len(q) + 1
    <3>1. SeqOf(d) = SeqOf(hi)
      BY <1>1, <1>4, <2>3
    <3>2. d = hi
      BY <3>1, SeqOfNear, MAssumption
    <3> QED
      BY <3>2
  <2> QED
    BY <1>2, <2>2, <2>3
<1>5. AcksRise(a, lo, hi)
  BY <1>3, <1>4 DEF AcksRise
<1> QED
  BY <1>5 DEF Put, a

(* Receiving one more message changes nothing for the acks in flight. *)
LEMMA RiseMore ==
  ASSUME NEW q, NEW lo \in Nat, NEW hi \in Nat, lo <= hi, hi + 1 < lo + M,
         AcksRise(q, lo, hi)
  PROVE  AcksRise(q, lo, hi + 1)
<1>1. ASSUME NEW i \in 1 .. Len(q), q[i].kind = "Ack"
      PROVE  \E c \in lo .. hi + 1 : q[i].ack = SeqOf(c)
  BY <1>1 DEF AcksRise
<1>2. ASSUME NEW i \in 1 .. Len(q), q[i].kind = "Ack", NEW c \in lo .. hi + 1,
             q[i].ack = SeqOf(c)
      PROVE  c \in lo .. hi
  <2>1. PICK d \in lo .. hi : q[i].ack = SeqOf(d)
    BY <1>2 DEF AcksRise
  <2>2. c \in Nat /\ d \in Nat /\ c < d + M /\ d < c + M /\ SeqOf(c) = SeqOf(d)
    BY <1>2, <2>1, MAssumption
  <2>3. c = d
    BY <2>2, SeqOfNear
  <2> QED
    BY <2>1, <2>3
<1> QED
  BY <1>1, <1>2 DEF AcksRise

LEMMA RiseTail ==
  ASSUME NEW q \in Seq(AccPackets), q # <<>>, NEW lo \in Nat, NEW hi \in Nat,
         AcksRise(q, lo, hi)
  PROVE  AcksRise(Tail(q), lo, hi)
<1> DEFINE t == Tail(q)
<1>1. /\ Len(q) \in Nat /\ Len(t) = Len(q) - 1
      /\ \A i \in 1 .. Len(t) : i + 1 \in 1 .. Len(q) /\ t[i] = q[i + 1]
  OBVIOUS
<1> HIDE DEF t
<1>2. \A i, j \in 1 .. Len(t) : i < j => i + 1 < j + 1
  BY <1>1
<1>3. ASSUME NEW i \in 1 .. Len(t), t[i].kind = "Ack"
      PROVE  \E c \in lo .. hi : t[i].ack = SeqOf(c)
  BY <1>1, <1>3 DEF AcksRise
<1>4. ASSUME NEW i \in 1 .. Len(t), NEW j \in 1 .. Len(t), i < j,
             t[i].kind = "Ack", t[j].kind = "Ack",
             NEW c \in lo .. hi, NEW d \in lo .. hi,
             t[i].ack = SeqOf(c), t[j].ack = SeqOf(d)
      PROVE  c <= d
  <2>1. /\ i + 1 \in 1 .. Len(q) /\ j + 1 \in 1 .. Len(q) /\ i + 1 < j + 1
        /\ t[i] = q[i + 1] /\ t[j] = q[j + 1]
    BY <1>1, <1>2, <1>4
  <2> QED
    BY <1>4, <2>1 DEF AcksRise
<1>5. AcksRise(t, lo, hi)
  BY <1>3, <1>4 DEF AcksRise
<1> QED
  BY <1>5 DEF t

(* Once an ack of c messages was read, those behind it ack no fewer. *)
LEMMA RiseRead ==
  ASSUME NEW q \in Seq(AccPackets), q # <<>>, NEW lo \in Nat, NEW hi \in Nat,
         AcksRise(q, lo, hi), Head(q).kind = "Ack",
         NEW c \in lo .. hi, Head(q).ack = SeqOf(c)
  PROVE  AcksRise(Tail(q), c, hi)
<1> DEFINE t == Tail(q)
<1>1. /\ Len(q) \in Nat /\ Len(t) = Len(q) - 1 /\ Head(q) = q[1]
      /\ 1 \in 1 .. Len(q)
      /\ \A i \in 1 .. Len(t) : i + 1 \in 1 .. Len(q) /\ 1 < i + 1 /\ t[i] = q[i + 1]
  OBVIOUS
<1>2. AcksRise(t, lo, hi)
  BY RiseTail
<1> HIDE DEF t
<1>3. ASSUME NEW i \in 1 .. Len(t), t[i].kind = "Ack"
      PROVE  \E d \in c .. hi : t[i].ack = SeqOf(d)
  <2>1. PICK d \in lo .. hi : t[i].ack = SeqOf(d)
    BY <1>2, <1>3 DEF AcksRise
  <2>2. c <= d
    BY SMTT(30), <1>1, <1>3, <2>1 DEF AcksRise
  <2>3. d \in c .. hi
    BY <2>1, <2>2
  <2> QED
    BY <2>1, <2>3
<1>4. c .. hi \subseteq lo .. hi
  OBVIOUS
<1>5. AcksRise(t, c, hi)
  BY <1>2, <1>3, <1>4 DEF AcksRise
<1> QED
  BY <1>5 DEF t

-----------------------------------------------------------------------------
(* The messages in flight                                                  *)

LEMMA WindowTypes ==
  ASSUME TypeOK
  PROVE  /\ LinkTypeOK /\ DeviceTypeOK
         /\ dAcked \in Nat /\ dSent \in Nat /\ Got \in Nat /\ Len(delivered) \in Nat
         /\ \A i \in 1 .. Len(toAcc) : toAcc[i] \in DevPackets /\ toAcc[i].pay \in Nat
         /\ \A q \in rxBuffer : q \in DevPackets /\ q.pay \in Nat
         /\ held \in DevPackets /\ held.pay \in Nat
         /\ toAcc \in Seq(DevPackets) /\ Len(toAcc) \in Nat
         /\ toDev \in Seq(AccPackets)
<1>1. LinkTypeOK /\ DeviceTypeOK
  BY TypeParts
<1>2. toAcc \in Seq(DevPackets) /\ rxBuffer \subseteq DevPackets /\ held \in DevPackets
      /\ toDev \in Seq(AccPackets)
  BY <1>1 DEF LinkTypeOK
<1>3. \A p \in DevPackets : p.pay \in Nat
  BY DevPacketFields
<1>4. dAcked \in Nat /\ dSent \in Nat
  BY <1>1 DEF DeviceTypeOK
<1> QED
  BY <1>1, <1>2, <1>3, <1>4, GotType

(* Reading or losing a packet leaves the rest of them as they were. *)
LEMMA TailWindow ==
  ASSUME TypeOK, DeviceWindow, UNCHANGED device, toAcc # <<>>, toAcc' = Tail(toAcc)
  PROVE  /\ DeviceWindow'
         /\ \A i \in 1 .. Len(toAcc') : \E j \in 1 .. Len(toAcc) : toAcc'[i] = toAcc[j]
         /\ \A i \in 1 .. Len(toAcc') :
              toAcc'[i].pay # 0 => Head(toAcc).pay < toAcc'[i].pay + Window
         /\ Head(toAcc) = toAcc[1] /\ 1 \in 1 .. Len(toAcc)
<1>0. UNCHANGED <<conv, dState, dSent, dAcked>>
  BY DEF device
<1>1. toAcc \in Seq(DevPackets)
  BY WindowTypes
<1>2. /\ Len(toAcc) \in Nat /\ Len(toAcc') = Len(toAcc) - 1
      /\ Head(toAcc) = toAcc[1] /\ 1 \in 1 .. Len(toAcc)
      /\ \A i \in 1 .. Len(toAcc') :
           toAcc'[i] = toAcc[i + 1] /\ i + 1 \in 1 .. Len(toAcc) /\ 1 < i + 1
  BY <1>1
<1>3. \A i, j \in 1 .. Len(toAcc') : i < j => i + 1 < j + 1
  BY <1>2
<1>4. InStep(toAcc) /\ \A i \in 1 .. Len(toAcc) : Genuine(toAcc[i], dSent)
  BY DEF DeviceWindow
<1>5. ASSUME NEW i \in 1 .. Len(toAcc'), NEW j \in 1 .. Len(toAcc'),
             i < j, toAcc'[j].pay # 0
      PROVE  toAcc'[i].pay < toAcc'[j].pay + Window
  <2>1. /\ i + 1 \in 1 .. Len(toAcc) /\ j + 1 \in 1 .. Len(toAcc) /\ i + 1 < j + 1
        /\ toAcc'[i] = toAcc[i + 1] /\ toAcc'[j] = toAcc[j + 1]
    BY <1>2, <1>3, <1>5
  <2> QED
    BY <1>4, <1>5, <2>1 DEF InStep
<1>6. InStep(toAcc')
  BY <1>5 DEF InStep
<1>7. ASSUME NEW i \in 1 .. Len(toAcc') PROVE Genuine(toAcc'[i], dSent')
  <2>1. Genuine(toAcc[i + 1], dSent) /\ toAcc'[i] = toAcc[i + 1]
    BY <1>2, <1>4
  <2> QED
    BY <1>0, <2>1 DEF Genuine
<1>8. DeviceWindow'
  BY <1>0, <1>6, <1>7 DEF DeviceWindow, InStep
<1>9. \A i \in 1 .. Len(toAcc') :
        toAcc'[i].pay # 0 => Head(toAcc).pay < toAcc'[i].pay + Window
  BY <1>2, <1>4 DEF InStep
<1> QED
  BY <1>2, <1>8, <1>9

(* The device sends one packet more, the next message or an older one. *)
LEMMA AppendWindow ==
  ASSUME TypeOK, DeviceWindow, UNCHANGED <<conv, dAcked>>,
         NEW p \in DevPackets, DevSends(p), Genuine(p, dSent'),
         dSent' \in Nat, dSent <= dSent', dSent' <= dAcked + Window,
         dState' # "up" => dSent' = 0,
         p.pay # 0 => \A k \in 0 .. dSent : k < p.pay + Window
  PROVE  DeviceWindow'
<1>1. toAcc \in Seq(DevPackets) /\ dSent \in Nat /\ dAcked \in Nat
      /\ \A i \in 1 .. Len(toAcc) : toAcc[i].pay \in Nat
  BY WindowTypes
<1>2. /\ Len(toAcc) \in Nat /\ Len(toAcc') = Len(toAcc) + 1
      /\ \A i \in 1 .. Len(toAcc) : toAcc'[i] = toAcc[i]
      /\ toAcc'[Len(toAcc) + 1] = p
  BY <1>1 DEF DevSends
<1>3. \A i \in 1 .. Len(toAcc') : i \in 1 .. Len(toAcc) \/ i = Len(toAcc) + 1
  BY <1>2
<1>4. /\ InStep(toAcc) /\ dAcked <= dSent
      /\ \A i \in 1 .. Len(toAcc) : Genuine(toAcc[i], dSent)
  BY DEF DeviceWindow
<1>5. \A i \in 1 .. Len(toAcc) : toAcc[i].pay \in 0 .. dSent
  BY <1>1, <1>4 DEF Genuine
<1>6. ASSUME NEW i \in 1 .. Len(toAcc'), NEW j \in 1 .. Len(toAcc'),
             i < j, toAcc'[j].pay # 0
      PROVE  toAcc'[i].pay < toAcc'[j].pay + Window
  <2>1. i \in 1 .. Len(toAcc)
    BY <1>2, <1>3, <1>6
  <2>2. CASE j \in 1 .. Len(toAcc)
    BY <1>2, <1>4, <1>6, <2>1, <2>2 DEF InStep
  <2>3. CASE j = Len(toAcc) + 1
    BY <1>2, <1>5, <1>6, <2>1, <2>3
  <2> QED
    BY <1>3, <2>2, <2>3
<1>7. ASSUME NEW i \in 1 .. Len(toAcc') PROVE Genuine(toAcc'[i], dSent')
  <2>1. CASE i \in 1 .. Len(toAcc)
    <3>1. Genuine(toAcc[i], dSent) /\ toAcc'[i] = toAcc[i] /\ toAcc[i].pay \in 0 .. dSent
      BY <1>2, <1>4, <1>5, <2>1
    <3> QED
      BY <1>1, <3>1 DEF Genuine
  <2>2. CASE i = Len(toAcc) + 1
    BY <1>2, <2>2 DEF Genuine
  <2> QED
    BY <1>3, <2>1, <2>2
<1>8. dAcked' <= dSent'
  BY <1>1, <1>4
<1> QED
  BY <1>6, <1>7, <1>8 DEF DeviceWindow, InStep

-----------------------------------------------------------------------------
(* The accessory                                                           *)

LEMMA ReadWindow ==
  ASSUME TypeOK, DeviceWindow, LinkWindow, UNCHANGED device,
         NEW p \in Incoming, Take
  PROVE  /\ DeviceWindow'
         /\ \A i \in 1 .. Len(toAcc') :
              toAcc'[i].pay # 0 =>
                /\ p.pay < toAcc'[i].pay + Window
                /\ Got < toAcc'[i].pay + Window
                /\ \A q \in rxBuffer : q.pay < toAcc'[i].pay + Window
         /\ Genuine(p, dSent) /\ p \in DevPackets /\ p.pay \in Nat
         /\ p.pay # 0 => /\ pc \notin {"new", "syn"}
                         /\ Got < p.pay + Window /\ p.pay <= Got + Window
<1>1. toAcc # <<>> /\ p = Head(toAcc) /\ toAcc' = Tail(toAcc)
  BY DEF Incoming, Take
<1>2. /\ DeviceWindow'
      /\ \A i \in 1 .. Len(toAcc') : \E j \in 1 .. Len(toAcc) : toAcc'[i] = toAcc[j]
      /\ \A i \in 1 .. Len(toAcc') : toAcc'[i].pay # 0 => p.pay < toAcc'[i].pay + Window
      /\ p = toAcc[1] /\ 1 \in 1 .. Len(toAcc)
  BY <1>1, TailWindow
<1>3. \A i \in 1 .. Len(toAcc') :
        toAcc'[i].pay # 0 =>
          /\ Got < toAcc'[i].pay + Window
          /\ \A q \in rxBuffer : q.pay < toAcc'[i].pay + Window
  BY <1>2 DEF LinkWindow, NoneStale
<1>4. Genuine(p, dSent) /\ p \in DevPackets /\ p.pay \in Nat
  BY <1>2, WindowTypes DEF DeviceWindow
<1>5. ASSUME p.pay # 0
      PROVE  pc \notin {"new", "syn"} /\ Got < p.pay + Window /\ p.pay <= Got + Window
  <2>1. Got < p.pay + Window
    BY <1>2, <1>5 DEF LinkWindow, NoneStale
  <2>2. /\ p.pay <= dSent /\ dSent <= dAcked + Window /\ dAcked <= Got
        /\ dAcked \in Nat /\ dSent \in Nat /\ Got \in Nat /\ Window \in Nat
    BY <1>4, <1>5, WindowTypes, WindowSize DEF Genuine, DeviceWindow, LinkWindow, GotBetween
  <2>3. p.pay <= Got + Window
    BY <1>4, <2>2
  <2>4. dState = "up"
    BY <1>4, <1>5, <2>2 DEF DeviceWindow
  <2>5. pc \notin {"new", "syn"}
    BY <2>4 DEF LinkWindow, NoneRead
  <2> QED
    BY <2>1, <2>3, <2>5
<1> QED
  BY <1>2, <1>3, <1>4, <1>5

(* A step that neither takes nor returns a message. *)
LEMMA QuietWindow ==
  ASSUME TypeOK, WindowInv, pc # "down", pc # "reply",
         UNCHANGED <<pending, rxBuffer, held, delivered, device>>,
         toAcc' = toAcc \/ (toAcc # <<>> /\ toAcc' = Tail(toAcc)),
         pc' \notin {"send", "resend", "panic"},
         pc' \notin {"new", "syn", "down"} => ack' = SeqOf(Got),
         pc' = "reply" => out'.kind = "Ack" /\ out'.ack = ack',
         pc' \in {"new", "syn"}
           => /\ pc \in {"new", "syn"}
              /\ \A i \in 1 .. Len(toDev') : toDev'[i].kind # "Ack",
         AcksRise(toDev', dAcked, Got)
  PROVE  WindowInv'
<1>0. UNCHANGED <<conv, dState, dSent, dAcked>>
  BY DEF device
<1>1. Got' = Got
  BY DEF Got, Payload
<1>2. LinkWindow /\ DeviceWindow
  BY DEF WindowInv
<1>3. /\ DeviceWindow'
      /\ \A i \in 1 .. Len(toAcc') : \E j \in 1 .. Len(toAcc) : toAcc'[i] = toAcc[j]
  <2>1. CASE toAcc' = toAcc
    BY <1>0, <1>2, <2>1 DEF DeviceWindow
  <2>2. CASE toAcc # <<>> /\ toAcc' = Tail(toAcc)
    BY <1>2, <2>2, TailWindow
  <2> QED
    BY <2>1, <2>2
<1>4. InOrder' /\ pending' = <<>>
  BY DEF WindowInv, InOrder
<1>5. GotBetween' /\ BufferAhead'
  BY <1>0, <1>1, <1>2 DEF LinkWindow, GotBetween, BufferAhead
<1>6. NoneStale'
  BY <1>1, <1>2, <1>3 DEF LinkWindow, NoneStale
<1>7. HeldFollows'
  BY <1>2 DEF LinkWindow, HeldFollows
<1>8. pc' # "down" => AckIsGot'
  BY <1>1 DEF AckIsGot
<1>9. NoneRead'
  BY <1>0, <1>1, <1>2 DEF LinkWindow, NoneRead
<1>10. AcksRise(toDev', dAcked', Got')
  BY <1>0, <1>1
<1>11. pc' # "down" => LinkWindow'
  BY <1>5, <1>6, <1>7, <1>8, <1>9, <1>10 DEF LinkWindow, AcksRise
<1> QED
  BY <1>3, <1>4, <1>11 DEF WindowInv

(* An ack of all that was received may be written at any time, and what is *)
(* not an ack may be.                                                      *)
LEMMA WriteWindow ==
  ASSUME TypeOK, DeviceWindow, LinkWindow, NEW q \in Seq(AccPackets),
         NEW p \in AccPackets, AcksRise(q, dAcked, Got),
         p.kind = "Ack" => p.ack = SeqOf(Got)
  PROVE  AcksRise(Put(q, p), dAcked, Got)
<1>1. /\ dAcked \in Nat /\ Got \in Nat /\ dSent \in Nat /\ dAcked <= Got
      /\ Got <= dSent /\ dSent <= dAcked + Window
  BY WindowTypes DEF DeviceWindow, LinkWindow, GotBetween
<1>2. Got < dAcked + M
  BY <1>1, WindowSize
<1> QED
  BY <1>1, <1>2, RiseWrite

LEMMA NegotiateWindow ==
  ASSUME TypeOK, WindowInv, Negotiate, UNCHANGED device
  PROVE  WindowInv'
<1> USE DEF link, call, history
<1>0. /\ toDev \in Seq(AccPackets) /\ seq \in Seqs /\ InitialSeq \in Seqs
      /\ toAcc \in Seq(DevPackets) /\ 0 \in 0 .. MaxSend
  BY WindowTypes, LinkAssumption DEF TypeOK
<1>1. pc \in {"new", "syn"}
  BY DEF Negotiate, NegotiateStart, SynAckOk, SynAckBad, SynTimeout
<1>2. LinkWindow /\ DeviceWindow
  BY <1>1 DEF WindowInv
<1>3. /\ Got = 0 /\ AcksRise(toDev, dAcked, Got)
      /\ \A i \in 1 .. Len(toDev) : toDev[i].kind # "Ack"
  BY <1>1, <1>2 DEF LinkWindow, NoneRead
(* DETECT and SYN are no acks. *)
<1>4. ASSUME NEW q \in Seq(AccPackets), NEW p \in AccPackets, p.kind # "Ack",
             \A i \in 1 .. Len(q) : q[i].kind # "Ack"
      PROVE  Put(q, p) \in Seq(AccPackets) /\ \A i \in 1 .. Len(Put(q, p)) : Put(q, p)[i].kind # "Ack"
  <2>1. Put(q, p) \in Seq(AccPackets)
    BY PutTypes
  <2>2. CASE closed
    BY <1>4, <2>1, <2>2 DEF Put
  <2>3. CASE ~ closed
    <3>1. \A i \in 1 .. Len(Append(q, p)) :
            IF i = Len(q) + 1 THEN Append(q, p)[i] = p
            ELSE i \in 1 .. Len(q) /\ Append(q, p)[i] = q[i]
      OBVIOUS
    <3> QED
      BY <1>4, <2>1, <2>3, <3>1 DEF Put
  <2> QED
    BY <2>2, <2>3
<1>5. /\ Detect \in AccPackets /\ Syn(InitialSeq) \in AccPackets /\ Syn(seq) \in AccPackets
      /\ Detect.kind # "Ack" /\ Syn(InitialSeq).kind # "Ack" /\ Syn(seq).kind # "Ack"
  <2>1. /\ Detect \in AccPackets /\ Syn(InitialSeq) \in AccPackets /\ Syn(seq) \in AccPackets
    BY <1>0, AccPacketTypes
  <2> QED
    BY <2>1 DEF Detect, Syn
<1>6. \A i \in 1 .. Len(Put(toDev, Syn(seq))) : Put(toDev, Syn(seq))[i].kind # "Ack"
  BY <1>0, <1>3, <1>4, <1>5
<1>7. /\ Put(toDev, Detect) \in Seq(AccPackets)
      /\ \A i \in 1 .. Len(Put(Put(toDev, Detect), Syn(InitialSeq))) :
           Put(Put(toDev, Detect), Syn(InitialSeq))[i].kind # "Ack"
  <2>1. /\ Put(toDev, Detect) \in Seq(AccPackets)
        /\ \A i \in 1 .. Len(Put(toDev, Detect)) : Put(toDev, Detect)[i].kind # "Ack"
    BY <1>0, <1>3, <1>4, <1>5
  <2> QED
    BY <1>4, <1>5, <2>1
<1>8. ASSUME NEW q, \A i \in 1 .. Len(q) : q[i].kind # "Ack"
      PROVE  AcksRise(q, dAcked, Got)
  BY <1>8 DEF AcksRise
<1>9. toAcc' = toAcc \/ (toAcc # <<>> /\ toAcc' = Tail(toAcc))
  BY DEF Negotiate, NegotiateStart, SynAckOk, SynAckBad, SynTimeout, Take, Incoming
<1>10. UNCHANGED <<pending, rxBuffer, held, delivered>>
  BY DEF Negotiate, NegotiateStart, SynAckOk, SynAckBad, SynTimeout, RetrySyn
<1>11. CASE NegotiateStart
  <2>1. /\ toDev' = Put(Put(toDev, Detect), Syn(InitialSeq)) /\ pc' \in {"syn", "down"}
    BY <1>11 DEF NegotiateStart
  <2> QED
    BY <1>1, <1>7, <1>8, <1>9, <1>10, <2>1, QuietWindow
<1>12. CASE SynAckBad \/ SynTimeout
  <2>1. toDev' \in {toDev, Put(toDev, Syn(seq))} /\ pc' \in {"syn", "down"}
    BY <1>12 DEF SynAckBad, SynTimeout, RetrySyn
  <2>2. \A i \in 1 .. Len(toDev') : toDev'[i].kind # "Ack"
    BY <1>3, <1>6, <2>1
  <2> QED
    BY <1>1, <1>8, <1>9, <1>10, <2>1, <2>2, QuietWindow
<1>13. CASE SynAckOk
  <2>1. PICK p \in Incoming :
          /\ Take /\ IsSynAck(p) /\ ack' = p.seq /\ seq' = Succ(seq)
          /\ toDev' = Put(toDev, Ack(seq', p.seq)) /\ pc' \in {"idle", "down"}
    BY <1>13 DEF SynAckOk
  <2>2. p.seq = SeqOf(0) /\ p.seq \in Seqs
    <3>1. Genuine(p, dSent) /\ p \in DevPackets
      BY <1>2, <2>1, ReadWindow
    <3> QED
      BY <2>1, <3>1, DevPacketFields DEF Genuine, IsSynAck
  <2>3. Ack(seq', p.seq) \in AccPackets
    BY <1>0, <2>1, <2>2, AccPacketTypes, SeqTypes
  <2>4. Ack(seq', p.seq).ack = SeqOf(Got)
    BY <1>3, <2>2 DEF Ack
  <2>5. AcksRise(toDev', dAcked, Got)
    BY <1>0, <1>2, <1>3, <2>1, <2>3, <2>4, WriteWindow
  <2>6. ack' = SeqOf(Got)
    BY <1>3, <2>1, <2>2
  <2> QED
    BY <1>1, <1>9, <1>10, <2>1, <2>5, <2>6, QuietWindow
<1> QED
  BY <1>11, <1>12, <1>13 DEF Negotiate

(* The message that follows those received is taken, from the stream or    *)
(* from rx_buffer.                                                         *)
LEMMA TakeWindow ==
  ASSUME TypeOK, WindowInv, pc = "idle", UNCHANGED device, DeviceWindow',
         NEW p \in DevPackets, p.pay = Got + 1, p.seq = SeqOf(Got + 1),
         p.pay <= dSent, Reply(p.seq, p),
         UNCHANGED <<pending, delivered, toDev>>,
         rxBuffer' \subseteq rxBuffer, \A q \in rxBuffer' : q.pay # Got + 1,
         \A i \in 1 .. Len(toAcc') :
           toAcc'[i].pay # 0 =>
             /\ Got + 1 < toAcc'[i].pay + Window
             /\ \A q \in rxBuffer' : q.pay < toAcc'[i].pay + Window
  PROVE  WindowInv'
<1>0. UNCHANGED <<conv, dState, dSent, dAcked>>
  BY DEF device
<1>1. LinkWindow /\ DeviceWindow /\ pending = <<>>
  BY DEF WindowInv
<1>2. /\ dAcked \in Nat /\ dSent \in Nat /\ Got \in Nat /\ Len(delivered) \in Nat
      /\ \A q \in rxBuffer : q.pay \in Nat
  BY WindowTypes
<1>3. held.pay = 0 /\ Got = Len(delivered)
  <2>1. held.pay = 0 /\ Len(pending) = 0
    BY <1>1 DEF LinkWindow, HeldFollows
  <2> QED
    BY <2>1, <1>2 DEF Got, Payload
<1>4. /\ ack' = p.seq /\ out' = Ack(seq, p.seq) /\ held' = p /\ pc' = "reply"
  BY DEF Reply
<1>5. Got' = Got + 1
  <2>1. Payload(held') = 1 /\ Len(pending') = 0 /\ Len(delivered') = Got
    BY <1>1, <1>2, <1>3, <1>4 DEF Payload
  <2>2. Got' = Len(delivered') + Len(pending') + Payload(held')
    BY DEF Got, Payload
  <2> QED
    BY <1>2, <2>1, <2>2
<1>6. InOrder' /\ pending' = <<>>
  BY DEF WindowInv, InOrder
<1>7. GotBetween'
  BY <1>0, <1>1, <1>2, <1>5 DEF LinkWindow, GotBetween
<1>8. BufferAhead'
  <2>1. ASSUME NEW q \in rxBuffer'
        PROVE  q.kind = "Data" /\ q.seq = SeqOf(q.pay) /\ Got' < q.pay /\ q.pay <= dSent'
    <3>1. /\ q.kind = "Data" /\ q.seq = SeqOf(q.pay) /\ Got < q.pay /\ q.pay <= dSent
          /\ q.pay # Got + 1 /\ q.pay \in Nat
      BY <1>1, <1>2, <2>1 DEF LinkWindow, BufferAhead
    <3> QED
      BY <3>1, <1>0, <1>2, <1>5
  <2>2. \A q, r \in rxBuffer' : q.pay = r.pay => q = r
    BY <1>1 DEF LinkWindow, BufferAhead
  <2> QED
    BY <2>1, <2>2 DEF BufferAhead
<1>9. NoneStale'
  BY <1>5 DEF NoneStale
<1>10. HeldFollows'
  BY <1>2, <1>3, <1>4 DEF HeldFollows
<1>11. AckIsGot'
  <2>1. ack' = SeqOf(Got') /\ out'.kind = "Ack" /\ out'.ack = ack'
    BY <1>4, <1>5 DEF Ack
  <2> QED
    BY <2>1 DEF AckIsGot
<1>12. NoneRead'
  BY <1>4 DEF NoneRead
<1>13. AcksRise(toDev', dAcked', Got')
  <2>1. /\ dAcked <= Got /\ Got + 1 <= dAcked + Window /\ AcksRise(toDev, dAcked, Got)
    <3>1. dAcked <= Got /\ dSent <= dAcked + Window /\ AcksRise(toDev, dAcked, Got)
      BY <1>1 DEF LinkWindow, DeviceWindow, GotBetween
    <3>2. Got + 1 <= dSent /\ Window \in Nat
      BY WindowSize
    <3> QED
      BY <1>2, <3>1, <3>2
  <2>2. Got + 1 < dAcked + M
    BY <2>1, <1>2, WindowSize
  <2> QED
    BY <1>0, <1>2, <1>5, <2>1, <2>2, RiseMore
<1>14. LinkWindow'
  BY <1>7, <1>8, <1>9, <1>10, <1>11, <1>12, <1>13 DEF LinkWindow, AcksRise
<1> QED
  BY <1>4, <1>6, <1>14 DEF WindowInv

(* Between two reads of the stream. *)
LEMMA IdleWindow ==
  ASSUME TypeOK, WindowInv, pc = "idle"
  PROVE  /\ LinkWindow /\ DeviceWindow /\ held = NoPacket /\ held.pay = 0
         /\ ack = SeqOf(Got) /\ Succ(ack) = SeqOf(Got + 1)
         /\ AcksRise(toDev, dAcked, Got)
<1>1. LinkWindow /\ DeviceWindow
  BY DEF WindowInv
<1>2. held = NoPacket /\ held.pay = 0
  BY <1>1 DEF LinkWindow, HeldFollows, NoPacket, DevPacket
<1>3. ack = SeqOf(Got)
  BY <1>1 DEF LinkWindow, AckIsGot
<1> QED
  BY <1>1, <1>2, <1>3, SeqOfSucc, WindowTypes DEF LinkWindow

LEMMA BufferedWindow ==
  ASSUME TypeOK, WindowInv, RecvBuffered, UNCHANGED device
  PROVE  WindowInv'
<1>1. pc = "idle"
  BY DEF RecvBuffered
<1>2. PICK p \in rxBuffer : /\ p.seq = Succ(ack) /\ Reply(p.seq, p)
                            /\ rxBuffer' = rxBuffer \ {p}
  BY DEF RecvBuffered, Buffered
<1>3. /\ LinkWindow /\ DeviceWindow /\ Succ(ack) = SeqOf(Got + 1)
  BY <1>1, IdleWindow
<1>4. /\ p \in DevPackets /\ p.pay \in Nat /\ Got \in Nat /\ dSent \in Nat /\ dAcked \in Nat
      /\ \A q \in rxBuffer : q.pay \in Nat
  BY WindowTypes
<1>5. p.seq = SeqOf(p.pay) /\ Got < p.pay /\ p.pay <= dSent
  BY <1>3 DEF LinkWindow, BufferAhead
<1>6. p.pay = Got + 1
  <2>1. p.pay <= Got + Window
    BY <1>3, <1>4, <1>5, WindowSize DEF DeviceWindow, LinkWindow, GotBetween
  <2>2. p.pay < (Got + 1) + M /\ Got + 1 < p.pay + M
    BY <1>4, <1>5, <2>1, WindowSize
  <2> QED
    BY <1>2, <1>3, <1>4, <1>5, <2>2, SeqOfNear
<1>7. UNCHANGED <<pending, delivered, toDev, toAcc>>
  BY DEF RecvBuffered, history, net
<1>8. DeviceWindow'
  BY <1>3, <1>7 DEF DeviceWindow, device
<1>9. \A q \in rxBuffer' : q.pay # Got + 1
  BY <1>2, <1>3, <1>6 DEF LinkWindow, BufferAhead
<1>10. \A i \in 1 .. Len(toAcc') :
         toAcc'[i].pay # 0 =>
           /\ Got + 1 < toAcc'[i].pay + Window
           /\ \A q \in rxBuffer' : q.pay < toAcc'[i].pay + Window
  BY <1>2, <1>3, <1>6, <1>7 DEF LinkWindow, NoneStale
<1> QED
  BY <1>1, <1>2, <1>4, <1>5, <1>6, <1>7, <1>8, <1>9, <1>10, TakeWindow

LEMMA InOrderWindow ==
  ASSUME TypeOK, WindowInv, RecvInOrder, UNCHANGED device
  PROVE  WindowInv'
<1>1. pc = "idle" /\ Buffered = {}
  BY DEF RecvInOrder, Receiving
<1>2. PICK p \in Incoming : Take /\ HasMessage(p) /\ IsExpected(p) /\ Reply(p.seq, p)
  BY DEF RecvInOrder
<1>3. LinkWindow /\ DeviceWindow /\ Succ(ack) = SeqOf(Got + 1)
  BY <1>1, IdleWindow
<1>4. Got \in Nat /\ \A q \in rxBuffer : q.pay \in Nat
  BY WindowTypes
<1>5. /\ DeviceWindow'
      /\ \A i \in 1 .. Len(toAcc') :
           toAcc'[i].pay # 0 =>
             /\ p.pay < toAcc'[i].pay + Window
             /\ \A q \in rxBuffer : q.pay < toAcc'[i].pay + Window
      /\ p \in DevPackets /\ p.pay \in Nat /\ Genuine(p, dSent)
      /\ Got < p.pay + Window /\ p.pay <= Got + Window
  BY <1>2, <1>3, ReadWindow DEF HasMessage
<1>6. p.seq = SeqOf(p.pay) /\ p.pay <= dSent /\ p.seq = Succ(ack)
  BY <1>2, <1>5 DEF HasMessage, Genuine, IsExpected
<1>7. p.pay = Got + 1
  <2>1. p.pay < (Got + 1) + M /\ Got + 1 < p.pay + M /\ Got + 1 \in Nat
    BY <1>4, <1>5, WindowSize
  <2>2. SeqOf(p.pay) = SeqOf(Got + 1)
    BY <1>3, <1>6
  <2> QED
    BY <1>5, <2>1, <2>2, SeqOfNear
<1>8. UNCHANGED <<pending, delivered, toDev, rxBuffer>>
  BY DEF RecvInOrder, history
<1>9. \A q \in rxBuffer : q.pay # Got + 1
  BY <1>1, <1>3 DEF Buffered, LinkWindow, BufferAhead
<1>10. \A i \in 1 .. Len(toAcc') :
         toAcc'[i].pay # 0 =>
           /\ Got + 1 < toAcc'[i].pay + Window
           /\ \A q \in rxBuffer' : q.pay < toAcc'[i].pay + Window
  BY <1>5, <1>7, <1>8
<1> QED
  BY <1>1, <1>2, <1>5, <1>6, <1>7, <1>8, <1>9, <1>10, TakeWindow

(* A message ahead of order is kept beside those already there. *)
LEMMA AheadWindow ==
  ASSUME TypeOK, WindowInv, RecvAhead, UNCHANGED device
  PROVE  WindowInv'
<1>0. UNCHANGED <<conv, dState, dSent, dAcked>>
  BY DEF device
<1>1. pc = "idle"
  BY DEF RecvAhead, Receiving
<1>2. PICK p \in Incoming :
        /\ Take /\ HasMessage(p) /\ IsAfter(p.seq, Succ(ack))
        /\ rxBuffer' = {q \in rxBuffer : q.seq # p.seq} \cup {p}
        /\ IF p.kind = "Data" THEN Reply(ack, NoPacket) ELSE UNCHANGED <<ack, out, held, pc>>
  BY DEF RecvAhead
<1>3. /\ LinkWindow /\ DeviceWindow /\ Succ(ack) = SeqOf(Got + 1) /\ ack = SeqOf(Got)
      /\ held = NoPacket /\ held.pay = 0 /\ AcksRise(toDev, dAcked, Got)
  BY <1>1, IdleWindow
<1>4. Got \in Nat /\ \A q \in rxBuffer : q.pay \in Nat
  BY WindowTypes
<1>5. /\ DeviceWindow'
      /\ \A i \in 1 .. Len(toAcc') :
           toAcc'[i].pay # 0 =>
             /\ p.pay < toAcc'[i].pay + Window
             /\ Got < toAcc'[i].pay + Window
             /\ \A q \in rxBuffer : q.pay < toAcc'[i].pay + Window
      /\ p \in DevPackets /\ p.pay \in Nat /\ Genuine(p, dSent)
      /\ Got < p.pay + Window /\ p.pay <= Got + Window
  BY <1>2, <1>3, ReadWindow DEF HasMessage
<1>6. p.kind = "Data" /\ p.seq = SeqOf(p.pay) /\ p.pay <= dSent
  BY <1>2, <1>5 DEF HasMessage, Genuine
<1>7. Got + 1 < p.pay
  <2>1. SUFFICES ASSUME p.pay <= Got + 1 PROVE FALSE
    BY <1>4, <1>5
  <2>2. Got + 1 < p.pay + M \div 2 /\ Got + 1 \in Nat
    BY <1>4, <1>5, WindowSize, MAssumption, SMTT(30)
  <2>3. ~ IsAfter(SeqOf(p.pay), SeqOf(Got + 1))
    BY <1>5, <2>1, <2>2, OldIsNotAfter
  <2> QED
    BY <1>2, <1>3, <1>6, <2>3
<1>8. /\ ack' = ack /\ out' = Ack(seq, ack) /\ held' = held /\ pc' = "reply"
      /\ UNCHANGED <<pending, delivered, toDev>>
  BY <1>2, <1>3, <1>6 DEF Reply, RecvAhead, history
<1>9. Got' = Got
  BY <1>8 DEF Got, Payload
<1>10. InOrder' /\ pending' = <<>>
  BY <1>8 DEF WindowInv, InOrder
<1>11. GotBetween'
  BY <1>0, <1>3, <1>9 DEF LinkWindow, GotBetween
<1>12. BufferAhead'
  <2>1. ASSUME NEW q \in rxBuffer'
        PROVE  q.kind = "Data" /\ q.seq = SeqOf(q.pay) /\ Got' < q.pay /\ q.pay <= dSent'
    <3>1. CASE q = p
      BY <1>0, <1>4, <1>5, <1>6, <1>7, <1>9, <3>1
    <3>2. CASE q \in rxBuffer
      BY <1>0, <1>3, <1>9, <3>2 DEF LinkWindow, BufferAhead
    <3> QED
      BY <1>2, <2>1, <3>1, <3>2
  <2>2. ASSUME NEW q \in rxBuffer', NEW r \in rxBuffer', q.pay = r.pay PROVE q = r
    <3>1. \A s \in rxBuffer : s.seq = SeqOf(s.pay)
      BY <1>3 DEF LinkWindow, BufferAhead
    <3>2. CASE q = p \/ r = p
      BY <1>2, <1>6, <2>2, <3>1, <3>2
    <3>3. CASE q \in rxBuffer /\ r \in rxBuffer
      BY <1>3, <2>2, <3>3 DEF LinkWindow, BufferAhead
    <3> QED
      BY <1>2, <2>2, <3>2, <3>3
  <2> QED
    BY <2>1, <2>2 DEF BufferAhead
<1>13. NoneStale'
  BY <1>2, <1>5, <1>9 DEF NoneStale
<1>14. HeldFollows'
  BY <1>3, <1>8 DEF HeldFollows
<1>15. AckIsGot'
  BY <1>3, <1>8, <1>9 DEF AckIsGot, Ack
<1>16. NoneRead'
  BY <1>8 DEF NoneRead
<1>17. AcksRise(toDev', dAcked', Got')
  BY <1>0, <1>3, <1>8, <1>9
<1>18. LinkWindow'
  BY <1>11, <1>12, <1>13, <1>14, <1>15, <1>16, <1>17 DEF LinkWindow, AcksRise
<1> QED
  BY <1>5, <1>8, <1>10, <1>18 DEF WindowInv

(* The ack is written; the message it is for is returned. *)
LEMMA ReplyWindow ==
  ASSUME TypeOK, WindowInv, ReplyWrite, UNCHANGED device
  PROVE  WindowInv'
<1>0. UNCHANGED <<conv, dState, dSent, dAcked>>
  BY DEF device
<1>1. /\ pc = "reply" /\ toDev' = Put(toDev, out) /\ held' = NoPacket /\ toAcc' = toAcc
      /\ UNCHANGED <<ack, pending, rxBuffer>>
  BY DEF ReplyWrite, link
<1>2. LinkWindow /\ DeviceWindow /\ pending = <<>> /\ InOrder
  BY <1>1 DEF WindowInv
<1>3. /\ Got \in Nat /\ Len(delivered) \in Nat /\ toDev \in Seq(AccPackets)
      /\ out \in AccPackets /\ delivered \in Seq(0 .. MaxData) /\ held \in DevPackets
  BY WindowTypes DEF TypeOK
<1>4. DeviceWindow'
  BY <1>0, <1>1, <1>2 DEF DeviceWindow
<1>5. NoPacket.pay = 0
  BY DEF NoPacket, DevPacket
<1>6. /\ ack = SeqOf(Got) /\ out.ack = SeqOf(Got)
      /\ held # NoPacket => held.pay = Len(delivered) + 1 /\ held.pay # 0
  BY <1>1, <1>2 DEF LinkWindow, AckIsGot, HeldFollows
<1>7. Got = Len(delivered) + Payload(held)
  <2>1. Len(pending) = 0 /\ Payload(held) \in {0, 1}
    BY <1>2 DEF Payload
  <2> QED
    BY <2>1, <1>3 DEF Got
<1>8. \/ held # NoPacket /\ Deliver(held)
      \/ held = NoPacket /\ pc' = "idle" /\ delivered' = delivered
      \/ pc' = "down" /\ delivered' = delivered
  BY DEF ReplyWrite
<1>9. InOrder' /\ pending' = <<>> /\ pc' \in {"idle", "answer", "down"}
  <2>1. CASE held # NoPacket /\ Deliver(held)
    <3>1. /\ delivered' = Append(delivered, Len(delivered) + 1)
          /\ pc' \in {"idle", "answer"}
      BY <1>6, <2>1 DEF Deliver
    <3>2. \A i \in DOMAIN delivered' :
            IF i = Len(delivered) + 1 THEN delivered'[i] = i
            ELSE i \in DOMAIN delivered /\ delivered'[i] = delivered[i]
      BY <1>3, <3>1
    <3> QED
      BY <1>1, <1>2, <3>1, <3>2 DEF InOrder
  <2>2. CASE delivered' = delivered /\ pc' \in {"idle", "down"}
    BY <1>1, <1>2, <2>2 DEF InOrder
  <2> QED
    BY <1>8, <2>1, <2>2
<1>10. pc' # "down" => Got' = Got
  <2>1. SUFFICES ASSUME pc' # "down" PROVE Got' = Got
    OBVIOUS
  <2>2. Len(delivered') = Got
    <3>1. CASE held # NoPacket /\ Deliver(held)
      <4>1. Len(delivered') = Len(delivered) + 1
        BY <1>3, <3>1 DEF Deliver
      <4> QED
        BY <1>3, <1>6, <1>7, <3>1, <4>1 DEF Payload
    <3>2. CASE held = NoPacket /\ delivered' = delivered
      BY <1>3, <1>5, <1>7, <3>2 DEF Payload
    <3> QED
      BY <1>8, <2>1, <3>1, <3>2
  <2>3. Len(pending') = 0 /\ Payload(held') = 0
    BY <1>1, <1>2, <1>5 DEF Payload
  <2>4. Got' = Len(delivered') + Len(pending') + Payload(held')
    BY DEF Got, Payload
  <2> QED
    BY <1>3, <2>2, <2>3, <2>4
<1>11. AcksRise(toDev', dAcked, Got)
  BY <1>1, <1>2, <1>3, <1>6, WriteWindow DEF LinkWindow
<1>12. pc' # "down" => LinkWindow'
  <2>1. SUFFICES ASSUME Got' = Got, pc' \in {"idle", "answer"} PROVE LinkWindow'
    BY <1>9, <1>10
  <2>2. GotBetween' /\ BufferAhead' /\ NoneStale'
    BY <1>0, <1>1, <1>2, <2>1 DEF LinkWindow, GotBetween, BufferAhead, NoneStale
  <2>3. HeldFollows' /\ AckIsGot' /\ NoneRead'
    BY <1>1, <1>5, <1>6, <2>1 DEF HeldFollows, AckIsGot, NoneRead
  <2>4. AcksRise(toDev', dAcked', Got')
    BY <1>0, <1>11, <2>1
  <2> QED
    BY <2>2, <2>3, <2>4 DEF LinkWindow, AcksRise
<1> QED
  BY <1>4, <1>9, <1>12 DEF WindowInv

LEMMA ReceiveWindow ==
  ASSUME TypeOK, WindowInv, ReceiveData, UNCHANGED device
  PROVE  WindowInv'
<1> USE DEF link, call, history, net
<1>1. CASE RecvPending
  BY <1>1 DEF RecvPending, WindowInv
<1>2. CASE RecvOld \/ RecvIgnore
  <2>1. pc = "idle" /\ UNCHANGED <<pending, rxBuffer, delivered, toDev>>
    BY <1>2 DEF RecvOld, RecvIgnore, Receiving
  <2>2. toAcc # <<>> /\ toAcc' = Tail(toAcc)
    BY <1>2 DEF RecvOld, RecvIgnore, Incoming, Take
  <2>3. held = NoPacket /\ ack = SeqOf(Got) /\ AcksRise(toDev, dAcked, Got)
    BY <2>1, IdleWindow
  <2>4. \/ Reply(ack, NoPacket)
        \/ UNCHANGED <<ack, held, pc>>
    BY <1>2 DEF RecvOld, RecvIgnore
  <2>5. /\ ack' = ack /\ held' = held
        /\ \/ pc' = "reply" /\ out' = Ack(seq, ack)
           \/ pc' = "idle"
    BY <2>1, <2>3, <2>4 DEF Reply
  <2>6. Ack(seq, ack).kind = "Ack" /\ Ack(seq, ack).ack = ack
    BY DEF Ack
  <2>7. pc' = "reply" => out'.kind = "Ack" /\ out'.ack = ack'
    BY <2>5, <2>6
  <2>8. AcksRise(toDev', dAcked, Got)
    BY <2>1, <2>3
  <2> QED
    BY <2>1, <2>2, <2>3, <2>5, <2>7, <2>8, QuietWindow
<1>3. CASE RecvClosed
  <2>1. pc = "idle" /\ pc' = "down" /\ UNCHANGED <<pending, rxBuffer, held, delivered, toAcc, toDev>>
    BY <1>3 DEF RecvClosed, Receiving
  <2>2. AcksRise(toDev', dAcked, Got)
    BY <2>1, IdleWindow
  <2> QED
    BY <2>1, <2>2, QuietWindow
<1>4. CASE RecvBuffered \/ RecvInOrder
  BY <1>4, BufferedWindow, InOrderWindow
<1>5. CASE RecvAhead \/ ReplyWrite
  BY <1>5, AheadWindow, ReplyWindow
<1> QED
  BY <1>1, <1>2, <1>3, <1>4, <1>5 DEF ReceiveData

LEMMA AccessoryWindow ==
  ASSUME ReceiveOnly, TypeOK, WindowInv, Accessory
  PROVE  WindowInv'
<1> USE DEF link, call, history, net
<1>1. UNCHANGED device
  BY DEF Accessory
<1>2. nSent = 0 /\ pc \notin {"send", "resend", "panic"} /\ MaxSend = 0
  BY DEF ReceiveOnly, TypeOK, WindowInv
<1>3. ~ (nSent < MaxSend)
  BY <1>2
<1>4. ~ SendData
  <2>1. ~ SendStart
    BY <1>3 DEF SendStart
  <2>2. SendData => SendStart \/ pc = "send"
    BY DEF SendData, SendAck, SendEak, SendUnexpected, SendTimeout, SendClosed
  <2> QED
    BY <1>2, <2>1, <2>2
<1>5. ResendData => AnswerSkipped
  <2>1. ~ ResendStart
    BY <1>3 DEF ResendStart
  <2>2. ResendData => ResendStart \/ AnswerSkipped \/ pc = "resend"
    BY DEF ResendData, ResendMessage, ResendAck, ResendOther, ResendTimeout, ResendAborted
  <2> QED
    BY <1>2, <2>1, <2>2
<1>6. CASE AnswerSkipped
  <2>1. pc = "answer" /\ pc' = "idle"
        /\ UNCHANGED <<ack, pending, rxBuffer, held, delivered, toAcc, toDev>>
    BY <1>6 DEF AnswerSkipped
  <2>2. ack' = SeqOf(Got) /\ AcksRise(toDev', dAcked, Got)
    BY <2>1 DEF WindowInv, LinkWindow, AckIsGot
  <2> QED
    BY <1>1, <2>1, <2>2, QuietWindow
<1> QED
  BY <1>1, <1>4, <1>5, <1>6, NegotiateWindow, ReceiveWindow DEF Accessory

-----------------------------------------------------------------------------
(* The device and the faults                                               *)

LEMMA DeviceKeepsWindow ==
  ASSUME TypeOK, WindowInv, UNCHANGED <<link, call, history>>,
         DeviceWindow', dSent' \in Nat, dSent <= dSent',
         pc # "down" =>
           /\ dAcked' <= Got
           /\ AcksRise(toDev', dAcked', Got)
           /\ \A i \in 1 .. Len(toAcc') :
                \/ \E j \in 1 .. Len(toAcc) : toAcc'[i] = toAcc[j]
                \/ toAcc'[i].pay # 0 => \A k \in 0 .. dSent : k < toAcc'[i].pay + Window
           /\ dState' = "up" => dState = "up" \/ pc \notin {"new", "syn"}
           /\ \A i \in 1 .. Len(toDev') : \E j \in 1 .. Len(toDev) : toDev'[i] = toDev[j]
  PROVE  WindowInv'
<1>1. UNCHANGED <<ack, pending, rxBuffer, pc, out, held, delivered>>
  BY DEF link, call, history
<1>2. Got' = Got
  BY <1>1 DEF Got, Payload
<1>3. /\ dSent \in Nat /\ Got \in Nat /\ \A q \in rxBuffer : q.pay \in Nat
  BY WindowTypes
<1>4. ASSUME pc # "down" PROVE LinkWindow'
  <2>1. LinkWindow
    BY <1>4 DEF WindowInv
  <2>2. /\ Got <= dSent /\ \A q \in rxBuffer : q.pay <= dSent
    BY <2>1 DEF LinkWindow, GotBetween, BufferAhead
  <2>3. GotBetween'
    BY <1>2, <1>3, <1>4, <2>2 DEF GotBetween
  <2>4. BufferAhead'
    <3>1. \A q \in rxBuffer : q.pay <= dSent'
      BY <1>3, <2>2
    <3> QED
      BY <1>1, <1>2, <2>1, <3>1 DEF LinkWindow, BufferAhead
  <2>5. ASSUME NEW i \in 1 .. Len(toAcc'), toAcc'[i].pay # 0
        PROVE  /\ Got < toAcc'[i].pay + Window
               /\ \A q \in rxBuffer : q.pay < toAcc'[i].pay + Window
    <3>1. CASE \E j \in 1 .. Len(toAcc) : toAcc'[i] = toAcc[j]
      BY <2>1, <2>5, <3>1 DEF LinkWindow, NoneStale
    <3>2. CASE \A k \in 0 .. dSent : k < toAcc'[i].pay + Window
      <4>1. Got \in 0 .. dSent /\ \A q \in rxBuffer : q.pay \in 0 .. dSent
        BY <1>3, <2>2
      <4> QED
        BY <3>2, <4>1
    <3> QED
      BY <1>4, <2>5, <3>1, <3>2
  <2>6. NoneStale'
    BY <1>1, <1>2, <2>5 DEF NoneStale
  <2>7. HeldFollows' /\ AckIsGot'
    BY <1>1, <1>2, <2>1 DEF LinkWindow, HeldFollows, AckIsGot
  <2>8. NoneRead'
    BY <1>1, <1>2, <1>4, <2>1 DEF LinkWindow, NoneRead
  <2>9. AcksRise(toDev', dAcked', Got')
    BY <1>2, <1>4
  <2> QED
    BY <2>3, <2>4, <2>6, <2>7, <2>8, <2>9 DEF LinkWindow, AcksRise
<1>5. InOrder' /\ pending' = <<>> /\ pc' \notin {"send", "resend", "panic"}
  BY <1>1 DEF WindowInv, InOrder
<1> QED
  BY <1>1, <1>4, <1>5 DEF WindowInv

LEMMA ShorterRise ==
  ASSUME TypeOK, WindowInv, pc # "down",
         toDev' = toDev \/ (toDev # <<>> /\ toDev' = Tail(toDev))
  PROVE  /\ AcksRise(toDev', dAcked, Got) /\ dAcked <= Got
         /\ \A i \in 1 .. Len(toDev') : \E j \in 1 .. Len(toDev) : toDev'[i] = toDev[j]
<1>1. AcksRise(toDev, dAcked, Got) /\ dAcked <= Got
  BY DEF WindowInv, LinkWindow, GotBetween
<1>2. AcksRise(toDev', dAcked, Got)
  BY <1>1, RiseTail, WindowTypes
<1> QED
  BY <1>1, <1>2, ArrivingTail, WindowTypes

LEMMA DeviceSendsWindow ==
  ASSUME TypeOK, WindowInv, UNCHANGED <<link, call, history, conv, dAcked>>,
         NEW p \in DevPackets, DevSends(p), Genuine(p, dSent'),
         dSent' \in Nat, dSent <= dSent', dSent' <= dAcked + Window,
         dState' # "up" => dSent' = 0, dState' = "up" => dState = "up",
         p.pay # 0 => \A k \in 0 .. dSent : k < p.pay + Window,
         toDev' = toDev \/ (toDev # <<>> /\ toDev' = Tail(toDev))
  PROVE  WindowInv'
<1>1. DeviceWindow'
  BY AppendWindow DEF WindowInv
<1>2. \A i \in 1 .. Len(toAcc') :
        toAcc'[i] = p \/ \E j \in 1 .. Len(toAcc) : toAcc'[i] = toAcc[j]
  <2>1. /\ Len(toAcc) \in Nat /\ Len(toAcc') = Len(toAcc) + 1
        /\ \A i \in 1 .. Len(toAcc) : toAcc'[i] = toAcc[i]
        /\ toAcc'[Len(toAcc) + 1] = p
    BY WindowTypes DEF DevSends
  <2>2. \A i \in 1 .. Len(toAcc') : i \in 1 .. Len(toAcc) \/ i = Len(toAcc) + 1
    BY <2>1
  <2> QED
    BY <2>1, <2>2
<1>3. pc # "down" =>
        /\ dAcked' <= Got /\ AcksRise(toDev', dAcked', Got)
        /\ \A i \in 1 .. Len(toDev') : \E j \in 1 .. Len(toDev) : toDev'[i] = toDev[j]
  BY ShorterRise
<1> QED
  BY <1>1, <1>2, <1>3, DeviceKeepsWindow

LEMMA DeviceReadsWindow ==
  ASSUME TypeOK, WindowInv, UNCHANGED <<link, call, history, conv, dSent, dAcked, toAcc>>,
         dState' # "up" => dState # "up",
         pc # "down" /\ dState' = "up" => dState = "up" \/ pc \notin {"new", "syn"},
         toDev' = toDev \/ (toDev # <<>> /\ toDev' = Tail(toDev))
  PROVE  WindowInv'
<1>1. DeviceWindow'
  BY DEF WindowInv, DeviceWindow
<1>2. pc # "down" =>
        /\ dAcked' <= Got /\ AcksRise(toDev', dAcked', Got)
        /\ \A i \in 1 .. Len(toDev') : \E j \in 1 .. Len(toDev) : toDev'[i] = toDev[j]
  BY ShorterRise
<1>3. dSent \in Nat /\ dSent <= dSent'
  BY WindowTypes
<1> QED
  BY <1>1, <1>2, <1>3, DeviceKeepsWindow

(* The device learns how many messages were received when it was acked. *)
LEMMA AckedWindow ==
  ASSUME TypeOK, WindowInv, DevAcked
  PROVE  WindowInv'
<1>1. PICK p \in Arriving : DevReads(p) /\ p.kind = "Ack" /\ dAcked' = AckedBy(p)
  BY DEF DevAcked
<1>2. toDev # <<>> /\ p = Head(toDev) /\ toDev' = Tail(toDev)
  BY <1>1 DEF DevReads
<1>3. UNCHANGED <<link, call, history, toAcc, conv, dState, dSent>>
  BY DEF DevAcked
<1>4. /\ toDev \in Seq(AccPackets) /\ dAcked \in Nat /\ dSent \in Nat /\ Got \in Nat
      /\ LinkTypeOK /\ Window \in Nat
  BY WindowTypes, WindowSize
<1>5. /\ dAcked <= dSent /\ dSent <= dAcked + Window
      /\ DeviceWindow
  BY DEF WindowInv, DeviceWindow
<1>6. AckedBy(p) \in dAcked .. dSent
  BY <1>4, <1>5 DEF AckedBy
<1>7. DeviceWindow'
  <2>1. dAcked' \in Nat /\ dAcked <= dAcked' /\ dAcked' <= dSent
    BY <1>1, <1>4, <1>6
  <2>2. dAcked' <= dSent' /\ dSent' <= dAcked' + Window
    <3>1. \A a \in Nat : dAcked <= a => dSent <= a + Window
      BY <1>4, <1>5
    <3> QED
      BY <1>3, <2>1, <3>1
  <2> QED
    BY <1>3, <1>5, <2>2 DEF DeviceWindow
<1>8. \A i \in 1 .. Len(toDev') : \E j \in 1 .. Len(toDev) : toDev'[i] = toDev[j]
  BY <1>2, <1>4, ArrivingTail
<1>9. ASSUME pc # "down" PROVE dAcked' <= Got /\ AcksRise(toDev', dAcked', Got)
  <2>1. AcksRise(toDev, dAcked, Got) /\ dAcked <= Got /\ Got <= dSent
    BY <1>9 DEF WindowInv, LinkWindow, GotBetween
  <2>2. p = toDev[1] /\ 1 \in 1 .. Len(toDev)
    BY <1>2, <1>4
  <2>3. PICK c \in dAcked .. Got : p.ack = SeqOf(c)
    BY <1>1, <2>1, <2>2 DEF AcksRise
  <2>4. c \in dAcked .. dSent
    BY <1>4, <2>1, <2>3
  <2>5. /\ AckedBy(p) \in dAcked .. dSent /\ SeqOf(AckedBy(p)) = SeqOf(c)
    BY <2>3, <2>4 DEF AckedBy
  <2>6. AckedBy(p) = c
    <3>1. PICK k \in Nat : /\ k = AckedBy(p) /\ dAcked <= k /\ k <= dSent
                           /\ SeqOf(k) = SeqOf(c)
      BY <1>4, <2>5
    <3>2. c \in Nat /\ k < c + M /\ c < k + M
      BY <1>4, <1>5, <2>4, <3>1, WindowSize
    <3> QED
      BY <3>1, <3>2, SeqOfNear
  <2>7. AcksRise(Tail(toDev), c, Got)
    BY <1>1, <1>2, <1>4, <2>1, <2>3, RiseRead
  <2> QED
    BY <1>1, <1>2, <2>3, <2>6, <2>7
<1>10. dSent' \in Nat /\ dSent <= dSent'
  BY <1>3, <1>4
<1>11. \A i \in 1 .. Len(toAcc') : \E j \in 1 .. Len(toAcc) : toAcc'[i] = toAcc[j]
  BY <1>3
<1> QED
  BY <1>3, <1>7, <1>8, <1>9, <1>10, <1>11, DeviceKeepsWindow

LEMMA DeviceWindowSteps ==
  ASSUME ReceiveOnly, TypeOK, WindowInv, Device \/ Faults \/ Close
  PROVE  WindowInv'
<1> USE DEF linkVars, device, net
<1>0. /\ toDev \in Seq(AccPackets) /\ dAcked \in Nat /\ dSent \in Nat
      /\ DeviceTypeOK /\ Window \in Nat /\ 0 \in 0 .. MaxData
  BY WindowTypes, WindowSize, LinkSystemAssumption
<1>1. DeviceWindow /\ dAcked <= dSent /\ dSent <= dAcked + Window
      /\ (dState # "up" => dSent = 0)
  BY DEF WindowInv, DeviceWindow
<1>2. conv.kind = "Data"
  BY <1>0 DEF ReceiveOnly, DeviceTypeOK
(* The accessory sends nothing the device could take. *)
<1>3. \A p \in Arriving : p.pay = 0 /\ p \in AccPackets
  <2>1. \A p \in AccPackets : p.pay = 0
    BY DEF AccPackets, ReceiveOnly
  <2> QED
    BY <1>0, <2>1 DEF Arriving
<1>4. CASE DevStray
  <2>1. DevPacket("Detect", 0, 0, 0, 0, 0) \in DevPackets
    BY <1>0, SeqTypes DEF DevPacket, DevPackets
  <2>2. Genuine(DevPacket("Detect", 0, 0, 0, 0, 0), dSent)
        /\ DevPacket("Detect", 0, 0, 0, 0, 0).pay = 0
    BY DEF DevPacket, Genuine
  <2> QED
    BY <1>0, <1>1, <1>4, <2>1, <2>2, DeviceSendsWindow DEF DevStray
<1>5. CASE DevSyn
  <2>1. PICK p \in Arriving :
          /\ DevReads(p) /\ dState # "up" /\ dState' = "synced"
          /\ DevSends(DevPacket("SynAck", SeqOf(0), p.seq, 0, 0, 0))
    BY <1>5 DEF DevSyn
  <2>2. p.seq \in Seqs
    BY <1>3, <2>1 DEF AccPackets
  <2>3. DevPacket("SynAck", SeqOf(0), p.seq, 0, 0, 0) \in DevPackets
    BY <1>0, <2>2, DevicePacketTypes
  <2>4. Genuine(DevPacket("SynAck", SeqOf(0), p.seq, 0, 0, 0), dSent)
        /\ DevPacket("SynAck", SeqOf(0), p.seq, 0, 0, 0).pay = 0
    BY DEF DevPacket, Genuine
  <2>5. toDev # <<>> /\ toDev' = Tail(toDev) /\ UNCHANGED <<link, call, history, conv, dAcked, dSent>>
    BY <1>5, <2>1 DEF DevReads, DevSyn
  <2> QED
    BY <1>0, <1>1, <2>1, <2>3, <2>4, <2>5, DeviceSendsWindow
<1>6. CASE DevDetect
  BY <1>6, DeviceReadsWindow DEF DevDetect, DevReads
<1>7. CASE DevEstablished
  <2>1. PICK p \in Arriving : p.kind = "Ack"
    BY <1>7 DEF DevEstablished
  <2>2. 1 \in 1 .. Len(toDev) /\ p = toDev[1]
    BY <1>0, <2>1 DEF Arriving
  <2>3. pc # "down" => pc \notin {"new", "syn"}
    BY <2>1, <2>2 DEF WindowInv, LinkWindow, NoneRead
  <2>4. UNCHANGED <<link, call, history, conv, dSent, dAcked, toAcc, toDev>> /\ dState' = "up"
    BY <1>7 DEF DevEstablished
  <2> QED
    BY <2>3, <2>4, DeviceReadsWindow
<1>8. CASE DevAcked
  BY <1>8, AckedWindow
<1>9. CASE DevTake \/ DevOld \/ DevGap
  BY <1>3, <1>9 DEF DevTake, DevOld, DevGap
<1>10. ASSUME NEW n \in Nat, n # 0, dAcked < n, n <= dSent + 1, n <= dSent', n <= MaxData,
              dSent' \in Nat, dSent <= dSent', dSent' <= dAcked + Window,
              dState = "up", dState' = "up", DevSends(Message(n, dLast)),
              UNCHANGED <<link, call, history, conv, dAcked, toDev>>
       PROVE  WindowInv'
  <2>1. n \in 0 .. MaxData /\ dLast \in Seqs
    BY <1>0, <1>10, LinkSystemAssumption DEF DeviceTypeOK
  <2>2. Message(n, dLast) \in DevPackets
    BY <1>0, <2>1, DevicePacketTypes
  <2>3. Genuine(Message(n, dLast), dSent') /\ Message(n, dLast).pay = n
    BY <1>2, <1>10 DEF Message, DevPacket, Genuine
  <2>4. \A k \in 0 .. dSent : k < n + Window
    BY <1>0, <1>1, <1>10
  <2> QED
    BY <1>10, <2>2, <2>3, <2>4, DeviceSendsWindow
<1>11. CASE DevSend
  <2>1. /\ dSent < MaxData /\ dSent - dAcked < Window /\ dSent' = dSent + 1
        /\ DevSends(Message(dSent + 1, dLast)) /\ dState = "up" /\ dState' = "up"
        /\ UNCHANGED <<link, call, history, conv, dAcked, toDev>>
    BY <1>11 DEF DevSend
  <2>2. /\ dSent + 1 \in Nat /\ dSent + 1 # 0 /\ dAcked < dSent + 1 /\ dSent + 1 <= MaxData
        /\ dSent + 1 <= dAcked + Window /\ dSent <= dSent + 1 /\ dSent + 1 <= dSent'
    BY <1>0, <1>1, <2>1, LinkSystemAssumption
  <2> QED
    BY <1>10, <2>1, <2>2
<1>12. CASE DevResend
  <2>1. PICK n \in dAcked + 1 .. dSent : DevSends(Message(n, dLast))
    BY <1>12 DEF DevResend
  <2>2. /\ dState = "up" /\ dState' = "up" /\ dSent' = dSent
        /\ UNCHANGED <<link, call, history, conv, dAcked, toDev>>
    BY <1>12 DEF DevResend
  <2>3. dSent <= MaxData /\ MaxData \in Nat
    BY <1>0, LinkSystemAssumption DEF DeviceTypeOK
  <2>4. /\ n \in Nat /\ n # 0 /\ dAcked < n /\ n <= dSent + 1 /\ n <= dSent /\ n <= MaxData
    BY <1>0, <2>1, <2>3
  <2> QED
    BY <1>0, <1>1, <1>10, <2>1, <2>2, <2>4
<1>13. CASE LoseToDev
  BY <1>13, DeviceReadsWindow DEF LoseToDev
<1>14. CASE Close
  BY <1>14, DeviceReadsWindow DEF Close
<1>15. CASE LoseToAcc
  <2>1. /\ toAcc # <<>> /\ toAcc' = Tail(toAcc) /\ toDev' = toDev
        /\ UNCHANGED <<link, call, history, device>>
    BY <1>15 DEF LoseToAcc
  <2>2. /\ DeviceWindow'
        /\ \A i \in 1 .. Len(toAcc') : \E j \in 1 .. Len(toAcc) : toAcc'[i] = toAcc[j]
    BY <1>1, <2>1, TailWindow
  <2>3. pc # "down" =>
          /\ dAcked' <= Got /\ AcksRise(toDev', dAcked', Got)
          /\ \A i \in 1 .. Len(toDev') : \E j \in 1 .. Len(toDev) : toDev'[i] = toDev[j]
    BY <2>1, ShorterRise
  <2>4. dSent' \in Nat /\ dSent <= dSent' /\ dState' = dState
    BY <1>0, <2>1
  <2> QED
    BY <2>1, <2>2, <2>3, <2>4, DeviceKeepsWindow
<1> QED
  BY <1>4, <1>5, <1>6, <1>7, <1>8, <1>9, <1>11, <1>12, <1>13, <1>14, <1>15
  DEF Device, Faults

LEMMA InitWindow == Init => WindowInv
<1> SUFFICES ASSUME Init PROVE WindowInv
  OBVIOUS
<1>1. /\ toAcc = <<>> /\ toDev = <<>> /\ delivered = <<>> /\ pending = <<>>
      /\ rxBuffer = {} /\ held = NoPacket /\ pc = "new"
      /\ dState = "listen" /\ dSent = 0 /\ dAcked = 0
  BY DEF Init, LinkInit, DevInitState
<1>2. NoPacket.pay = 0
  BY DEF NoPacket, DevPacket
<1>3. Got = 0
  BY <1>1, <1>2 DEF Got, Payload
<1>4. DeviceWindow
  BY <1>1, WindowSize DEF DeviceWindow, InStep
<1>5. GotBetween /\ BufferAhead /\ NoneStale /\ HeldFollows /\ AckIsGot /\ NoneRead
  BY <1>1, <1>2, <1>3 DEF GotBetween, BufferAhead, NoneStale, HeldFollows, AckIsGot, NoneRead
<1>6. AcksRise(toDev, dAcked, Got)
  BY <1>1 DEF AcksRise
<1> QED
  BY <1>1, <1>4, <1>5, <1>6 DEF WindowInv, LinkWindow, InOrder

LEMMA StepWindow ==
  ASSUME ReceiveOnly, TypeOK, WindowInv, [Next \/ Faults]_vars
  PROVE  WindowInv'
<1>1. CASE UNCHANGED vars
  <2>1. /\ UNCHANGED <<link, call, history, conv, dSent, dAcked, dState, toAcc, toDev>>
    BY <1>1 DEF vars, linkVars, device, net
  <2> QED
    BY <2>1, DeviceReadsWindow
<1> QED
  BY <1>1, AccessoryWindow, DeviceWindowSteps DEF Next

LEMMA WindowAlways ==
  ASSUME ReceiveOnly
  PROVE  FaultySpec => []WindowInv /\ []TypeOK
<1>1. TypeOK /\ WindowInv /\ [Next \/ Faults]_vars => WindowInv'
  BY StepWindow
<1>2. TypeOK /\ [Next \/ Faults]_vars => TypeOK'
  BY StepTypes DEF AnyNext
<1> QED
  BY <1>1, <1>2, InitWindow, InitTypes, PTL DEF FaultySpec

(* While only the device sends, in Data packets, receive_data returns its  *)
(* messages in order, none skipped and none twice, whatever is lost and    *)
(* whatever the device sends again: the number in self.ack, the half       *)
(* window of is_seq_after and rx_buffer see to it.                         *)
THEOREM LossyInOrder ==
  ASSUME ReceiveOnly
  PROVE  FaultySpec => []InOrder
<1>1. WindowInv => InOrder
  BY DEF WindowInv
<1> QED
  BY <1>1, WindowAlways, PTL

(* In such a session no message is acked and then forgotten: each one the  *)
(* device will not send again was returned by receive_data or is about to  *)
(* be.                                                                     *)
THEOREM LossyAckedIsKept ==
  ASSUME ReceiveOnly
  PROVE  FaultySpec => []AckedIsKept
<1>1. ASSUME TypeOK, WindowInv PROVE AckedIsKept
  <2>1. SUFFICES ASSUME Running, NEW k \in 1 .. dAcked PROVE k \in Returned \cup Kept
    BY DEF AckedIsKept
  <2>2. /\ Got \in Nat /\ Len(delivered) \in Nat /\ dAcked \in Nat
        /\ delivered \in Seq(0 .. MaxData)
    BY <1>1, WindowTypes DEF TypeOK
  <2>3. /\ LinkWindow /\ InOrder /\ pending = <<>>
    BY <1>1, <2>1 DEF WindowInv, Running
  <2>4. k \in 1 .. Got
    BY <2>2, <2>1, <2>3 DEF LinkWindow, GotBetween
  <2>5. CASE k <= Len(delivered)
    <3>1. k \in DOMAIN delivered /\ delivered[k] = k
      BY <2>2, <2>3, <2>4, <2>5 DEF InOrder
    <3> QED
      BY <3>1 DEF Returned
  <2>6. CASE Len(delivered) < k
    <3>1. Len(pending) = 0 /\ Payload(held) \in {0, 1}
      BY <2>3 DEF Payload
    <3>2. Payload(held) = 1 /\ k = Len(delivered) + 1
      BY <2>2, <2>4, <2>6, <3>1 DEF Got
    <3>3. held.pay = k
      BY <2>3, <3>2 DEF Payload, LinkWindow, HeldFollows
    <3> QED
      BY <3>3 DEF Kept
  <2> QED
    BY <2>2, <2>4, <2>5, <2>6
<1> QED
  BY <1>1, WindowAlways, PTL
=============================================================================
