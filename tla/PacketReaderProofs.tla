------------------------- MODULE PacketReaderProofs -------------------------
(***************************************************************************)
(* Proofs about the reader of packets: its types, that the split of the    *)
(* stream does not matter, that its buffer stays bounded, and that it      *)
(* implements LossyChannel.                                                *)
(*                                                                         *)
(* The first three rest on ReaderInv, with the fact about ParseAll that    *)
(* bytes which come later do not change what came before (ParseAllMore).   *)
(* The last rests on ReaderPlace, which says where in the device's bytes   *)
(* the reader stands, and on what from_bytes makes of what to_bytes has    *)
(* written (EncodedDecodes).                                               *)
(*                                                                         *)
(* The parsers are recursive functions.  That such a function exists is    *)
(* shown by looking at the shortest buffer without one, and what it        *)
(* returns by looking at the last position with a property (LoopRule).     *)
(***************************************************************************)
EXTENDS PacketReader, SequenceLemmas, FiniteSetTheorems

-----------------------------------------------------------------------------
(* try_parse_packet: its loop ends where it has to wait or finds a packet; *)
(* otherwise it goes on behind what it has skipped.                        *)

Stops(rest) == Waits(rest) \/ PacketAt(rest) # {}

Outcome(rest) ==
  IF Waits(rest) THEN [packet |-> {}, rest |-> rest]
  ELSE [packet |-> PacketAt(rest), rest |-> SubSeq(rest, LengthOf(rest) + 1, Len(rest))]

Turn(f, buf, i) ==
  LET rest == SubSeq(buf, i, Len(buf))
  IN  IF Stops(rest) THEN Outcome(rest) ELSE f[i + Advance(rest)]

ParserOf(f, buf) == f = [i \in 1 .. Len(buf) + 1 |-> Turn(f, buf, i)]

LEMMA IntRange ==
  \A m, n \in Int : \A x : x \in m .. n <=> x \in Int /\ m <= x /\ x <= n
OBVIOUS

LEMMA ByteRange ==
  \A x : x \in Byte <=> x \in Int /\ 0 <= x /\ x <= 255
<1>1. 0 \in Int /\ 255 \in Int
  OBVIOUS
<1> QED
  BY <1>1, IntRange, ZenonT(60) DEF Byte

LEMMA Limits ==
  MaxLength \in Nat /\ 9 <= MaxLength /\ Chunk \in Nat \ {0}
BY PacketReaderAssumption

LEMMA LengthIsNat ==
  ASSUME NEW d \in Seq(Byte), Len(d) >= 4
  PROVE  LengthOf(d) \in Nat /\ LengthOf(d) <= 65535
<1>1. d[3] \in Byte /\ d[4] \in Byte
  OBVIOUS
<1> QED
  BY <1>1, ByteRange DEF LengthOf

LEMMA NoWait ==
  ASSUME NEW d \in Seq(Byte), ~ Waits(d)
  PROVE  /\ Len(d) >= 2
         /\ Synced(d) => Len(d) >= 4
         /\ Synced(d) /\ ValidLength(LengthOf(d)) => Len(d) >= LengthOf(d)
         /\ Advance(d) \in 1 .. Len(d)
<1>1. Len(d) \in Nat /\ MaxLength \in Nat
  BY Limits
<1>2. Len(d) >= 2
  BY <1>1 DEF Waits
<1>3. CASE ~ Synced(d)
  <2>1. Advance(d) = 1
    BY <1>3 DEF Advance
  <2> QED BY <1>1, <1>2, <1>3, <2>1
<1>4. CASE Synced(d)
  <2>1. Len(d) >= 4 /\ (ValidLength(LengthOf(d)) => ~ (Len(d) < LengthOf(d)))
    BY <1>1, <1>4 DEF Waits
  <2>2. LengthOf(d) \in Nat
    BY <2>1, LengthIsNat
  <2>3. CASE ValidLength(LengthOf(d))
    <3>1. Advance(d) = LengthOf(d)
      BY <1>4, <2>3 DEF Advance
    <3> QED BY <1>1, <2>1, <2>2, <2>3, <3>1 DEF ValidLength
  <2>4. CASE ~ ValidLength(LengthOf(d))
    <3>1. Advance(d) = 2
      BY <1>4, <2>4 DEF Advance
    <3> QED BY <1>1, <2>1, <2>4, <3>1
  <2> QED BY <2>3, <2>4
<1> QED
  BY <1>3, <1>4

(* A packet is found at a sync, complete, and takes six bytes at least.    *)
LEMMA Found ==
  ASSUME NEW d \in Seq(Byte), ~ Waits(d), PacketAt(d) # {}
  PROVE  /\ Synced(d) /\ ValidLength(LengthOf(d))
         /\ LengthOf(d) \in 6 .. Len(d)
         /\ LengthOf(d) <= MaxLength
         /\ PacketAt(d) = Decode(SubSeq(d, 1, LengthOf(d)))
<1>1. /\ Synced(d) /\ ValidLength(LengthOf(d))
      /\ PacketAt(d) = Decode(SubSeq(d, 1, LengthOf(d)))
  BY DEF PacketAt
<1>2. Len(d) >= LengthOf(d) /\ Len(d) \in Nat
  BY <1>1, NoWait
<1> QED
  BY <1>1, <1>2, Limits DEF ValidLength

LEMMA RestType ==
  ASSUME NEW b \in Seq(Byte), NEW i \in 1 .. Len(b) + 1
  PROVE  /\ SubSeq(b, i, Len(b)) \in Seq(Byte)
         /\ Len(SubSeq(b, i, Len(b))) = Len(b) - i + 1
<1>1. Len(b) \in i - 1 .. Len(b)
  OBVIOUS
<1> QED
  BY <1>1, PieceType

LEMMA RestOfRest ==
  ASSUME NEW b \in Seq(Byte), NEW j \in 1 .. Len(b) + 1, NEW i \in j .. Len(b) + 1
  PROVE  LET t == SubSeq(b, j, Len(b))
         IN  SubSeq(t, i - j + 1, Len(t)) = SubSeq(b, i, Len(b))
<1> DEFINE t == SubSeq(b, j, Len(b))
           c == i - j + 1
           n == Len(b)
<1>1. Len(t) = n - j + 1 /\ n \in Nat
  BY RestType
<1>2. /\ n \in j - 1 .. Len(b) /\ c \in 1 .. n - j + 2 /\ Len(t) \in c - 1 .. n - j + 1
      /\ j + c - 1 = i /\ j + Len(t) - 1 = n
  BY <1>1
<1>3. SubSeq(SubSeq(b, j, n), c, Len(t)) = SubSeq(b, j + c - 1, j + Len(t) - 1)
  <2> HIDE DEF t, c, n
  <2> QED BY <1>2, PieceOfPiece
<1> QED
  BY <1>2, <1>3

LEMMA TurnInside ==
  ASSUME NEW b \in Seq(Byte), NEW i \in 1 .. Len(b) + 1,
         ~ Stops(SubSeq(b, i, Len(b)))
  PROVE  i + Advance(SubSeq(b, i, Len(b))) \in i + 1 .. Len(b) + 1
<1> DEFINE r == SubSeq(b, i, Len(b))
<1>1. r \in Seq(Byte) /\ Len(r) = Len(b) - i + 1
  BY RestType
<1>2. Advance(r) \in 1 .. Len(r)
  <2> HIDE DEF r
  <2>1. ~ Waits(r)
    BY DEF Stops, r
  <2> QED BY <1>1, <2>1, NoWait
<1> QED
  <2> HIDE DEF r
  <2>1. i + Advance(r) \in i + 1 .. Len(b) + 1
    BY <1>1, <1>2
  <2> QED BY <2>1 DEF r

(* The loop does the same on a rest of the buffer as in the whole of it.   *)
LEMMA Shifted ==
  ASSUME NEW b \in Seq(Byte), NEW j \in 1 .. Len(b) + 1, NEW f, NEW h,
         ParserOf(f, b), ParserOf(h, SubSeq(b, j, Len(b)))
  PROVE  \A i \in j .. Len(b) + 1 : f[i] = h[i - j + 1]
<1> DEFINE N == Len(b)
           t == SubSeq(b, j, Len(b))
           T == {k \in 0 .. N + 1 - j : f[N + 1 - k] # h[N + 1 - k - j + 1]}
<1>1. N \in Nat /\ t \in Seq(Byte) /\ Len(t) = N - j + 1
  BY RestType
<1>2. T = {}
  <2> SUFFICES ASSUME T # {} PROVE FALSE
    OBVIOUS
  <2>1. T \in SUBSET Nat
    BY <1>1
  <2>2. PICK k \in T : \A l \in T : k <= l
    <3> HIDE DEF T
    <3> QED BY <2>1, LeastNat
  <2> DEFINE i == N + 1 - k
             r == SubSeq(b, i, N)
  <2>3. i \in j .. N + 1 /\ i \in 1 .. N + 1 /\ i - j + 1 \in 1 .. Len(t) + 1
    BY <1>1
  <2>4. f[i] # h[i - j + 1]
    OBVIOUS
  <2>5. f[i] = Turn(f, b, i)
    <3> HIDE DEF i
    <3> QED BY <2>3 DEF ParserOf
  <2>6. h[i - j + 1] = Turn(h, t, i - j + 1)
    <3> HIDE DEF i, t
    <3>1. ParserOf(h, t)
      BY DEF t
    <3> QED BY <2>3, <3>1 DEF ParserOf
  <2>7. SubSeq(t, i - j + 1, Len(t)) = r
    <3> HIDE DEF i
    <3> QED BY <2>3, RestOfRest
  <2>8. CASE Stops(r)
    <3>1. Turn(f, b, i) = Outcome(r)
      <4> HIDE DEF i
      <4> QED BY <2>8 DEF Turn
    <3>2. Turn(h, t, i - j + 1) = Outcome(r)
      <4> HIDE DEF i, r, t
      <4> QED BY <2>7, <2>8 DEF Turn
    <3> QED BY <2>4, <2>5, <2>6, <3>1, <3>2
  <2>9. CASE ~ Stops(r)
    <3> DEFINE a == Advance(r)
    <3>1. i + a \in i + 1 .. N + 1
      <4> HIDE DEF i
      <4> QED BY <2>3, <2>9, TurnInside
    <3>2. Turn(f, b, i) = f[i + a]
      <4> HIDE DEF i
      <4> QED BY <2>9 DEF Turn
    <3>3. Turn(h, t, i - j + 1) = h[i - j + 1 + a]
      <4> HIDE DEF i, r, t
      <4> QED BY <2>7, <2>9 DEF Turn
    <3> DEFINE l == N + 1 - (i + a)
    <3>4. l \in 0 .. N + 1 - j /\ l < k /\ N + 1 - l = i + a
          /\ N + 1 - l - j + 1 = i - j + 1 + a
      <4>1. a \in Int /\ i + 1 <= i + a /\ i + a <= N + 1
        <5>1. a \in 1 .. Len(r)
          <6>1. r \in Seq(Byte)
            <7> HIDE DEF i
            <7> QED BY <2>3, RestType
          <6> HIDE DEF r
          <6>2. ~ Waits(r)
            BY <2>9 DEF Stops
          <6> QED BY <6>1, <6>2, NoWait
        <5> HIDE DEF i, a
        <5> QED BY <3>1, <5>1, <2>3
      <4> HIDE DEF a, r
      <4> QED BY <4>1, <1>1, <2>3
    <3>5. l \notin T
      <4> HIDE DEF T, l, i
      <4>1. l \in Nat /\ k \in Nat /\ ~ (k <= l)
        BY <3>4, <2>1, <1>1
      <4> QED BY <2>2, <4>1
    <3>6. f[i + a] = h[i - j + 1 + a]
      <4> HIDE DEF i, a
      <4> QED BY <3>4, <3>5
    <3> QED BY <2>4, <2>5, <2>6, <3>2, <3>3, <3>6
  <2> QED BY <2>8, <2>9
<1>3. ASSUME NEW i \in j .. Len(b) + 1 PROVE f[i] = h[i - j + 1]
  <2> DEFINE k == N + 1 - i
  <2>1. k \in 0 .. N + 1 - j /\ N + 1 - k = i
    BY <1>1
  <2>2. k \notin T
    <3> HIDE DEF k, T
    <3> QED BY <1>2
  <2> QED BY <2>1, <2>2
<1> QED
  BY <1>3

(* The recursive function of TryParse exists: the shortest buffer without  *)
(* one would have one, made of that of its tail.                           *)
LEMMA ParserExists ==
  ASSUME NEW b \in Seq(Byte)
  PROVE  \E f : ParserOf(f, b)
<1> DEFINE T == {n \in Nat : \E d \in Seq(Byte) : Len(d) = n /\ ~ \E f : ParserOf(f, d)}
<1>1. T = {}
  <2> SUFFICES ASSUME T # {} PROVE FALSE
    OBVIOUS
  <2>1. T \in SUBSET Nat
    OBVIOUS
  <2>2. PICK n \in T : \A l \in T : n <= l
    <3> HIDE DEF T
    <3> QED BY <2>1, LeastNat
  <2>3. n \in Nat
    OBVIOUS
  <2>4. PICK d \in Seq(Byte) : Len(d) = n /\ ~ \E f : ParserOf(f, d)
    OBVIOUS
  <2>5. CASE n = 0
    <3> DEFINE f == [i \in 1 .. Len(d) + 1 |-> Outcome(SubSeq(d, i, Len(d)))]
    <3>1. ASSUME NEW i \in 1 .. Len(d) + 1 PROVE Stops(SubSeq(d, i, Len(d)))
      <4>1. Len(SubSeq(d, i, Len(d))) = Len(d) - i + 1
        BY RestType
      <4>2. Len(SubSeq(d, i, Len(d))) < 2
        BY <4>1, <2>4, <2>5
      <4> QED BY <4>2, Zenon DEF Stops, Waits
    <3>2. \A i \in 1 .. Len(d) + 1 : Turn(f, d, i) = Outcome(SubSeq(d, i, Len(d)))
      BY <3>1, Zenon DEF Turn
    <3>3. ParserOf(f, d)
      BY <3>2, Zenon DEF ParserOf
    <3> QED BY <3>3, <2>4
  <2>6. CASE n > 0
    <3> DEFINE t == SubSeq(d, 2, Len(d))
    <3>1. 2 \in 1 .. Len(d) + 1
      BY <2>3, <2>4, <2>6
    <3>2. t \in Seq(Byte) /\ Len(t) = n - 1
      BY <3>1, <2>4, RestType
    <3>3. n - 1 \in Nat /\ ~ (n <= n - 1)
      BY <2>3, <2>6
    <3>4. PICK h : ParserOf(h, t)
      <4> HIDE DEF t
      <4> QED BY <2>2, <3>2, <3>3
    <3> DEFINE first == IF Stops(d) THEN Outcome(d) ELSE h[Advance(d)]
               f == [i \in 1 .. Len(d) + 1 |-> IF i = 1 THEN first ELSE h[i - 1]]
    <3>5. SubSeq(d, 1, Len(d)) = d
      BY WholePiece
    <3>6. ASSUME NEW i \in 1 .. Len(d) + 1 PROVE f[i] = Turn(f, d, i)
      <4> DEFINE r == SubSeq(d, i, Len(d))
                 a == Advance(r)
      <4>1. CASE Stops(r) /\ i = 1
        <5>1. r = d
          BY <4>1, <3>5
        <5>2. Turn(f, d, i) = Outcome(d)
          <6> HIDE DEF f
          <6> QED BY <4>1, <5>1 DEF Turn
        <5>3. first = Outcome(d)
          BY <4>1, <5>1
        <5> HIDE DEF first
        <5> QED BY <4>1, <5>2, <5>3
      <4>2. CASE Stops(r) /\ i # 1
        <5>1. Turn(f, d, i) = Outcome(r)
          <6> HIDE DEF f
          <6> QED BY <4>2 DEF Turn
        <5>2. i \in 2 .. Len(d) + 1 /\ i - 1 \in 1 .. Len(t) + 1 /\ i - 2 + 1 = i - 1
          BY <4>2, <3>2, <2>4
        <5>3. SubSeq(t, i - 1, Len(t)) = r
          BY <5>2, <3>1, RestOfRest
        <5>4. h[i - 1] = Turn(h, t, i - 1)
          <6> HIDE DEF t
          <6> QED BY <5>2, <3>4 DEF ParserOf
        <5>5. Turn(h, t, i - 1) = Outcome(r)
          <6> HIDE DEF t, r
          <6> QED BY <5>3, <4>2 DEF Turn
        <5> HIDE DEF first, t, r
        <5> QED BY <4>2, <5>1, <5>4, <5>5
      <4>3. CASE ~ Stops(r)
        <5>1. i + a \in i + 1 .. Len(d) + 1
          BY <4>3, TurnInside
        <5>2. Turn(f, d, i) = f[i + a]
          <6> HIDE DEF f
          <6> QED BY <4>3 DEF Turn
        <5>3. a \in Int
          <6>1. r \in Seq(Byte)
            BY RestType
          <6> HIDE DEF r
          <6>2. ~ Waits(r)
            BY <4>3 DEF Stops
          <6>3. a \in 1 .. Len(r)
            BY <6>1, <6>2, NoWait
          <6> HIDE DEF a
          <6> QED BY <6>3
        <5>4. f[i + a] = h[i + a - 1]
          <6>1. i + a \in 1 .. Len(d) + 1 /\ i + a # 1
            <7> HIDE DEF a
            <7> QED BY <5>1, <5>3
          <6>2. \A k \in 1 .. Len(d) + 1 : k # 1 => f[k] = h[k - 1]
            <7> HIDE DEF first
            <7> QED OBVIOUS
          <6> HIDE DEF f, a
          <6> QED BY <5>3, <6>1, <6>2
        <5>5. CASE i = 1
          <6>1. r = d
            BY <5>5, <3>5
          <6>2. first = h[Advance(d)]
            BY <6>1, <4>3
          <6>3. i + a - 1 = Advance(d)
            <7> HIDE DEF r
            <7> QED BY <5>3, <5>5, <6>1
          <6> HIDE DEF first, a
          <6> QED BY <5>2, <5>4, <5>5, <6>2, <6>3
        <5>6. CASE i # 1
          <6>1. i \in 2 .. Len(d) + 1 /\ i - 1 \in 1 .. Len(t) + 1 /\ i - 2 + 1 = i - 1
            BY <5>6, <3>2, <2>4
          <6>2. SubSeq(t, i - 1, Len(t)) = r
            BY <6>1, <3>1, RestOfRest
          <6>3. h[i - 1] = Turn(h, t, i - 1)
            <7> HIDE DEF t
            <7> QED BY <6>1, <3>4 DEF ParserOf
          <6>4. Turn(h, t, i - 1) = h[i - 1 + a]
            <7> HIDE DEF t, r
            <7> QED BY <6>2, <4>3 DEF Turn
          <6>5. i - 1 + a = i + a - 1
            <7> HIDE DEF a
            <7> QED BY <5>3, <6>1
          <6> HIDE DEF first, t, a
          <6> QED BY <5>2, <5>4, <5>6, <6>3, <6>4, <6>5
        <5> QED BY <5>5, <5>6
      <4> QED BY <4>1, <4>2, <4>3
    <3>7. f = [i \in 1 .. Len(d) + 1 |-> f[i]]
      OBVIOUS
    <3>8. ParserOf(f, d)
      <4> HIDE DEF f
      <4> QED BY <3>6, <3>7, Zenon DEF ParserOf
    <3> QED BY <3>8, <2>4
  <2> QED BY <2>3, <2>5, <2>6
<1>2. Len(b) \in Nat
  OBVIOUS
<1> QED
  BY <1>1, <1>2

LEMMA TryParseIs ==
  ASSUME NEW b \in Seq(Byte)
  PROVE  \E f : ParserOf(f, b) /\ TryParse(b) = f[1]
<1> DEFINE
     Eq(f) ==
       f = [i \in 1 .. Len(b) + 1 |->
              LET rest == SubSeq(b, i, Len(b))
              IN  CASE Waits(rest) -> [packet |-> {}, rest |-> rest]
                    [] ~ Waits(rest) /\ PacketAt(rest) # {} ->
                         [packet |-> PacketAt(rest),
                          rest |-> SubSeq(rest, LengthOf(rest) + 1, Len(rest))]
                    [] OTHER -> f[i + Advance(rest)]]
     OneTurn(f, i) ==
       LET rest == SubSeq(b, i, Len(b))
       IN  CASE Waits(rest) -> [packet |-> {}, rest |-> rest]
             [] ~ Waits(rest) /\ PacketAt(rest) # {} ->
                  [packet |-> PacketAt(rest),
                   rest |-> SubSeq(rest, LengthOf(rest) + 1, Len(rest))]
             [] OTHER -> f[i + Advance(rest)]
     c == CHOOSE f : Eq(f)
<1>1. TryParse(b) = c[1]
  BY Zenon DEF TryParse
<1>2. \A f, i : OneTurn(f, i) = Turn(f, b, i)
  BY DEF Turn, Stops, Outcome
<1>3. \A f : Eq(f) <=> f = [i \in 1 .. Len(b) + 1 |-> OneTurn(f, i)]
  BY Zenon
<1>4. \A f : Eq(f) <=> ParserOf(f, b)
  <2> HIDE DEF Eq, Body
  <2> QED BY <1>2, <1>3 DEF ParserOf
<1>5. Eq(c)
  <2> HIDE DEF Eq
  <2> QED BY <1>4, ParserExists, Zenon
<1> HIDE DEF c, Eq
<1> QED
  BY <1>1, <1>4, <1>5

(* One turn of the loop. *)
LEMMA TryParseTurn ==
  ASSUME NEW b \in Seq(Byte)
  PROVE  /\ Stops(b) => TryParse(b) = Outcome(b)
         /\ ~ Stops(b) =>
              /\ Advance(b) \in 1 .. Len(b)
              /\ TryParse(b) = TryParse(SubSeq(b, Advance(b) + 1, Len(b)))
<1>1. PICK f : ParserOf(f, b) /\ TryParse(b) = f[1]
  BY TryParseIs
<1>2. SubSeq(b, 1, Len(b)) = b /\ 1 \in 1 .. Len(b) + 1
  BY WholePiece
<1>3. f[1] = Turn(f, b, 1)
  BY <1>1, <1>2 DEF ParserOf
<1>4. CASE Stops(b)
  BY <1>1, <1>2, <1>3, <1>4 DEF Turn
<1>5. CASE ~ Stops(b)
  <2> DEFINE a == Advance(b)
             t == SubSeq(b, a + 1, Len(b))
  <2>1. a \in 1 .. Len(b)
    BY <1>5, NoWait DEF Stops
  <2>2. f[1] = f[1 + a]
    BY <1>2, <1>3, <1>5 DEF Turn
  <2>3. a + 1 \in 1 .. Len(b) + 1 /\ 1 + a = a + 1 /\ a + 1 - (a + 1) + 1 = 1
        /\ a + 1 \in a + 1 .. Len(b) + 1
    <3> HIDE DEF a
    <3> QED BY <2>1
  <2>4. t \in Seq(Byte)
    <3> HIDE DEF a
    <3> QED BY <2>3, RestType
  <2>5. PICK h : ParserOf(h, t) /\ TryParse(t) = h[1]
    <3> HIDE DEF t
    <3> QED BY <2>4, TryParseIs
  <2>6. f[a + 1] = h[a + 1 - (a + 1) + 1]
    <3> HIDE DEF a
    <3> QED BY <1>1, <2>3, <2>5, Shifted
  <2> QED BY <1>1, <1>5, <2>1, <2>2, <2>3, <2>5, <2>6
<1> QED
  BY <1>4, <1>5

(* The loop ends at a position of every set that has the first and with a  *)
(* position the one behind what is skipped there.                          *)
LEMMA LoopRule ==
  ASSUME NEW b \in Seq(Byte), NEW G \in SUBSET (1 .. Len(b) + 1), 1 \in G,
         \A i \in G : LET r == SubSeq(b, i, Len(b))
                      IN  ~ Stops(r) => i + Advance(r) \in G
  PROVE  \E q \in G : /\ Stops(SubSeq(b, q, Len(b)))
                      /\ TryParse(b) = Outcome(SubSeq(b, q, Len(b)))
<1> DEFINE N == Len(b)
           R(i) == SubSeq(b, i, N)
           T == {k \in 0 .. N : N + 1 - k \in G /\ TryParse(R(N + 1 - k)) = TryParse(b)}
<1>1. N \in Nat /\ T \in SUBSET Nat
  OBVIOUS
<1>2. T # {}
  <2>1. N \in 0 .. N /\ N + 1 - N = 1
    BY <1>1
  <2>2. R(1) = b
    BY WholePiece
  <2>3. N \in T
    BY <2>1, <2>2
  <2> QED BY <2>3
<1>3. PICK k \in T : \A l \in T : k <= l
  <2> HIDE DEF T
  <2> QED BY <1>1, <1>2, LeastNat
<1> DEFINE i == N + 1 - k
           r == R(i)
<1>4. i \in G /\ i \in 1 .. N + 1 /\ TryParse(r) = TryParse(b)
  BY <1>1
<1>5. r \in Seq(Byte) /\ Len(r) = N - i + 1
  <2> HIDE DEF i
  <2> QED BY <1>4, RestType
<1>6. CASE Stops(r)
  <2>1. TryParse(r) = Outcome(r)
    <3> HIDE DEF r
    <3> QED BY <1>5, <1>6, TryParseTurn
  <2> QED BY <1>4, <1>6, <2>1
<1>7. CASE ~ Stops(r)
  <2> DEFINE a == Advance(r)
             j == i + a
             l == N + 1 - j
  <2>1. a \in 1 .. Len(r) /\ TryParse(r) = TryParse(SubSeq(r, a + 1, Len(r)))
    <3> HIDE DEF r
    <3> QED BY <1>5, <1>7, TryParseTurn
  <2>2. j \in G
    <3> HIDE DEF i
    <3> QED BY <1>4, <1>7
  <2>3. j \in i .. N + 1 /\ j - i + 1 = a + 1 /\ l \in 0 .. N /\ N + 1 - l = j /\ ~ (k <= l)
    <3> HIDE DEF a, r
    <3> QED BY <2>1, <1>4, <1>5, <1>1
  <2>4. SubSeq(r, a + 1, Len(r)) = R(j)
    <3> HIDE DEF i, j, a
    <3>1. i \in 1 .. Len(b) + 1 /\ j \in i .. Len(b) + 1
      BY <1>4, <2>3
    <3>2. SubSeq(r, j - i + 1, Len(r)) = R(j)
      BY <3>1, RestOfRest
    <3> QED BY <2>3, <3>2
  <2>5. l \in T
    <3> HIDE DEF i, j, a, r, l
    <3> QED BY <1>4, <2>1, <2>2, <2>3, <2>4
  <2> QED
    <3> HIDE DEF T, l
    <3> QED BY <1>3, <2>3, <2>5
<1> QED
  BY <1>6, <1>7

LEMMA EndsSomewhere ==
  ASSUME NEW b \in Seq(Byte)
  PROVE  \E q \in 1 .. Len(b) + 1 : /\ Stops(SubSeq(b, q, Len(b)))
                                    /\ TryParse(b) = Outcome(SubSeq(b, q, Len(b)))
<1> DEFINE G == 1 .. Len(b) + 1
<1>1. 1 \in G
  OBVIOUS
<1>2. ASSUME NEW i \in G, ~ Stops(SubSeq(b, i, Len(b)))
      PROVE  i + Advance(SubSeq(b, i, Len(b))) \in G
  <2>1. i + Advance(SubSeq(b, i, Len(b))) \in i + 1 .. Len(b) + 1
    BY <1>2, TurnInside
  <2> QED BY <2>1
<1>3. G \in SUBSET (1 .. Len(b) + 1)
  OBVIOUS
<1> HIDE DEF G
<1>4. \E q \in G : /\ Stops(SubSeq(b, q, Len(b)))
                   /\ TryParse(b) = Outcome(SubSeq(b, q, Len(b)))
  BY <1>1, <1>2, <1>3, LoopRule
<1> QED
  BY <1>4 DEF G

(* Bytes behind do not change a turn that did not have to wait.            *)
LEMMA SameTurn ==
  ASSUME NEW d \in Seq(Byte), NEW m \in Seq(Byte), ~ Waits(d)
  PROVE  /\ ~ Waits(d \o m)
         /\ PacketAt(d \o m) = PacketAt(d)
         /\ Advance(d \o m) = Advance(d)
         /\ PacketAt(d) # {} => LengthOf(d \o m) = LengthOf(d)
<1> DEFINE e == d \o m
<1>1. /\ e \in Seq(Byte) /\ Len(e) = Len(d) + Len(m)
      /\ \A i \in 1 .. Len(d) : e[i] = d[i]
  BY Joined
<1>2. Len(d) \in Nat /\ Len(m) \in Nat /\ Len(d) >= 2
  BY NoWait
<1> HIDE DEF e
<1>3. Synced(e) <=> Synced(d)
  BY <1>1, <1>2 DEF Synced
<1>4. CASE ~ Synced(d)
  <2>1. ~ Waits(e)
    BY <1>1, <1>2, <1>3, <1>4 DEF Waits
  <2> QED BY <1>3, <1>4, <2>1 DEF e, PacketAt, Advance
<1>5. CASE Synced(d)
  <2>1. Len(d) >= 4
    BY <1>5, NoWait
  <2>2. LengthOf(e) = LengthOf(d)
    BY <1>1, <1>2, <2>1 DEF LengthOf
  <2>3. Advance(e) = Advance(d)
    BY <1>3, <2>2 DEF Advance
  <2>4. LengthOf(d) \in Nat
    BY <2>1, LengthIsNat
  <2>5. CASE ~ ValidLength(LengthOf(d))
    <3>1. ~ Waits(e)
      BY <1>1, <1>2, <2>1, <2>2, <2>5 DEF Waits
    <3> QED BY <2>2, <2>3, <2>5, <3>1 DEF e, PacketAt
  <2>6. CASE ValidLength(LengthOf(d))
    <3> DEFINE n == LengthOf(d)
    <3>1. Len(d) >= n /\ n \in Nat
      BY <1>5, <2>4, <2>6, NoWait
    <3> HIDE DEF n
    <3>2. ~ Waits(e)
      BY <1>1, <1>2, <2>1, <2>2, <3>1 DEF Waits, n
    <3>3. SubSeq(e, 1, n) = SubSeq(d, 1, n)
      <4>1. /\ SubSeq(d, 1, n) \in Seq(Byte) /\ Len(SubSeq(d, 1, n)) = n
            /\ \A i \in 1 .. n : SubSeq(d, 1, n)[i] = d[i]
        BY <3>1
      <4>2. /\ SubSeq(e, 1, n) \in Seq(Byte) /\ Len(SubSeq(e, 1, n)) = n
            /\ \A i \in 1 .. n : SubSeq(e, 1, n)[i] = e[i]
        BY <1>1, <1>2, <3>1
      <4>3. \A i \in 1 .. n : SubSeq(e, 1, n)[i] = SubSeq(d, 1, n)[i]
        BY <4>1, <4>2, <1>1, <1>2, <3>1
      <4> QED BY <4>1, <4>2, <4>3, SameSeq
    <3>4. PacketAt(e) = PacketAt(d)
      BY <1>3, <2>2, <3>3 DEF PacketAt, n
    <3> QED BY <2>2, <2>3, <3>2, <3>4 DEF e
  <2> QED BY <2>5, <2>6
<1> QED
  BY <1>4, <1>5

-----------------------------------------------------------------------------
(* What from_bytes returns                                                 *)

LEMMA CodeIs ==
  /\ DOMAIN Code = {"Syn", "SynAck", "Ack", "Data", "Eak", "Rst", "Suspend",
                    "SuspendAck", "Detect"}
  /\ Code["Syn"] = 128 /\ Code["SynAck"] = 192 /\ Code["Ack"] = 64
  /\ Code["Data"] = 0 /\ Code["Eak"] = 96 /\ Code["Rst"] = 160
  /\ Code["Suspend"] = 224 /\ Code["SuspendAck"] = 240 /\ Code["Detect"] = 238
BY DEF Code

LEMMA CodesDiffer ==
  \A k, l \in DOMAIN Code : Code[k] = Code[l] => k = l
BY CodeIs

LEMMA OneKind ==
  ASSUME NEW b
  PROVE  /\ KindOf(b) \subseteq DOMAIN Code
         /\ \A k, l \in KindOf(b) : k = l
<1>1. CASE b = Code["Detect"]
  BY <1>1, CodeIs DEF KindOf
<1>2. CASE b # Code["Detect"]
  <2>1. KindOf(b) = {k \in DOMAIN Code \ {"Detect"} : Code[k] = 16 * (b \div 16)}
    BY <1>2 DEF KindOf
  <2> QED BY <2>1, CodesDiffer
<1> QED
  BY <1>1, <1>2

(* At most one packet comes of some bytes, and it has a known type.        *)
LEMMA OnePacket ==
  ASSUME NEW d
  PROVE  /\ \A p \in Decode(d) : p.kind \in DOMAIN Code
         /\ \A p, q \in Decode(d) : p = q
<1> DEFINE flag == (d[5] \div 8) % 2 = 1
           short == {Packet("Detect", flag, d[6], 0, NoSession, <<>>)}
           full(k) == Packet(k, flag, d[6], d[7], DecodedSession(d[8]),
                             IF Body(d) = <<>> THEN <<>> ELSE Front(Body(d)))
           several == {full(k) : k \in KindOf(d[5])}
<1>1. Decode(d) = {} \/ Decode(d) = short \/ Decode(d) = several
  BY DEF Decode
<1>2. \A p \in short : p.kind = "Detect" /\ p = Packet("Detect", flag, d[6], 0, NoSession, <<>>)
  BY DEF Packet
<1>3. \A k : full(k).kind = k
  BY DEF Packet
<1>4. \A p \in several : p.kind \in DOMAIN Code
  <2> HIDE DEF full
  <2> QED BY <1>3, OneKind
<1>5. \A p, q \in several : p = q
  <2> HIDE DEF full
  <2> QED BY OneKind
<1>6. "Detect" \in DOMAIN Code
  BY CodeIs
<1> HIDE DEF short, several
<1>7. CASE Decode(d) = {}
  BY <1>7
<1>8. CASE Decode(d) = short
  BY <1>2, <1>6, <1>8
<1>9. CASE Decode(d) = several
  BY <1>4, <1>5, <1>9
<1> QED
  BY <1>1, <1>7, <1>8, <1>9

(* All packets there are. *)
Decoded == UNION {Decode(d) : d \in Seq(Byte)}

LEMMA ParsedType ==
  ASSUME NEW b \in Seq(Byte)
  PROVE  LET r == TryParse(b)
         IN  /\ r = [packet |-> r.packet, rest |-> r.rest]
             /\ r.rest \in Seq(Byte)
             /\ r.packet = {} => Len(r.rest) <= Len(b) /\ Waits(r.rest)
             /\ r.packet # {} => Len(r.rest) + 6 <= Len(b)
             /\ r.packet \subseteq Decoded
             /\ \A p, q \in r.packet : p = q
<1>1. PICK i \in 1 .. Len(b) + 1 : /\ Stops(SubSeq(b, i, Len(b)))
                                   /\ TryParse(b) = Outcome(SubSeq(b, i, Len(b)))
  BY EndsSomewhere
<1> DEFINE d == SubSeq(b, i, Len(b))
<1>2. d \in Seq(Byte) /\ Len(d) = Len(b) - i + 1
  BY RestType
<1>3. Len(b) \in Nat /\ i \in Nat /\ i >= 1
  OBVIOUS
<1>a. Stops(d) /\ TryParse(b) = Outcome(d)
  BY <1>1
<1> HIDE DEF d
<1>4. CASE Waits(d)
  <2>1. TryParse(b) = [packet |-> {}, rest |-> d]
    BY <1>a, <1>4 DEF Outcome
  <2> QED BY <2>1, <1>2, <1>3, <1>4
<1>5. CASE ~ Waits(d)
  <2> DEFINE n == LengthOf(d)
             t == SubSeq(d, n + 1, Len(d))
  <2>1. /\ PacketAt(d) # {} /\ n \in 6 .. Len(d)
        /\ PacketAt(d) = Decode(SubSeq(d, 1, n))
    BY <1>a, <1>2, <1>5, Found DEF Stops
  <2>2. TryParse(b) = [packet |-> PacketAt(d), rest |-> t]
    BY <1>a, <1>5 DEF Outcome
  <2>3. t \in Seq(Byte) /\ Len(t) = Len(d) - n
    <3>1. n + 1 \in 1 .. Len(d) + 1 /\ Len(d) - (n + 1) + 1 = Len(d) - n
      <4> HIDE DEF n
      <4> QED BY <2>1, <1>2
    <3> HIDE DEF n
    <3> QED BY <3>1, <1>2, RestType
  <2>4. Len(t) + 6 <= Len(b)
    <3> HIDE DEF n, t
    <3> QED BY <2>1, <2>3, <1>2, <1>3
  <2>5. /\ PacketAt(d) \subseteq Decoded
        /\ \A p, q \in PacketAt(d) : p = q
    <3>1. SubSeq(d, 1, n) \in Seq(Byte)
      <4> HIDE DEF n
      <4>1. 1 \in 1 .. Len(d) + 1 /\ n \in 1 - 1 .. Len(d)
        BY <1>2, <2>1
      <4> QED BY <1>2, <4>1, PieceType
    <3> DEFINE q == SubSeq(d, 1, n)
    <3>2. q \in Seq(Byte) /\ PacketAt(d) = Decode(q)
      BY <2>1, <3>1
    <3> HIDE DEF q
    <3>3. PacketAt(d) \subseteq Decoded
      BY <3>2 DEF Decoded
    <3> QED BY <3>2, <3>3, OnePacket
  <2> HIDE DEF n, t
  <2> QED BY <2>1, <2>2, <2>3, <2>4, <2>5
<1> QED
  BY <1>4, <1>5

(* What is left when no packet was found is not looked at twice.           *)
LEMMA ParsedTwice ==
  ASSUME NEW b \in Seq(Byte), Waits(b)
  PROVE  TryParse(b) = [packet |-> {}, rest |-> b]
BY TryParseTurn DEF Stops, Outcome

(* Bytes that arrive later: nothing found stays undone, and a packet found *)
(* is the same, with more left behind it.                                  *)
LEMMA MoreBytes ==
  ASSUME NEW b \in Seq(Byte), NEW m \in Seq(Byte)
  PROVE  LET r == TryParse(b)
         IN  /\ r.packet = {} => TryParse(b \o m) = TryParse(r.rest \o m)
             /\ r.packet # {} =>
                  TryParse(b \o m) = [packet |-> r.packet, rest |-> r.rest \o m]
<1> DEFINE
     Holds(d) ==
       LET r == TryParse(d)
       IN  /\ r.packet = {} => TryParse(d \o m) = TryParse(r.rest \o m)
           /\ r.packet # {} =>
                TryParse(d \o m) = [packet |-> r.packet, rest |-> r.rest \o m]
     T == {n \in Nat : \E d \in Seq(Byte) : Len(d) = n /\ ~ Holds(d)}
<1>1. T = {}
  <2> SUFFICES ASSUME T # {} PROVE FALSE
    OBVIOUS
  <2>1. T \in SUBSET Nat
    OBVIOUS
  <2>2. PICK n \in T : \A l \in T : n <= l
    <3> HIDE DEF T
    <3> QED BY <2>1, LeastNat
  <2>3. PICK d \in Seq(Byte) : Len(d) = n /\ ~ Holds(d)
    <3> HIDE DEF Holds
    <3> QED OBVIOUS
  <2> DEFINE e == d \o m
  <2>4. e \in Seq(Byte) /\ Len(e) = Len(d) + Len(m)
    BY Joined
  <2>5. CASE Waits(d)
    <3>1. TryParse(d) = [packet |-> {}, rest |-> d]
      BY <2>5, ParsedTwice
    <3>2. Holds(d)
      BY <3>1
    <3> QED BY <2>3, <3>2
  <2>6. CASE ~ Waits(d) /\ PacketAt(d) # {}
    <3> DEFINE k == LengthOf(d)
    <3>1. TryParse(d) = [packet |-> PacketAt(d), rest |-> SubSeq(d, k + 1, Len(d))]
      BY <2>6, TryParseTurn DEF Stops, Outcome
    <3>2. /\ ~ Waits(e) /\ PacketAt(e) = PacketAt(d) /\ LengthOf(e) = k
      BY <2>6, SameTurn
    <3>3. TryParse(e) = [packet |-> PacketAt(d), rest |-> SubSeq(e, k + 1, Len(e))]
      <4> HIDE DEF e, k
      <4> QED BY <2>4, <2>6, <3>2, TryParseTurn DEF Stops, Outcome
    <3>4. k + 1 \in 1 .. Len(d) + 1
      <4>1. k \in 6 .. Len(d)
        BY <2>6, Found
      <4> HIDE DEF k
      <4> QED BY <4>1
    <3>5. SubSeq(e, k + 1, Len(d) + Len(m)) = SubSeq(d, k + 1, Len(d)) \o m
      <4> HIDE DEF k
      <4> QED BY <3>4, PieceOfJoined
    <3>6. Holds(d)
      <4> HIDE DEF k
      <4>1. TryParse(e) = [packet |-> PacketAt(d), rest |-> SubSeq(d, k + 1, Len(d)) \o m]
        BY <2>4, <3>3, <3>5
      <4>2. TryParse(d).packet = PacketAt(d) /\ TryParse(d).rest = SubSeq(d, k + 1, Len(d))
        <5> DEFINE t == SubSeq(d, k + 1, Len(d))
        <5>1. TryParse(d) = [packet |-> PacketAt(d), rest |-> t]
          BY <3>1
        <5> HIDE DEF t
        <5>2. TryParse(d).packet = PacketAt(d) /\ TryParse(d).rest = t
          BY <5>1
        <5> QED BY <5>2 DEF t
      <4> QED BY <2>6, <4>1, <4>2
    <3> QED BY <2>3, <3>6
  <2>7. CASE ~ Stops(d)
    <3> DEFINE a == Advance(d)
               t == SubSeq(d, a + 1, Len(d))
    <3>1. a \in 1 .. Len(d) /\ TryParse(d) = TryParse(t)
      BY <2>7, TryParseTurn
    <3>2. ~ Stops(e) /\ Advance(e) = a
      BY <2>7, SameTurn DEF Stops
    <3>3. TryParse(e) = TryParse(SubSeq(e, a + 1, Len(e)))
      <4> HIDE DEF e, a
      <4> QED BY <2>4, <3>2, TryParseTurn
    <3>4. a + 1 \in 1 .. Len(d) + 1
      <4> HIDE DEF a
      <4> QED BY <3>1
    <3>5. SubSeq(e, a + 1, Len(d) + Len(m)) = t \o m
      <4> HIDE DEF a
      <4> QED BY <3>4, PieceOfJoined
    <3>6. t \in Seq(Byte) /\ Len(t) = Len(d) - a
      <4> HIDE DEF a
      <4>1. /\ t \in Seq(Byte) /\ Len(t) = Len(d) - (a + 1) + 1
        BY <3>4, RestType
      <4> HIDE DEF t
      <4> QED BY <4>1, <3>1
    <3>7. Len(t) \in Nat /\ ~ (n <= Len(t))
      <4> HIDE DEF a, t
      <4> QED BY <3>1, <3>6, <2>3
    <3>8. Holds(t)
      <4> HIDE DEF t, Holds
      <4> QED BY <2>2, <3>6, <3>7
    <3>9. Holds(d)
      <4> HIDE DEF a, t
      <4> QED BY <2>4, <3>1, <3>3, <3>5, <3>8
    <3> QED BY <2>3, <3>9
  <2> QED BY <2>5, <2>6, <2>7 DEF Stops
<1>2. Len(b) \in Nat
  OBVIOUS
<1>3. Holds(b)
  <2> HIDE DEF Holds
  <2> QED BY <1>1, <1>2
<1> QED
  BY <1>3

-----------------------------------------------------------------------------
(* All packets of some bytes                                               *)

(* What is left is a rest of the buffer. *)
LEMMA LeftIsRest ==
  ASSUME NEW b \in Seq(Byte)
  PROVE  LET u == TryParse(b).rest
         IN  u = SubSeq(b, Len(b) - Len(u) + 1, Len(b))
<1> DEFINE N == Len(b)
<1>1. PICK i \in 1 .. N + 1 : /\ Stops(SubSeq(b, i, N))
                              /\ TryParse(b) = Outcome(SubSeq(b, i, N))
  BY EndsSomewhere
<1> DEFINE d == SubSeq(b, i, N)
<1>2. d \in Seq(Byte) /\ Len(d) = N - i + 1 /\ N \in Nat /\ Len(d) \in Nat
  BY RestType
<1>3. CASE Waits(d)
  <2>1. TryParse(b).rest = d
    <3> HIDE DEF d
    <3>1. TryParse(b) = [packet |-> {}, rest |-> d]
      BY <1>1, <1>3 DEF d, Outcome
    <3> QED BY <3>1
  <2>2. N - Len(d) + 1 = i
    <3> HIDE DEF d, N
    <3> QED BY <1>2
  <2> QED BY <2>1, <2>2
<1>4. CASE ~ Waits(d)
  <2> DEFINE n == LengthOf(d)
             t == SubSeq(d, n + 1, Len(d))
  <2>1. n \in 6 .. Len(d)
    <3> HIDE DEF d
    <3>1. PacketAt(d) # {}
      BY <1>1, <1>4 DEF Stops, d
    <3> QED BY <1>2, <1>4, <3>1, Found
  <2>2. TryParse(b).rest = t
    <3> HIDE DEF t, d
    <3>1. TryParse(b) = [packet |-> PacketAt(d), rest |-> t]
      BY <1>1, <1>4 DEF Outcome, t, d
    <3> QED BY <3>1
  <2>3. i + n \in i .. N + 1 /\ (i + n) - i + 1 = n + 1 /\ n + 1 \in 1 .. Len(d) + 1
        /\ Len(d) - (n + 1) + 1 = N - (i + n) + 1 /\ N - (N - (i + n) + 1) + 1 = i + n
    <3> HIDE DEF n, d, N
    <3> QED BY <1>2, <2>1
  <2>4. t = SubSeq(b, i + n, N)
    <3> HIDE DEF n
    <3>1. SubSeq(d, (i + n) - i + 1, Len(d)) = SubSeq(b, i + n, N)
      BY <2>3, RestOfRest
    <3> QED BY <2>3, <3>1
  <2>5. Len(t) = N - (i + n) + 1
    <3> HIDE DEF n, d
    <3>1. Len(t) = Len(d) - (n + 1) + 1
      BY <1>2, <2>3, RestType
    <3> QED BY <2>3, <3>1
  <2>6. N - Len(t) + 1 = i + n
    <3> HIDE DEF t, n, N
    <3> QED BY <2>3, <2>5
  <2> HIDE DEF t, n
  <2> QED BY <2>2, <2>4, <2>6
<1> QED
  BY <1>3, <1>4

First(s) == CHOOSE p \in s : TRUE

AllTurn(f, b, i) ==
  LET r == TryParse(SubSeq(b, i, Len(b)))
      after == f[Len(b) - Len(r.rest) + 1]
  IN  IF r.packet = {} THEN [packets |-> <<>>, rest |-> r.rest]
      ELSE [packets |-> <<First(r.packet)>> \o after.packets, rest |-> after.rest]

AllOf(f, b) == f = [i \in 1 .. Len(b) + 1 |-> AllTurn(f, b, i)]

(* A turn that finds a packet goes on further behind, where it does the    *)
(* same as a turn on the rest of the bytes.                                *)
LEMMA AllTurnInside ==
  ASSUME NEW b \in Seq(Byte), NEW i \in 1 .. Len(b) + 1,
         TryParse(SubSeq(b, i, Len(b))).packet # {}
  PROVE  Len(b) - Len(TryParse(SubSeq(b, i, Len(b))).rest) + 1 \in i + 6 .. Len(b) + 1
<1> DEFINE d == SubSeq(b, i, Len(b))
           u == TryParse(d).rest
<1>1. d \in Seq(Byte) /\ Len(d) = Len(b) - i + 1
  BY RestType
<1>2. u \in Seq(Byte) /\ Len(u) + 6 <= Len(d)
  <2> HIDE DEF d
  <2>1. TryParse(d).packet # {}
    BY DEF d
  <2> QED BY <1>1, <2>1, ParsedType
<1>3. Len(b) - Len(u) + 1 \in i + 6 .. Len(b) + 1
  <2> HIDE DEF d, u
  <2>1. Len(b) \in Nat /\ Len(u) \in Nat /\ i \in Nat
    BY <1>2
  <2> QED BY <2>1, <1>1, <1>2
<1> QED
  BY <1>3

LEMMA AllShifted ==
  ASSUME NEW b \in Seq(Byte), NEW j \in 1 .. Len(b) + 1, NEW f, NEW h,
         AllOf(f, b), AllOf(h, SubSeq(b, j, Len(b)))
  PROVE  \A i \in j .. Len(b) + 1 : f[i] = h[i - j + 1]
<1> DEFINE N == Len(b)
           t == SubSeq(b, j, Len(b))
           T == {k \in 0 .. N + 1 - j : f[N + 1 - k] # h[N + 1 - k - j + 1]}
<1>1. N \in Nat /\ t \in Seq(Byte) /\ Len(t) = N - j + 1
  BY RestType
<1>2. T = {}
  <2> SUFFICES ASSUME T # {} PROVE FALSE
    OBVIOUS
  <2>1. T \in SUBSET Nat
    BY <1>1
  <2>2. PICK k \in T : \A l \in T : k <= l
    <3> HIDE DEF T
    <3> QED BY <2>1, LeastNat
  <2> DEFINE i == N + 1 - k
             r == SubSeq(b, i, N)
             u == TryParse(r).rest
             z == N - Len(u) + 1
  <2>3. i \in j .. N + 1 /\ i \in 1 .. N + 1 /\ i - j + 1 \in 1 .. Len(t) + 1
    BY <1>1
  <2>4. f[i] # h[i - j + 1]
    OBVIOUS
  <2>5. f[i] = AllTurn(f, b, i)
    <3> HIDE DEF i
    <3> QED BY <2>3 DEF AllOf
  <2>6. h[i - j + 1] = AllTurn(h, t, i - j + 1)
    <3> HIDE DEF i, t
    <3>1. AllOf(h, t)
      BY DEF t
    <3> QED BY <2>3, <3>1 DEF AllOf
  <2>7. SubSeq(t, i - j + 1, Len(t)) = r
    <3> HIDE DEF i
    <3> QED BY <2>3, RestOfRest
  <2>8. CASE TryParse(r).packet = {}
    <3>1. AllTurn(f, b, i) = [packets |-> <<>>, rest |-> u]
      <4> HIDE DEF i
      <4> QED BY <2>8 DEF AllTurn
    <3>2. AllTurn(h, t, i - j + 1) = [packets |-> <<>>, rest |-> u]
      <4> HIDE DEF i, r, t
      <4> QED BY <2>7, <2>8 DEF AllTurn
    <3> QED BY <2>4, <2>5, <2>6, <3>1, <3>2
  <2>9. CASE TryParse(r).packet # {}
    <3> DEFINE p == First(TryParse(r).packet)
               y == Len(t) - Len(u) + 1
    <3>1. z \in i + 6 .. N + 1
      <4> HIDE DEF i
      <4> QED BY <2>3, <2>9, AllTurnInside
    <3>2. AllTurn(f, b, i) = [packets |-> <<p>> \o f[z].packets, rest |-> f[z].rest]
      <4> HIDE DEF i
      <4> QED BY <2>9, Zenon DEF AllTurn
    <3>3. AllTurn(h, t, i - j + 1) = [packets |-> <<p>> \o h[y].packets, rest |-> h[y].rest]
      <4> HIDE DEF i, r, t
      <4> QED BY <2>7, <2>9, Zenon DEF AllTurn
    <3> DEFINE l == N + 1 - z
    <3>4. l \in 0 .. N + 1 - j /\ l \in Nat /\ ~ (k <= l) /\ N + 1 - l = z
          /\ N + 1 - l - j + 1 = y
      <4>1. u \in Seq(Byte)
        <5>1. r \in Seq(Byte)
          <6> HIDE DEF i
          <6> QED BY <2>3, RestType
        <5> HIDE DEF r
        <5> QED BY <5>1, ParsedType
      <4>2. Len(u) \in Nat /\ k \in Nat /\ j \in Nat
        <5> HIDE DEF u, T
        <5> QED BY <4>1, <2>1
      <4> HIDE DEF u, r, t, T
      <4>3. i \in Nat /\ i = N + 1 - k /\ Len(t) = N - j + 1 /\ N \in Nat
        BY <4>2, <1>1, <2>3
      <4>4. i + 6 <= z /\ z <= N + 1 /\ z \in Int /\ y = z - j + 1 /\ j <= i
        BY <4>2, <4>3, <3>1, <2>3
      <4> HIDE DEF z, y, i
      <4> QED BY <4>2, <4>3, <4>4
    <3>5. l \notin T
      <4> HIDE DEF T, l
      <4> QED BY <2>2, <3>4
    <3>6. f[z] = h[y]
      <4> HIDE DEF z, y
      <4> QED BY <3>4, <3>5
    <3> HIDE DEF z, y, p, i, t
    <3> QED BY <2>4, <2>5, <2>6, <3>2, <3>3, <3>6
  <2> QED BY <2>8, <2>9
<1>3. ASSUME NEW i \in j .. Len(b) + 1 PROVE f[i] = h[i - j + 1]
  <2> DEFINE k == N + 1 - i
  <2>1. k \in 0 .. N + 1 - j /\ N + 1 - k = i
    BY <1>1
  <2>2. k \notin T
    <3> HIDE DEF k, T
    <3> QED BY <1>2
  <2> QED BY <2>1, <2>2
<1> QED
  BY <1>3

LEMMA AllExists ==
  ASSUME NEW b \in Seq(Byte)
  PROVE  \E f : AllOf(f, b)
<1> DEFINE T == {n \in Nat : \E d \in Seq(Byte) : Len(d) = n /\ ~ \E f : AllOf(f, d)}
<1>1. T = {}
  <2> SUFFICES ASSUME T # {} PROVE FALSE
    OBVIOUS
  <2>1. T \in SUBSET Nat
    OBVIOUS
  <2>2. PICK n \in T : \A l \in T : n <= l
    <3> HIDE DEF T
    <3> QED BY <2>1, LeastNat
  <2>3. n \in Nat
    OBVIOUS
  <2>4. PICK d \in Seq(Byte) : Len(d) = n /\ ~ \E f : AllOf(f, d)
    OBVIOUS
  <2>5. CASE n = 0
    <3> DEFINE f == [i \in 1 .. Len(d) + 1 |->
                       [packets |-> <<>>, rest |-> TryParse(SubSeq(d, i, Len(d))).rest]]
    <3>1. ASSUME NEW i \in 1 .. Len(d) + 1 PROVE TryParse(SubSeq(d, i, Len(d))).packet = {}
      <4>1. /\ SubSeq(d, i, Len(d)) \in Seq(Byte)
            /\ Len(SubSeq(d, i, Len(d))) = Len(d) - i + 1
        BY RestType
      <4>2. Len(SubSeq(d, i, Len(d))) < 2
        BY <4>1, <2>4, <2>5
      <4> DEFINE r == SubSeq(d, i, Len(d))
      <4>3. Waits(r)
        BY <4>2, Zenon DEF Waits
      <4> HIDE DEF r
      <4>4. TryParse(r) = [packet |-> {}, rest |-> r]
        BY <4>1, <4>3, ParsedTwice DEF r
      <4>5. TryParse(r).packet = {}
        BY <4>4
      <4> QED BY <4>5 DEF r
    <3>2. \A i \in 1 .. Len(d) + 1 : AllTurn(f, d, i) =
              [packets |-> <<>>, rest |-> TryParse(SubSeq(d, i, Len(d))).rest]
      BY <3>1, Zenon DEF AllTurn
    <3>3. AllOf(f, d)
      BY <3>2, Zenon DEF AllOf
    <3> QED BY <3>3, <2>4
  <2>6. CASE n > 0
    <3> DEFINE N == Len(d)
               t == SubSeq(d, 2, Len(d))
    <3>1. 2 \in 1 .. Len(d) + 1
      BY <2>3, <2>4, <2>6
    <3>2. t \in Seq(Byte) /\ Len(t) = n - 1
      BY <3>1, <2>4, RestType
    <3>3. n - 1 \in Nat /\ ~ (n <= n - 1)
      BY <2>3, <2>6
    <3>4. PICK h : AllOf(h, t)
      <4> HIDE DEF t
      <4> QED BY <2>2, <3>2, <3>3
    <3> DEFINE hh == [i \in 2 .. Len(d) + 1 |-> h[i - 1]]
               f == [i \in 1 .. Len(d) + 1 |-> IF i = 1 THEN AllTurn(hh, d, 1) ELSE h[i - 1]]
    <3>5. \A i \in 2 .. Len(d) + 1 : hh[i] = h[i - 1] /\ f[i] = h[i - 1]
      <4>1. \A i \in 2 .. Len(d) + 1 : hh[i] = h[i - 1]
        OBVIOUS
      <4>2. \A i \in 2 .. Len(d) + 1 : f[i] = h[i - 1]
        <5> HIDE DEF hh
        <5> QED OBVIOUS
      <4> QED BY <4>1, <4>2
    <3>6. f[1] = AllTurn(hh, d, 1)
      <4> HIDE DEF hh
      <4> QED BY <3>1
    <3>7. f = [i \in 1 .. Len(d) + 1 |-> f[i]]
      OBVIOUS
    <3> HIDE DEF f, hh
    <3>8. ASSUME NEW i \in 1 .. Len(d) + 1 PROVE f[i] = AllTurn(f, d, i)
      <4> DEFINE r == SubSeq(d, i, Len(d))
                 u == TryParse(r).rest
                 z == N - Len(u) + 1
                 y == Len(t) - Len(u) + 1
                 p == First(TryParse(r).packet)
      <4>1. TryParse(r).packet # {} => z \in i + 6 .. N + 1 /\ y = z - 1
        <5> SUFFICES ASSUME TryParse(r).packet # {} PROVE z \in i + 6 .. N + 1 /\ y = z - 1
          OBVIOUS
        <5>1. z \in i + 6 .. N + 1
          BY AllTurnInside
        <5>2. r \in Seq(Byte)
          BY RestType
        <5>3. u \in Seq(Byte)
          <6> HIDE DEF r
          <6> QED BY <5>2, ParsedType
        <5>4. Len(u) \in Nat
          <6> HIDE DEF u
          <6> QED BY <5>3
        <5>5. y = z - 1
          <6> HIDE DEF u, t
          <6> QED BY <5>4, <3>2, <2>3, <2>4
        <5> QED BY <5>1, <5>5
      <4>2. AllTurn(f, d, i) = IF TryParse(r).packet = {} THEN [packets |-> <<>>, rest |-> u]
                               ELSE [packets |-> <<p>> \o f[z].packets, rest |-> f[z].rest]
        BY Zenon DEF AllTurn
      <4>3. CASE i = 1
        <5>1. AllTurn(hh, d, 1) = IF TryParse(r).packet = {} THEN [packets |-> <<>>, rest |-> u]
                                 ELSE [packets |-> <<p>> \o hh[z].packets, rest |-> hh[z].rest]
          BY <4>3, Zenon DEF AllTurn
        <5>2. TryParse(r).packet # {} => hh[z] = f[z]
          <6> SUFFICES ASSUME TryParse(r).packet # {} PROVE hh[z] = f[z]
            OBVIOUS
          <6>1. z \in 2 .. Len(d) + 1
            <7>1. z \in 1 + 6 .. N + 1
              BY <4>1, <4>3
            <7> HIDE DEF z
            <7> QED BY <7>1
          <6> HIDE DEF z
          <6> QED BY <6>1, <3>5
        <5> HIDE DEF r, u, z, p
        <5> QED BY <3>6, <4>2, <4>3, <5>1, <5>2
      <4>4. CASE i # 1
        <5>1. i \in 2 .. Len(d) + 1 /\ i - 1 \in 1 .. Len(t) + 1 /\ i - 2 + 1 = i - 1
          BY <4>4, <3>2, <2>4
        <5>2. SubSeq(t, i - 1, Len(t)) = r
          BY <5>1, <3>1, RestOfRest
        <5>3. h[i - 1] = AllTurn(h, t, i - 1)
          <6> HIDE DEF t
          <6> QED BY <5>1, <3>4 DEF AllOf
        <5>4. AllTurn(h, t, i - 1) =
                IF TryParse(r).packet = {} THEN [packets |-> <<>>, rest |-> u]
                ELSE [packets |-> <<p>> \o h[y].packets, rest |-> h[y].rest]
          <6> HIDE DEF t, r
          <6> QED BY <5>2, Zenon DEF AllTurn
        <5>5. TryParse(r).packet # {} => h[y] = f[z]
          <6> SUFFICES ASSUME TryParse(r).packet # {} PROVE h[y] = f[z]
            OBVIOUS
          <6>1. z \in 2 .. Len(d) + 1 /\ y = z - 1
            <7>1. z \in i + 6 .. N + 1 /\ y = z - 1
              BY <4>1
            <7> HIDE DEF z, y
            <7> QED BY <7>1
          <6> HIDE DEF z, y
          <6> QED BY <6>1, <3>5
        <5>6. f[i] = h[i - 1]
          BY <5>1, <3>5
        <5> HIDE DEF r, u, z, p, y, t
        <5> QED BY <4>2, <5>3, <5>4, <5>5, <5>6
      <4> QED BY <4>3, <4>4
    <3>9. AllOf(f, d)
      BY <3>7, <3>8, Zenon DEF AllOf
    <3> QED BY <3>9, <2>4
  <2> QED BY <2>3, <2>5, <2>6
<1>2. Len(b) \in Nat
  OBVIOUS
<1> QED
  BY <1>1, <1>2

LEMMA ParseAllIs ==
  ASSUME NEW b \in Seq(Byte)
  PROVE  \E f : AllOf(f, b) /\ ParseAll(b) = f[1]
<1> DEFINE
     OneTurn(f, i) ==
       LET r == TryParse(SubSeq(b, i, Len(b)))
           after == f[Len(b) - Len(r.rest) + 1]
       IN  IF r.packet = {} THEN [packets |-> <<>>, rest |-> r.rest]
           ELSE [packets |-> <<CHOOSE p \in r.packet : TRUE>> \o after.packets,
                 rest |-> after.rest]
     Eq(f) ==
       f = [i \in 1 .. Len(b) + 1 |->
              LET r == TryParse(SubSeq(b, i, Len(b)))
                  after == f[Len(b) - Len(r.rest) + 1]
              IN  IF r.packet = {} THEN [packets |-> <<>>, rest |-> r.rest]
                  ELSE [packets |-> <<CHOOSE p \in r.packet : TRUE>> \o after.packets,
                        rest |-> after.rest]]
     c == CHOOSE f : Eq(f)
<1>1. ParseAll(b) = c[1]
  BY Zenon DEF ParseAll
<1>2. \A f, i : OneTurn(f, i) = AllTurn(f, b, i)
  BY Zenon DEF AllTurn, First
<1>3. \A f : Eq(f) <=> f = [i \in 1 .. Len(b) + 1 |-> OneTurn(f, i)]
  BY Zenon
<1>4. \A f : Eq(f) <=> AllOf(f, b)
  <2> HIDE DEF Eq, Body
  <2> QED BY <1>2, <1>3 DEF AllOf
<1>5. Eq(c)
  <2> HIDE DEF Eq
  <2> QED BY <1>4, AllExists, Zenon
<1> HIDE DEF c, Eq
<1> QED
  BY <1>1, <1>4, <1>5

(* The first packet, then those of the rest. *)
LEMMA ParseAllTurn ==
  ASSUME NEW b \in Seq(Byte)
  PROVE  LET r == TryParse(b)
             after == ParseAll(r.rest)
         IN  ParseAll(b) =
               IF r.packet = {} THEN [packets |-> <<>>, rest |-> r.rest]
               ELSE [packets |-> <<First(r.packet)>> \o after.packets, rest |-> after.rest]
<1> DEFINE r == TryParse(b)
           u == r.rest
           z == Len(b) - Len(u) + 1
           t == SubSeq(b, z, Len(b))
<1>1. PICK f : AllOf(f, b) /\ ParseAll(b) = f[1]
  BY ParseAllIs
<1>2. SubSeq(b, 1, Len(b)) = b /\ 1 \in 1 .. Len(b) + 1
  BY WholePiece
<1>3. f[1] = AllTurn(f, b, 1)
  BY <1>1, <1>2 DEF AllOf
<1>4. f[1] = IF r.packet = {} THEN [packets |-> <<>>, rest |-> u]
             ELSE [packets |-> <<First(r.packet)>> \o f[z].packets, rest |-> f[z].rest]
  BY <1>2, <1>3, Zenon DEF AllTurn
<1>5. CASE r.packet = {}
  BY <1>1, <1>4, <1>5
<1>6. CASE r.packet # {}
  <2>1. u \in Seq(Byte) /\ Len(u) + 6 <= Len(b)
    BY <1>6, ParsedType
  <2>2. u = t
    BY LeftIsRest
  <2>3. z \in 1 .. Len(b) + 1 /\ z \in z .. Len(b) + 1 /\ z - z + 1 = 1
    <3> HIDE DEF u
    <3> QED BY <2>1
  <2>4. PICK h : AllOf(h, u) /\ ParseAll(u) = h[1]
    <3> HIDE DEF u
    <3> QED BY <2>1, ParseAllIs
  <2>5. f[z] = h[z - z + 1]
    <3>1. AllOf(h, t)
      <4> HIDE DEF t, u
      <4> QED BY <2>2, <2>4
    <3> HIDE DEF z
    <3> QED BY <1>1, <2>3, <3>1, AllShifted
  <2> HIDE DEF u, z
  <2> QED BY <1>1, <1>4, <1>6, <2>3, <2>4, <2>5 DEF u
<1> QED
  BY <1>5, <1>6

LEMMA ParseAllType ==
  ASSUME NEW b \in Seq(Byte)
  PROVE  LET all == ParseAll(b)
         IN  /\ all = [packets |-> all.packets, rest |-> all.rest]
             /\ all.packets \in Seq(Decoded)
             /\ all.rest \in Seq(Byte)
<1> DEFINE
     Holds(d) ==
       LET all == ParseAll(d)
       IN  /\ all = [packets |-> all.packets, rest |-> all.rest]
           /\ all.packets \in Seq(Decoded)
           /\ all.rest \in Seq(Byte)
     T == {n \in Nat : \E d \in Seq(Byte) : Len(d) = n /\ ~ Holds(d)}
<1>1. T = {}
  <2> SUFFICES ASSUME T # {} PROVE FALSE
    OBVIOUS
  <2>1. T \in SUBSET Nat
    OBVIOUS
  <2>2. PICK n \in T : \A l \in T : n <= l
    <3> HIDE DEF T
    <3> QED BY <2>1, LeastNat
  <2>3. PICK d \in Seq(Byte) : Len(d) = n /\ ~ Holds(d)
    <3> HIDE DEF Holds
    <3> QED OBVIOUS
  <2> DEFINE r == TryParse(d)
             after == ParseAll(r.rest)
  <2>4. /\ r.rest \in Seq(Byte) /\ r.packet \subseteq Decoded
        /\ r.packet # {} => Len(r.rest) + 6 <= Len(d)
    BY ParsedType
  <2>5. CASE r.packet = {}
    <3>1. ParseAll(d) = [packets |-> <<>>, rest |-> r.rest]
      BY <2>5, ParseAllTurn, Zenon
    <3> HIDE DEF r
    <3> QED BY <2>3, <2>4, <3>1
  <2>6. CASE r.packet # {}
    <3>1. ParseAll(d) = [packets |-> <<First(r.packet)>> \o after.packets, rest |-> after.rest]
      BY <2>6, ParseAllTurn, Zenon
    <3>2. First(r.packet) \in Decoded
      <4> HIDE DEF r
      <4> QED BY <2>4, <2>6 DEF First
    <3>3. Len(r.rest) \in Nat /\ ~ (n <= Len(r.rest))
      <4> HIDE DEF r
      <4> QED BY <2>3, <2>4, <2>6
    <3>4. Holds(r.rest)
      <4> HIDE DEF r, Holds
      <4> QED BY <2>2, <2>4, <3>3
    <3>5. after.packets \in Seq(Decoded) /\ after.rest \in Seq(Byte)
      BY <3>4
    <3> HIDE DEF r, after
    <3> DEFINE ps == <<First(r.packet)>> \o after.packets
    <3>6. ps \in Seq(Decoded)
      BY <3>2, <3>5
    <3> HIDE DEF ps
    <3>7. ParseAll(d) = [packets |-> ps, rest |-> after.rest]
      BY <3>1 DEF ps
    <3> QED BY <2>3, <3>5, <3>6, <3>7
  <2> QED BY <2>5, <2>6
<1>2. Len(b) \in Nat
  OBVIOUS
<1>3. Holds(b)
  <2> HIDE DEF Holds
  <2> QED BY <1>1, <1>2
<1> QED
  BY <1>3

(* The packets of some bytes and of those that come behind are those of    *)
(* the first, and those of what these leave with the second.               *)
LEMMA ParseAllMore ==
  ASSUME NEW b \in Seq(Byte), NEW m \in Seq(Byte)
  PROVE  LET all == ParseAll(b)
             more == ParseAll(all.rest \o m)
         IN  /\ ParseAll(b \o m).packets = all.packets \o more.packets
             /\ ParseAll(b \o m).rest = more.rest
<1> DEFINE
     Holds(d) ==
       LET all == ParseAll(d)
           more == ParseAll(all.rest \o m)
       IN  /\ ParseAll(d \o m).packets = all.packets \o more.packets
           /\ ParseAll(d \o m).rest = more.rest
     T == {n \in Nat : \E d \in Seq(Byte) : Len(d) = n /\ ~ Holds(d)}
<1>1. T = {}
  <2> SUFFICES ASSUME T # {} PROVE FALSE
    OBVIOUS
  <2>1. T \in SUBSET Nat
    OBVIOUS
  <2>2. PICK n \in T : \A l \in T : n <= l
    <3> HIDE DEF T
    <3> QED BY <2>1, LeastNat
  <2>3. PICK d \in Seq(Byte) : Len(d) = n /\ ~ Holds(d)
    <3> HIDE DEF Holds
    <3> QED OBVIOUS
  <2> DEFINE r == TryParse(d)
             u == r.rest
             e == d \o m
             v == u \o m
             all == ParseAll(d)
             more == ParseAll(all.rest \o m)
  <2>4. /\ u \in Seq(Byte) /\ r.packet \subseteq Decoded
        /\ r.packet # {} => Len(u) + 6 <= Len(d)
    BY ParsedType
  <2>5. e \in Seq(Byte)
    BY Joined
  <2>6. v \in Seq(Byte)
    <3> HIDE DEF u
    <3> QED BY <2>4, Joined
  <2>7. CASE r.packet = {}
    <3>1. all = [packets |-> <<>>, rest |-> u]
      BY <2>7, ParseAllTurn, Zenon
    <3>2. TryParse(e) = TryParse(v)
      BY <2>7, MoreBytes
    <3>3. ParseAll(e) = ParseAll(v)
      <4> HIDE DEF e, v
      <4> QED BY <2>5, <2>6, <3>2, ParseAllTurn, Zenon
    <3>4. ParseAll(v).packets \in Seq(Decoded)
      <4> HIDE DEF v
      <4> QED BY <2>6, ParseAllType
    <3>5. all.rest = u /\ all.packets = <<>>
      <4> HIDE DEF u, all
      <4> QED BY <3>1
    <3>6. more = ParseAll(v)
      <4> HIDE DEF all, u
      <4> QED BY <3>5
    <3>7. ParseAll(e).packets = all.packets \o more.packets
      <4> HIDE DEF all, more, e, v
      <4> QED BY <3>3, <3>4, <3>5, <3>6
    <3>8. ParseAll(e).rest = more.rest
      <4> HIDE DEF all, more, e, v
      <4> QED BY <3>3, <3>6
    <3> QED BY <2>3, <3>7, <3>8
  <2>8. CASE r.packet # {}
    <3> DEFINE after == ParseAll(u)
               x == ParseAll(after.rest \o m)
               p == <<First(r.packet)>>
    <3>1. all = [packets |-> p \o after.packets, rest |-> after.rest]
      BY <2>8, ParseAllTurn, Zenon
    <3>2. TryParse(e) = [packet |-> r.packet, rest |-> v]
      BY <2>8, MoreBytes, Zenon
    <3>3. TryParse(e).packet = r.packet /\ TryParse(e).rest = v
      <4> HIDE DEF e, r, v
      <4> QED BY <3>2
    <3>4. ParseAll(e) = [packets |-> p \o ParseAll(v).packets, rest |-> ParseAll(v).rest]
      <4> HIDE DEF e, v
      <4> QED BY <2>5, <2>8, <3>3, ParseAllTurn, Zenon
    <3>5. Len(u) \in Nat /\ ~ (n <= Len(u))
      <4> HIDE DEF u
      <4> QED BY <2>3, <2>4, <2>8
    <3>6. Holds(u)
      <4> HIDE DEF u, Holds
      <4> QED BY <2>2, <2>4, <3>5
    <3>7. ParseAll(v).packets = after.packets \o x.packets /\ ParseAll(v).rest = x.rest
      BY <3>6
    <3>8. after.packets \in Seq(Decoded) /\ after.rest \in Seq(Byte)
      <4> HIDE DEF u
      <4> QED BY <2>4, ParseAllType
    <3>9. x.packets \in Seq(Decoded)
      <4> DEFINE w == after.rest \o m
      <4>1. w \in Seq(Byte)
        <5> HIDE DEF after
        <5> QED BY <3>8
      <4> HIDE DEF w
      <4>2. ParseAll(w).packets \in Seq(Decoded)
        BY <4>1, ParseAllType
      <4> QED BY <4>2 DEF w
    <3>10. p \in Seq(Decoded)
      <4>1. First(r.packet) \in Decoded
        <5> HIDE DEF r, u
        <5> QED BY <2>4, <2>8 DEF First
      <4> HIDE DEF r
      <4> QED BY <4>1
    <3>11. all.rest = after.rest /\ all.packets = p \o after.packets
      <4> DEFINE ps == p \o after.packets
      <4> HIDE DEF ps, all, after
      <4>1. all = [packets |-> ps, rest |-> after.rest]
        BY <3>1 DEF ps
      <4>2. all.rest = after.rest /\ all.packets = ps
        BY <4>1
      <4> QED BY <4>2 DEF ps
    <3>12. more = x
      <4> HIDE DEF all, after
      <4> QED BY <3>11
    <3>13. /\ ParseAll(e).packets = p \o ParseAll(v).packets
           /\ ParseAll(e).rest = ParseAll(v).rest
      <4> DEFINE ps == p \o ParseAll(v).packets
      <4> HIDE DEF ps, e, v
      <4>1. ParseAll(e) = [packets |-> ps, rest |-> ParseAll(v).rest]
        BY <3>4 DEF ps
      <4>2. ParseAll(e).packets = ps /\ ParseAll(e).rest = ParseAll(v).rest
        BY <4>1
      <4> QED BY <4>2 DEF ps
    <3>14. p \o (after.packets \o x.packets) = (p \o after.packets) \o x.packets
      <4> HIDE DEF p, after, x
      <4> DEFINE s == after.packets
                 t == x.packets
      <4>1. s \in Seq(Decoded) /\ t \in Seq(Decoded) /\ p \in Seq(Decoded)
        BY <3>8, <3>9, <3>10
      <4> HIDE DEF s, t
      <4>2. p \o (s \o t) = (p \o s) \o t
        BY <4>1, JoinedThree, SMTT(30)
      <4> QED BY <4>2 DEF s, t
    <3>15. ParseAll(e).packets = all.packets \o more.packets
      <4> HIDE DEF all, more, e, v, p, after, x
      <4> QED BY <3>7, <3>11, <3>12, <3>13, <3>14
    <3>16. ParseAll(e).rest = more.rest
      <4> HIDE DEF all, more, e, v, p, after, x
      <4> QED BY <3>7, <3>12, <3>13
    <3> QED BY <2>3, <3>15, <3>16
  <2> QED BY <2>7, <2>8
<1>2. Len(b) \in Nat
  OBVIOUS
<1>3. Holds(b)
  <2> HIDE DEF Holds
  <2> QED BY <1>1, <1>2
<1> QED
  BY <1>3

-----------------------------------------------------------------------------
(* Checksums                                                               *)

IsSum(f, s) ==
  f = [n \in 0 .. Len(s) |-> IF n = 0 THEN 0 ELSE (f[n - 1] + s[n]) % 256]

LEMMA SumAt ==
  ASSUME NEW f, NEW b, IsSum(f, b), NEW k \in 0 .. Len(b)
  PROVE  f[k] = IF k = 0 THEN 0 ELSE (f[k - 1] + b[k]) % 256
BY DEF IsSum

LEMMA Mod256 ==
  \A x \in Int : x % 256 \in Int /\ 0 <= x % 256 /\ x % 256 <= 255
OBVIOUS

LEMMA SumExists ==
  ASSUME NEW b \in Seq(Byte)
  PROVE  \E f : IsSum(f, b)
<1> DEFINE T == {n \in Nat : \E d \in Seq(Byte) : Len(d) = n /\ ~ \E f : IsSum(f, d)}
<1>1. T = {}
  <2> SUFFICES ASSUME T # {} PROVE FALSE
    OBVIOUS
  <2>1. T \in SUBSET Nat
    OBVIOUS
  <2>2. PICK n \in T : \A l \in T : n <= l
    <3> HIDE DEF T
    <3> QED BY <2>1, LeastNat
  <2>3. n \in Nat
    OBVIOUS
  <2>4. PICK d \in Seq(Byte) : Len(d) = n /\ ~ \E f : IsSum(f, d)
    OBVIOUS
  <2>5. CASE n = 0
    <3> DEFINE f == [k \in 0 .. Len(d) |-> 0]
    <3>1. f = [k \in 0 .. Len(d) |-> IF k = 0 THEN 0 ELSE (f[k - 1] + d[k]) % 256]
      BY <2>4, <2>5
    <3> HIDE DEF f
    <3>2. IsSum(f, d)
      BY <3>1 DEF IsSum
    <3> QED BY <3>2, <2>4
  <2>6. CASE n > 0
    <3> DEFINE t == SubSeq(d, 1, n - 1)
    <3>1. n - 1 \in 1 - 1 .. Len(d) /\ 1 \in 1 .. Len(d) + 1 /\ (n - 1) - 1 + 1 = n - 1
      BY <2>3, <2>4, <2>6
    <3>2. /\ t \in Seq(Byte) /\ Len(t) = n - 1
          /\ \A i \in 1 .. n - 1 : t[i] = d[i]
      BY <2>3, <2>4, <2>6
    <3>3. n - 1 \in Nat /\ ~ (n <= n - 1)
      BY <2>3, <2>6
    <3>4. PICK h : IsSum(h, t)
      <4> HIDE DEF t
      <4> QED BY <2>2, <3>2, <3>3
    <3> DEFINE f == [k \in 0 .. n |-> IF k = n THEN (h[n - 1] + d[n]) % 256 ELSE h[k]]
    <3>5. \A k \in 0 .. n - 1 : h[k] = IF k = 0 THEN 0 ELSE (h[k - 1] + t[k]) % 256
      <4> HIDE DEF t
      <4> QED BY <3>2, <3>4 DEF IsSum
    <3>6. f[n] = (h[n - 1] + d[n]) % 256 /\ \A k \in 0 .. n - 1 : f[k] = h[k]
      BY <2>3, <2>6
    <3>7. f = [k \in 0 .. n |-> f[k]]
      OBVIOUS
    <3> HIDE DEF f, t
    <3>8. ASSUME NEW k \in 0 .. n
          PROVE  f[k] = IF k = 0 THEN 0 ELSE (f[k - 1] + d[k]) % 256
      <4>1. CASE k = n
        <5>1. f[n - 1] = h[n - 1]
          BY <3>6, <2>3, <2>6
        <5> QED BY <4>1, <5>1, <3>6, <2>6
      <4>2. CASE k # n
        <5>1. k \in 0 .. n - 1 /\ (k # 0 => k - 1 \in 0 .. n - 1 /\ k \in 1 .. n - 1)
          BY <4>2, <2>3
        <5>2. k # 0 => f[k - 1] = h[k - 1] /\ t[k] = d[k]
          BY <5>1, <3>2, <3>6
        <5>3. f[k] = h[k]
          BY <5>1, <3>6
        <5>4. h[k] = IF k = 0 THEN 0 ELSE (h[k - 1] + t[k]) % 256
          BY <5>1, <3>5
        <5> QED BY <5>2, <5>3, <5>4
      <4> QED BY <4>1, <4>2
    <3>9. IsSum(f, d)
      <4>1. n = Len(d)
        BY <2>4
      <4>2. f = [k \in 0 .. Len(d) |-> IF k = 0 THEN 0 ELSE (f[k - 1] + d[k]) % 256]
        <5> DEFINE F(k) == IF k = 0 THEN 0 ELSE (f[k - 1] + d[k]) % 256
        <5>1. \A k \in 0 .. n : f[k] = F(k)
          BY <3>8
        <5> HIDE DEF F
        <5>2. f = [k \in 0 .. n |-> F(k)]
          BY <3>7, <5>1
        <5> QED BY <4>1, <5>2 DEF F
      <4> QED BY <4>2, Zenon DEF IsSum
    <3> QED BY <3>9, <2>4
  <2> QED BY <2>3, <2>5, <2>6
<1>2. Len(b) \in Nat
  OBVIOUS
<1> QED
  BY <1>1, <1>2

LEMMA SumIs ==
  ASSUME NEW b \in Seq(Byte)
  PROVE  \E f : IsSum(f, b) /\ Sum(b) = f[Len(b)]
<1> DEFINE Eq(f) == f = [n \in 0 .. Len(b) |-> IF n = 0 THEN 0 ELSE (f[n - 1] + b[n]) % 256]
           c == CHOOSE f : Eq(f)
<1>1. Sum(b) = c[Len(b)]
  BY Zenon DEF Sum
<1>2. \A f : Eq(f) <=> IsSum(f, b)
  BY Zenon DEF IsSum
<1>3. Eq(c)
  <2> HIDE DEF Eq
  <2> QED BY <1>2, SumExists, Zenon
<1> HIDE DEF c, Eq
<1> QED
  BY <1>1, <1>2, <1>3

(* Two sums agree as far as the bytes do, and are bytes. *)
LEMMA SumsAgree ==
  ASSUME NEW b \in Seq(Byte), NEW d \in Seq(Byte), NEW f, NEW g,
         IsSum(f, b), IsSum(g, d), Len(b) <= Len(d),
         \A i \in 1 .. Len(b) : b[i] = d[i]
  PROVE  \A k \in 0 .. Len(b) : f[k] = g[k] /\ f[k] \in Int /\ 0 <= f[k] /\ f[k] <= 255
<1> DEFINE Good(k) == f[k] = g[k] /\ f[k] \in Int /\ 0 <= f[k] /\ f[k] <= 255
           T == {k \in 0 .. Len(b) : ~ Good(k)}
<1>0. Len(b) \in Nat /\ Len(d) \in Nat
  OBVIOUS
<1>1. T = {}
  <2> SUFFICES ASSUME T # {} PROVE FALSE
    OBVIOUS
  <2>1. T \in SUBSET Nat
    BY <1>0
  <2>2. PICK k \in T : \A l \in T : k <= l
    <3> HIDE DEF T
    <3> QED BY <2>1, LeastNat
  <2>3. k \in 0 .. Len(b) /\ k \in 0 .. Len(d) /\ ~ Good(k)
    BY <1>0
  <2>4. f[k] = IF k = 0 THEN 0 ELSE (f[k - 1] + b[k]) % 256
    BY <2>3, SumAt
  <2>5. g[k] = IF k = 0 THEN 0 ELSE (g[k - 1] + d[k]) % 256
    BY <2>3, SumAt
  <2>6. CASE k = 0
    BY <2>3, <2>4, <2>5, <2>6
  <2>7. CASE k # 0
    <3>1. k - 1 \in 0 .. Len(b) /\ ~ (k <= k - 1) /\ k \in 1 .. Len(b)
      BY <1>0, <2>3, <2>7
    <3>2. Good(k - 1)
      <4>1. k - 1 \notin T
        <5> HIDE DEF T
        <5> QED BY <2>2, <3>1
      <4> QED BY <4>1, <3>1
    <3>3. b[k] = d[k] /\ b[k] \in Int
      BY <3>1, ByteRange
    <3>4. f[k] = g[k]
      BY <2>4, <2>5, <2>7, <3>2, <3>3
    <3>5. f[k] \in Int /\ 0 <= f[k] /\ f[k] <= 255
      BY <2>4, <2>7, <3>2, <3>3, Mod256
    <3> QED BY <2>3, <3>4, <3>5
  <2> QED BY <2>6, <2>7
<1> QED
  BY <1>1

LEMMA SumRange ==
  ASSUME NEW b \in Seq(Byte)
  PROVE  Sum(b) \in Int /\ 0 <= Sum(b) /\ Sum(b) <= 255
<1>1. PICK f : IsSum(f, b) /\ Sum(b) = f[Len(b)]
  BY SumIs
<1>2. Len(b) \in 0 .. Len(b) /\ Len(b) <= Len(b)
  OBVIOUS
<1>3. f[Len(b)] \in Int /\ 0 <= f[Len(b)] /\ f[Len(b)] <= 255
  BY <1>1, <1>2, SumsAgree
<1> QED
  BY <1>1, <1>3

LEMMA SumAppend ==
  ASSUME NEW b \in Seq(Byte), NEW x \in Byte
  PROVE  Sum(Append(b, x)) = (Sum(b) + x) % 256
<1> DEFINE d == Append(b, x)
           n == Len(b)
<1>1. /\ d \in Seq(Byte) /\ Len(d) = n + 1 /\ d[n + 1] = x
      /\ \A i \in 1 .. n : b[i] = d[i]
  OBVIOUS
<1>2. n \in Nat
  OBVIOUS
<1> HIDE DEF d, n
<1>3. PICK f : IsSum(f, b) /\ Sum(b) = f[n]
  BY SumIs DEF n
<1>4. PICK g : IsSum(g, d) /\ Sum(d) = g[Len(d)]
  BY <1>1, SumIs
<1>5. f[n] = g[n]
  <2>1. Len(b) = n
    BY DEF n
  <2>2. \A k \in 0 .. Len(b) : f[k] = g[k]
    BY <1>1, <1>2, <1>3, <1>4, <2>1, SumsAgree
  <2> QED BY <1>2, <2>1, <2>2
<1>6. g[n + 1] = (g[n] + d[n + 1]) % 256
  <2>1. n + 1 \in 0 .. Len(d) /\ n + 1 # 0 /\ (n + 1) - 1 = n
    BY <1>1, <1>2
  <2>2. g[n + 1] = IF n + 1 = 0 THEN 0 ELSE (g[(n + 1) - 1] + d[n + 1]) % 256
    BY <1>4, <2>1, SumAt
  <2> QED BY <2>1, <2>2
<1>7. Sum(d) = (Sum(b) + x) % 256
  BY <1>1, <1>3, <1>4, <1>5, <1>6
<1> QED
  BY <1>7 DEF d

(* What Sealed appends is a byte, and makes the sum zero. *)
LEMMA SealedSum ==
  ASSUME NEW b \in Seq(Byte)
  PROVE  /\ Checksum(b) \in Byte
         /\ Sealed(b) \in Seq(Byte) /\ Len(Sealed(b)) = Len(b) + 1
         /\ \A i \in 1 .. Len(b) : Sealed(b)[i] = b[i]
         /\ Sum(Sealed(b)) = 0
<1> DEFINE s == Sum(b)
           x == Checksum(b)
<1>1. s \in Int /\ 0 <= s /\ s <= 255
  BY SumRange
<1>2. x = (256 - s) % 256
  BY DEF Checksum
<1> HIDE DEF s, x
<1>3. x \in Byte
  <2>1. x \in Int /\ 0 <= x /\ x <= 255
    BY <1>1, <1>2
  <2> QED BY <2>1, ByteRange
<1>4. (s + x) % 256 = 0
  BY <1>1, <1>2
<1>5. Sum(Append(b, x)) = (s + x) % 256
  BY <1>3, SumAppend DEF s
<1>6. Sealed(b) = Append(b, x)
  BY DEF Sealed, x
<1> QED
  BY <1>3, <1>4, <1>5, <1>6 DEF x

-----------------------------------------------------------------------------
(* What to_bytes writes, from_bytes reads                                  *)

LEMMA SumEmpty == Sum(<<>>) = 0
<1>1. <<>> \in Seq(Byte) /\ Len(<<>>) = 0
  OBVIOUS
<1>2. PICK f : IsSum(f, <<>>) /\ Sum(<<>>) = f[0]
  BY <1>1, SumIs
<1>3. f[0] = 0
  BY <1>1, <1>2 DEF IsSum
<1> QED
  BY <1>2, <1>3

LEMMA ControlIs ==
  ASSUME NEW p \in Packets
  PROVE  LET c == ControlByte(p)
         IN  /\ c \in Byte
             /\ p.kind = "Detect" => c = 238
             /\ p.kind # "Detect" => /\ KindOf(c) = {p.kind}
                                     /\ c # 238
                                     /\ (c \div 8) % 2 = 1 <=> p.flag
             /\ KindOf(238) = {"Detect"}
<1> DEFINE c == ControlByte(p)
           k == p.kind
<1>1. k \in DOMAIN Code /\ p.flag \in BOOLEAN
  BY DEF Packets
<1>2. c = Code[k] + IF p.flag /\ k # "Detect" THEN 8 ELSE 0
  BY Zenon DEF ControlByte
<1>3. KindOf(238) = {"Detect"}
  BY CodeIs DEF KindOf
<1>4. CASE k = "Detect"
  <2>1. c = 238
    BY <1>2, <1>4, CodeIs
  <2>2. c \in Byte
    BY <2>1, ByteRange
  <2> QED BY <1>3, <1>4, <2>1, <2>2
<1>5. CASE k # "Detect"
  <2> DEFINE a == Code[k]
  <2>1. a \in {0, 64, 96, 128, 160, 192, 224, 240}
    BY <1>1, <1>5, CodeIs
  <2>2. c = a \/ c = a + 8
    BY <1>2, <2>1
  <2>3. c = a + 8 <=> p.flag
    BY <1>2, <1>5, <2>1
  <2> HIDE DEF c, a, k
  <2>4. c \in Int /\ 0 <= c /\ c <= 255 /\ c # 238
    BY <2>1, <2>2
  <2>5. 16 * (c \div 16) = a
    BY <2>1, <2>2
  <2>6. (c \div 8) % 2 = 1 <=> c = a + 8
    BY <2>1, <2>2
  <2>7. KindOf(c) = {k}
    <3>1. c # Code["Detect"]
      BY <2>4, CodeIs
    <3>2. KindOf(c) = {l \in DOMAIN Code \ {"Detect"} : Code[l] = 16 * (c \div 16)}
      BY <3>1 DEF KindOf
    <3>3. KindOf(c) = {l \in DOMAIN Code \ {"Detect"} : Code[l] = Code[k]}
      BY <2>5, <3>2 DEF a
    <3> QED BY <1>1, <1>5, <3>3, CodesDiffer
  <2>8. c \in Byte
    BY <2>4, ByteRange
  <2> QED BY <1>3, <1>5, <2>3, <2>4, <2>6, <2>7, <2>8 DEF c, k
<1> QED
  BY <1>4, <1>5

Length(p) == 9 + Len(p.payload) + (IF p.payload = <<>> THEN 0 ELSE 1)

(* Its length does not overflow. *)
Fits(p) == Length(p) <= 65535

LEMMA LengthType ==
  ASSUME NEW p \in Packets
  PROVE  /\ Length(p) \in Nat
         /\ p.payload = <<>> => Length(p) = 9
         /\ p.payload # <<>> => Length(p) = 10 + Len(p.payload)
<1>1. p.payload \in Seq(Byte)
  BY DEF Packets
<1>2. Len(p.payload) \in Nat
  BY <1>1
<1>3. CASE p.payload = <<>>
  <2>1. Length(p) = 9 + Len(p.payload) + 0 /\ Len(p.payload) = 0
    BY <1>3 DEF Length
  <2> QED BY <1>3, <2>1
<1>4. CASE p.payload # <<>>
  <2>1. Length(p) = 9 + Len(p.payload) + 1
    BY <1>4, Zenon DEF Length
  <2> QED BY <1>2, <1>4, <2>1
<1> QED
  BY <1>3, <1>4

LEMMA DetectBytes ==
  ASSUME NEW p \in Packets, p.kind = "Detect"
  PROVE  LET e == Encode(p)
         IN  /\ e \in Seq(Byte) /\ Len(e) = 6
             /\ e[1] = 255 /\ e[2] = 90 /\ e[3] = 0 /\ e[4] = 6
             /\ e[5] = 238 /\ e[6] = p.seq
<1>1. Encode(p) = <<255, 90, 0, 6, 238, p.seq>>
  BY ControlIs DEF Encode
<1>2. p.seq \in Byte /\ 255 \in Byte /\ 90 \in Byte /\ 0 \in Byte /\ 6 \in Byte /\ 238 \in Byte
  BY ByteRange, SMTT(30) DEF Packets
<1> QED
  BY <1>1, <1>2

LEMMA HeaderIs ==
  ASSUME NEW p \in Packets
  PROVE  LET h == Header(p)
         IN  /\ h \in Seq(Byte) /\ Len(h) = 8
             /\ h[1] = 255 /\ h[2] = 90 /\ (Fits(p) => 256 * h[3] + h[4] = Length(p))
             /\ h[5] = ControlByte(p) /\ h[6] = p.seq /\ h[7] = p.ack
             /\ h[8] = IF p.session = NoSession THEN 0 ELSE p.session
<1> DEFINE n == Length(p)
           m == n % 65536
           x == m \div 256
           y == m % 256
           s == IF p.session = NoSession THEN 0 ELSE p.session
           c == ControlByte(p)
<1>1. p.payload \in Seq(Byte) /\ p.seq \in Byte /\ p.ack \in Byte
      /\ p.session \in Byte \cup {NoSession}
  BY DEF Packets
<1>2. n \in Nat /\ m \in Nat /\ m <= 65535 /\ (Fits(p) => m = n)
  <2>1. n \in Nat
    BY LengthType
  <2>2. Fits(p) => n <= 65535
    BY DEF Fits
  <2> HIDE DEF n
  <2> QED BY <2>1, <2>2
<1>3. x \in Byte /\ y \in Byte /\ 256 * x + y = m
  <2> HIDE DEF m
  <2>1. x \in Int /\ 0 <= x /\ x <= 255 /\ y \in Int /\ 0 <= y /\ y <= 255 /\ 256 * x + y = m
    BY <1>2
  <2> HIDE DEF x, y
  <2> QED BY <2>1, ByteRange
<1>4. s \in Byte /\ c \in Byte /\ 255 \in Byte /\ 90 \in Byte
  <2>1. 255 \in Byte /\ 90 \in Byte /\ 0 \in Byte
    BY ByteRange
  <2>2. s \in Byte
    BY <1>1, <2>1
  <2>3. c \in Byte
    BY ControlIs
  <2> QED BY <2>1, <2>2, <2>3
<1>5. Header(p) = <<255, 90, x, y, c, p.seq, p.ack, s>>
  BY DEF Header, Length
<1> HIDE DEF n, m, x, y, s, c
<1>6. /\ Header(p) \in Seq(Byte) /\ Len(Header(p)) = 8
      /\ Header(p)[1] = 255 /\ Header(p)[2] = 90 /\ Header(p)[3] = x /\ Header(p)[4] = y
      /\ Header(p)[5] = c /\ Header(p)[6] = p.seq /\ Header(p)[7] = p.ack /\ Header(p)[8] = s
  BY <1>1, <1>3, <1>4, <1>5
<1>7. Fits(p) => 256 * Header(p)[3] + Header(p)[4] = n
  BY <1>2, <1>3, <1>6
<1> QED
  BY <1>6, <1>7 DEF n, s, c

LEMMA EncodeIs ==
  ASSUME NEW p \in Packets, p.kind # "Detect"
  PROVE  LET e == Encode(p)
             h == Sealed(Header(p))
         IN  /\ h \in Seq(Byte) /\ Len(h) = 9 /\ Sum(h) = 0
             /\ \A i \in 1 .. Len(Header(p)) : h[i] = Header(p)[i]
             /\ p.payload = <<>> => e = h
             /\ p.payload # <<>> => e = h \o Sealed(p.payload)
             /\ e \in Seq(Byte) /\ Len(e) = Length(p)
             /\ \A i \in 1 .. Len(h) : e[i] = h[i]
<1> DEFINE h == Sealed(Header(p))
           t == Sealed(p.payload)
           e == Encode(p)
<1>1. h \in Seq(Byte) /\ Len(h) = 9 /\ Sum(h) = 0
      /\ \A i \in 1 .. Len(Header(p)) : h[i] = Header(p)[i]
  <2>1. Header(p) \in Seq(Byte) /\ Len(Header(p)) = 8
    BY HeaderIs
  <2>2. /\ Sealed(Header(p)) \in Seq(Byte) /\ Len(Sealed(Header(p))) = Len(Header(p)) + 1
        /\ \A i \in 1 .. Len(Header(p)) : Sealed(Header(p))[i] = Header(p)[i]
        /\ Sum(Sealed(Header(p))) = 0
    BY <2>1, SealedSum
  <2>3. h = Sealed(Header(p))
    OBVIOUS
  <2> HIDE DEF h
  <2>4. Len(h) = 9
    BY <2>1, <2>2, <2>3
  <2> QED BY <2>1, <2>2, <2>3, <2>4, Zenon
<1>2. p.payload \in Seq(Byte)
  BY DEF Packets
<1>3. t \in Seq(Byte) /\ Len(t) = Len(p.payload) + 1
  BY <1>2, SealedSum
<1>4. e = h \o (IF p.payload = <<>> THEN <<>> ELSE t)
  BY Zenon DEF Encode
<1> HIDE DEF h, t, e
<1>5. CASE p.payload = <<>>
  <2>1. e = h \o <<>>
    BY <1>4, <1>5, Zenon
  <2>2. e = h
    <3>1. h \in Seq(Byte)
      BY <1>1
    <3>2. h \o <<>> = h
      BY <3>1
    <3> QED BY <2>1, <3>2
  <2>3. Length(p) = 9
    BY <1>5, LengthType
  <2>4. Len(e) = Length(p) /\ e \in Seq(Byte)
    BY <1>1, <2>2, <2>3
  <2> QED BY <1>1, <1>5, <2>2, <2>4, Zenon DEF h, e
<1>6. CASE p.payload # <<>>
  <2>1. e = h \o t
    BY <1>4, <1>6, Zenon
  <2>2. e \in Seq(Byte) /\ Len(e) = Len(h) + Len(t) /\ \A i \in 1 .. Len(h) : e[i] = h[i]
    <3>1. h \in Seq(Byte) /\ t \in Seq(Byte)
      BY <1>1, <1>3
    <3>2. /\ h \o t \in Seq(Byte) /\ Len(h \o t) = Len(h) + Len(t)
          /\ \A i \in 1 .. Len(h) : (h \o t)[i] = h[i]
      BY <3>1, Joined
    <3> QED BY <2>1, <3>2, Zenon
  <2>3. Length(p) = 10 + Len(p.payload) /\ Len(p.payload) \in Nat
    BY <1>2, <1>6, LengthType
  <2>4. Len(e) = Length(p)
    <3>1. Len(h) = 9 /\ Len(t) = Len(p.payload) + 1 /\ Len(e) = Len(h) + Len(t)
      BY <1>1, <1>3, <2>2
    <3> QED BY <2>3, <3>1
  <2> QED BY <1>1, <1>6, <2>1, <2>2, <2>4, Zenon DEF h, e, t
<1> QED
  BY <1>5, <1>6

LEMMA DetectDecoded ==
  ASSUME NEW p \in Packets, p.kind = "Detect"
  PROVE  LET e == Encode(p)
         IN  /\ e \in Seq(Byte) /\ Len(e) = 6 /\ Synced(e) /\ LengthOf(e) = 6
             /\ \E q : Decode(e) = {q} /\ Seen(q) = Seen(p)
<1> DEFINE e == Encode(p)
           flag == (e[5] \div 8) % 2 = 1
           q == Packet("Detect", flag, e[6], 0, NoSession, <<>>)
<1>1. /\ e \in Seq(Byte) /\ Len(e) = 6
      /\ e[1] = 255 /\ e[2] = 90 /\ e[3] = 0 /\ e[4] = 6 /\ e[5] = 238
  BY DetectBytes
<1> HIDE DEF e
<1>2. Synced(e) /\ LengthOf(e) = 6
  BY <1>1 DEF Synced, LengthOf
<1>3. KindOf(e[5]) = {"Detect"}
  BY <1>1, ControlIs
<1>4. ~ (Len(e) < 6 \/ ~ Synced(e) \/ Len(e) < LengthOf(e))
  BY <1>1, <1>2
<1>5. Decode(e) = {q}
  <2> DEFINE short == {q}
             full(k) == Packet(k, flag, e[6], e[7], DecodedSession(e[8]),
                               IF Body(e) = <<>> THEN <<>> ELSE Front(Body(e)))
             all == {full(k) : k \in KindOf(e[5])}
  <2>1. Decode(e) = CASE KindOf(e[5]) = {"Detect"} /\ LengthOf(e) = 6 -> short
                      [] Len(e) >= 9 /\ Intact(e) -> all
                      [] OTHER -> {}
    BY <1>4, Zenon DEF Decode
  <2>2. ~ (Len(e) >= 9)
    BY <1>1
  <2> HIDE DEF short, all
  <2>3. Decode(e) = short
    BY <1>2, <1>3, <2>1, <2>2
  <2> QED BY <2>3 DEF short
<1>6. q.kind = "Detect"
  BY DEF Packet
<1>7. Seen(q) = Seen(p)
  <2> HIDE DEF q
  <2> QED BY <1>6 DEF Seen
<1> HIDE DEF q
<1>8. \E x : Decode(e) = {x} /\ Seen(x) = Seen(p)
  BY <1>5, <1>7
<1> QED
  BY <1>1, <1>2, <1>8 DEF e

LEMMA FullDecoded ==
  ASSUME NEW p \in Packets, p.kind # "Detect", Fits(p)
  PROVE  LET e == Encode(p)
         IN  /\ e \in Seq(Byte) /\ Len(e) = Length(p) /\ Synced(e) /\ LengthOf(e) = Len(e)
             /\ \E q : Decode(e) = {q} /\ Seen(q) = Seen(p)
<1> DEFINE e == Encode(p)
           h == Sealed(Header(p))
           body == Body(e)
           payload == IF Body(e) = <<>> THEN <<>> ELSE Front(Body(e))
           flag == (e[5] \div 8) % 2 = 1
           q == Packet(p.kind, flag, e[6], e[7], DecodedSession(e[8]), payload)
<1>1. /\ h \in Seq(Byte) /\ Len(h) = 9 /\ Sum(h) = 0
      /\ \A i \in 1 .. Len(Header(p)) : h[i] = Header(p)[i]
      /\ p.payload = <<>> => e = h
      /\ p.payload # <<>> => e = h \o Sealed(p.payload)
      /\ e \in Seq(Byte) /\ Len(e) = Length(p)
      /\ \A i \in 1 .. Len(h) : e[i] = h[i]
  BY EncodeIs, Zenon
<1>2. /\ Header(p)[1] = 255 /\ Header(p)[2] = 90
      /\ (Fits(p) => 256 * Header(p)[3] + Header(p)[4] = Length(p))
      /\ Header(p)[5] = ControlByte(p) /\ Header(p)[6] = p.seq /\ Header(p)[7] = p.ack
      /\ Header(p)[8] = IF p.session = NoSession THEN 0 ELSE p.session
  BY HeaderIs
<1>3. p.payload \in Seq(Byte)
  BY DEF Packets
<1>4. Length(p) \in Nat /\ Length(p) >= 9
  BY <1>3, LengthType
<1> HIDE DEF e, h
<1>5. \A i \in 1 .. 8 : e[i] = Header(p)[i]
  <2>1. Len(Header(p)) = 8
    BY HeaderIs
  <2> QED BY <1>1, <2>1
<1>6. Synced(e) /\ LengthOf(e) = Len(e)
  BY <1>1, <1>2, <1>5 DEF Synced, LengthOf
<1>7. SubSeq(e, 1, 9) = h
  <2>1. /\ SubSeq(e, 1, 9) \in Seq(Byte) /\ Len(SubSeq(e, 1, 9)) = 9
        /\ \A i \in 1 .. 9 : SubSeq(e, 1, 9)[i] = e[i]
    BY <1>1, <1>4
  <2> QED BY <1>1, <2>1, SameSeq
<1>8. body = (IF p.payload = <<>> THEN <<>> ELSE Sealed(p.payload)) /\ Sum(body) = 0
  <2>1. body = SubSeq(e, 10, Len(e))
    BY <1>6 DEF Body
  <2> HIDE DEF body
  <2>2. CASE p.payload = <<>>
    <3>1. Len(e) = 9
      BY <1>1, <2>2
    <3>2. body = <<>>
      BY <2>1, <3>1
    <3> QED BY <2>2, <3>2, SumEmpty
  <2>3. CASE p.payload # <<>>
    <3> DEFINE t == Sealed(p.payload)
    <3>1. t \in Seq(Byte) /\ Sum(t) = 0 /\ Len(t) \in Nat
      BY <1>3, SealedSum
    <3> HIDE DEF t
    <3>2. e = h \o t
      BY <1>1, <2>3 DEF t
    <3>3. 10 \in 1 .. Len(h) + 1 /\ Len(h \o t) = Len(h) + Len(t)
      <4>1. Len(h \o t) = Len(h) + Len(t)
        <5>1. h \in Seq(Byte) /\ t \in Seq(Byte)
          BY <1>1, <3>1
        <5> QED BY <5>1, Joined, Zenon
      <4>2. 10 \in 1 .. Len(h) + 1
        BY <1>1
      <4> QED BY <4>1, <4>2
    <3>4. SubSeq(h \o t, 10, Len(h) + Len(t)) = SubSeq(h, 10, Len(h)) \o t
      BY <1>1, <3>1, <3>3, PieceOfJoined
    <3>5. SubSeq(h, 10, Len(h)) = <<>>
      BY <1>1
    <3>6. <<>> \o t = t
      BY <3>1
    <3>7. body = t
      BY <2>1, <3>2, <3>3, <3>4, <3>5, <3>6, Zenon
    <3> QED BY <2>3, <3>1, <3>7 DEF t
  <2> QED BY <2>2, <2>3
<1>9. payload = p.payload
  <2> HIDE DEF body
  <2>0. payload = IF body = <<>> THEN <<>> ELSE Front(body)
    BY DEF body
  <2> HIDE DEF payload
  <2>1. CASE p.payload = <<>>
    BY <1>8, <2>0, <2>1
  <2>2. CASE p.payload # <<>>
    <3>1. /\ body \in Seq(Byte) /\ Len(body) = Len(p.payload) + 1
          /\ \A i \in 1 .. Len(p.payload) : body[i] = p.payload[i]
      <4>1. body = Sealed(p.payload)
        BY <1>8, <2>2
      <4> QED BY <1>3, <4>1, SealedSum
    <3>2. payload = SubSeq(body, 1, Len(body) - 1)
      <4>1. body # <<>>
        BY <1>3, <3>1
      <4> QED BY <2>0, <4>1 DEF Front
    <3>3. /\ payload \in Seq(Byte) /\ Len(payload) = Len(p.payload)
          /\ \A i \in 1 .. Len(p.payload) : payload[i] = body[i]
      BY <1>3, <3>1, <3>2
    <3> QED BY <1>3, <3>1, <3>3, SameSeq
  <2> QED BY <2>1, <2>2
<1>10. Decode(e) = {q}
  <2>1. ~ (Len(e) < 6 \/ ~ Synced(e) \/ Len(e) < LengthOf(e))
    BY <1>1, <1>4, <1>6
  <2>2. KindOf(e[5]) = {p.kind}
    BY <1>2, <1>5, ControlIs
  <2>3. Len(e) >= 9 /\ Intact(e)
    BY <1>1, <1>4, <1>7, <1>8 DEF Intact
  <2>4. ~ (KindOf(e[5]) = {"Detect"} /\ LengthOf(e) = 6)
    BY <2>2
  <2> DEFINE full(k) == Packet(k, flag, e[6], e[7], DecodedSession(e[8]), payload)
  <2>5. Decode(e) = {full(k) : k \in KindOf(e[5])}
    BY <2>1, <2>3, <2>4 DEF Decode
  <2> HIDE DEF full
  <2>6. Decode(e) = {full(p.kind)}
    BY <2>2, <2>5
  <2> QED BY <2>6 DEF full
<1>11. Seen(q) = Seen(p)
  <2> DEFINE s == DecodedSession(e[8])
  <2>1. flag = p.flag
    <3>1. p.flag \in BOOLEAN
      BY DEF Packets
    <3>2. e[5] = ControlByte(p)
      BY <1>2, <1>5
    <3>3. flag <=> p.flag
      BY <3>2, ControlIs
    <3> QED BY <3>1, <3>3
  <2>2. e[6] = p.seq /\ e[7] = p.ack
    BY <1>2, <1>5
  <2>3. s = (IF p.session = 0 THEN NoSession ELSE p.session) /\ s # 0
    <3>1. e[8] = IF p.session = NoSession THEN 0 ELSE p.session
      BY <1>2, <1>5
    <3>2. s = IF e[8] = 0 THEN NoSession ELSE e[8]
      BY DEF DecodedSession
    <3>3. NoSession # 0
      BY DEF NoSession
    <3> HIDE DEF s
    <3> QED BY <3>1, <3>2, <3>3
  <2> HIDE DEF s, flag, payload
  <2>4. q = [kind |-> p.kind, flag |-> p.flag, seq |-> p.seq, ack |-> p.ack, session |-> s,
             payload |-> p.payload]
    BY <1>9, <2>1, <2>2 DEF Packet, s
  <2>5. p = [kind |-> p.kind, flag |-> p.flag, seq |-> p.seq, ack |-> p.ack,
             session |-> p.session, payload |-> p.payload]
    BY DEF Packets
  <2>6. [p EXCEPT !.session = IF @ = 0 THEN NoSession ELSE @] = q
    BY <2>3, <2>4, <2>5
  <2>7. [q EXCEPT !.session = IF @ = 0 THEN NoSession ELSE @] = q
    BY <2>3, <2>4
  <2>8. q.kind # "Detect"
    BY <2>4
  <2> HIDE DEF q
  <2> QED BY <2>6, <2>7, <2>8, Zenon DEF Seen
<1> HIDE DEF q
<1>12. \E x : Decode(e) = {x} /\ Seen(x) = Seen(p)
  BY <1>10, <1>11
<1> QED
  BY <1>1, <1>6, <1>12 DEF e

-----------------------------------------------------------------------------
(* The bytes of a script                                                   *)

Script == [noise : Seq(Byte), packet : Packets]

BlockOf(s, i) == s[i].noise \o Encode(s[i].packet)

Blocks(s) == [i \in DOMAIN s |-> BlockOf(s, i)]

LEMMA BytesIs ==
  ASSUME NEW s
  PROVE  Bytes(s) = FlattenSeq(Blocks(s))
BY Zenon DEF Bytes, Blocks, BlockOf

LEMMA EncodeType ==
  ASSUME NEW p \in Packets
  PROVE  Encode(p) \in Seq(Byte) /\ Len(Encode(p)) >= 6
<1>1. CASE p.kind = "Detect"
  BY <1>1, DetectBytes
<1>2. CASE p.kind # "Detect"
  <2>1. Encode(p) \in Seq(Byte) /\ Len(Encode(p)) = Length(p)
    BY <1>2, EncodeIs
  <2>2. p.payload \in Seq(Byte)
    BY DEF Packets
  <2>3. Length(p) >= 9
    BY <2>2, LengthType
  <2> QED BY <2>1, <2>3
<1> QED
  BY <1>1, <1>2

LEMMA BlockType ==
  ASSUME NEW s \in Seq(Script), NEW i \in 1 .. Len(s)
  PROVE  /\ s[i].noise \in Seq(Byte) /\ s[i].packet \in Packets
         /\ BlockOf(s, i) \in Seq(Byte)
         /\ Len(BlockOf(s, i)) = Len(s[i].noise) + Len(Encode(s[i].packet))
         /\ \A j \in 1 .. Len(s[i].noise) : BlockOf(s, i)[j] = s[i].noise[j]
         /\ \A j \in 1 .. Len(Encode(s[i].packet)) :
              BlockOf(s, i)[Len(s[i].noise) + j] = Encode(s[i].packet)[j]
<1>1. s[i] \in Script
  OBVIOUS
<1>2. s[i].noise \in Seq(Byte) /\ s[i].packet \in Packets
  BY <1>1 DEF Script
<1> DEFINE a == s[i].noise
           e == Encode(s[i].packet)
<1>3. a \in Seq(Byte) /\ e \in Seq(Byte)
  BY <1>2, EncodeType
<1>4. BlockOf(s, i) = a \o e
  BY Zenon DEF BlockOf
<1> HIDE DEF a, e
<1>5. /\ a \o e \in Seq(Byte) /\ Len(a \o e) = Len(a) + Len(e)
      /\ \A j \in 1 .. Len(a) : (a \o e)[j] = a[j]
      /\ \A j \in 1 .. Len(e) : (a \o e)[Len(a) + j] = e[j]
  BY <1>3, Joined
<1> QED
  BY <1>2, <1>4, <1>5, Zenon DEF a, e

LEMMA BytesType ==
  ASSUME NEW s \in Seq(Script)
  PROVE  Blocks(s) \in Seq(Seq(Byte)) /\ Bytes(s) \in Seq(Byte)
<1> DEFINE S == Seq(Byte)
<1>1. \A i \in 1 .. Len(s) : BlockOf(s, i) \in S
  BY BlockType
<1>2. Blocks(s) = [i \in 1 .. Len(s) |-> BlockOf(s, i)] /\ Len(s) \in Nat
  BY DEF Blocks
<1>3. Blocks(s) \in Seq(S)
  <2> HIDE DEF S
  <2> QED BY <1>1, <1>2
<1> QED
  BY <1>3, BytesIs, FlattenType

LEMMA BytesGrow ==
  ASSUME NEW s \in Seq(Script), NEW k \in 1 .. Len(s)
  PROVE  Bytes(SubSeq(s, 1, k)) = Bytes(SubSeq(s, 1, k - 1)) \o BlockOf(s, k)
<1> DEFINE t == SubSeq(s, 1, k)
           u == SubSeq(s, 1, k - 1)
           S == Seq(Byte)
           B == BlockOf(s, k)
<1>1. /\ t \in Seq(Script) /\ Len(t) = k /\ u \in Seq(Script) /\ Len(u) = k - 1
      /\ \A i \in 1 .. k : t[i] = s[i]
      /\ \A i \in 1 .. k - 1 : u[i] = s[i]
  <2>1. k \in Nat /\ k >= 1 /\ k <= Len(s)
    OBVIOUS
  <2> QED BY <2>1
<1>2. B \in S
  BY BlockType
<1>3. Blocks(u) \in Seq(S) /\ Blocks(t) \in Seq(S)
  <2> HIDE DEF t, u
  <2> QED BY <1>1, BytesType
<1>4. Len(Blocks(u)) = k - 1 /\ Len(Blocks(t)) = k
  <2> HIDE DEF t, u
  <2> QED BY <1>1 DEF Blocks
<1>5. \A i \in 1 .. k : Blocks(t)[i] = BlockOf(s, i)
  <2> HIDE DEF t, u
  <2>1. \A i \in 1 .. k : BlockOf(t, i) = BlockOf(s, i)
    BY <1>1, Zenon DEF BlockOf
  <2> QED BY <1>1, <2>1 DEF Blocks
<1>6. \A i \in 1 .. k - 1 : Blocks(u)[i] = BlockOf(s, i)
  <2> HIDE DEF t, u
  <2>1. \A i \in 1 .. k - 1 : BlockOf(u, i) = BlockOf(s, i)
    BY <1>1, Zenon DEF BlockOf
  <2> QED BY <1>1, <2>1 DEF Blocks
<1> HIDE DEF t, u, S, B
<1>7. Blocks(t) = Append(Blocks(u), B)
  <2> DEFINE x == Append(Blocks(u), B)
             bu == Blocks(u)
             bt == Blocks(t)
  <2> HIDE DEF bu, bt
  <2>0. bu \in Seq(S) /\ bt \in Seq(S) /\ Len(bu) = k - 1 /\ Len(bt) = k
    BY <1>3, <1>4 DEF bu, bt
  <2>1. /\ x \in Seq(S) /\ Len(x) = k /\ x[k] = B
        /\ \A i \in 1 .. k - 1 : x[i] = bu[i]
    BY <1>2, <2>0 DEF bu
  <2> HIDE DEF x
  <2>2. \A i \in 1 .. Len(bt) : bt[i] = x[i]
    <3>1. \A i \in 1 .. k : bt[i] = BlockOf(s, i)
      BY <1>5 DEF bt
    <3>2. \A i \in 1 .. k - 1 : bu[i] = BlockOf(s, i)
      BY <1>6 DEF bu
    <3>3. B = BlockOf(s, k)
      BY DEF B
    <3> QED BY <2>0, <2>1, <3>1, <3>2, <3>3
  <2>3. bt = x
    BY <2>0, <2>1, <2>2, SameSeq
  <2> QED BY <2>3 DEF bt, x
<1>8. Bytes(t) = Bytes(u) \o B
  <2>1. FlattenSeq(Append(Blocks(u), B)) = FlattenSeq(Blocks(u)) \o B
    BY <1>2, <1>3, FlattenAppend DEF S
  <2> QED BY <1>7, <2>1, BytesIs, Zenon
<1> QED
  BY <1>8 DEF t, u, B

(* Where the k-th block ends. *)
EndOf(s, k) == Len(Bytes(SubSeq(s, 1, k)))

LEMMA PartType ==
  ASSUME NEW s \in Seq(Script), NEW k \in 0 .. Len(s)
  PROVE  /\ SubSeq(s, 1, k) \in Seq(Script)
         /\ Bytes(SubSeq(s, 1, k)) \in Seq(Byte)
         /\ EndOf(s, k) \in Nat
<1> DEFINE t == SubSeq(s, 1, k)
<1>1. t \in Seq(Script)
  OBVIOUS
<1> HIDE DEF t
<1>2. Bytes(t) \in Seq(Byte)
  BY <1>1, BytesType
<1>3. Len(Bytes(t)) \in Nat
  BY <1>2
<1> QED
  BY <1>1, <1>2, <1>3 DEF t, EndOf

LEMMA NoBytes ==
  ASSUME NEW s \in Seq(Script)
  PROVE  /\ EndOf(s, 0) = 0
         /\ EndOf(s, Len(s)) = Len(Bytes(s))
<1> DEFINE t == SubSeq(s, 1, 0)
<1>1. t = <<>>
  OBVIOUS
<1>2. t \in Seq(Script) /\ Len(t) = 0
  BY <1>1
<1> HIDE DEF t
<1>3. Blocks(t) \in Seq(Seq(Byte)) /\ Len(Blocks(t)) = 0
  BY <1>2, BytesType DEF Blocks
<1>4. FlattenSeq(Blocks(t)) = Blocks(t)
  BY <1>3, Zenon DEF FlattenSeq
<1>5. Len(Bytes(t)) = 0
  BY <1>3, <1>4, BytesIs, Zenon
<1>6. SubSeq(s, 1, Len(s)) = s
  BY WholePiece
<1> QED
  BY <1>5, <1>6, Zenon DEF EndOf, t

LEMMA BlockEnds ==
  ASSUME NEW s \in Seq(Script), NEW k \in 1 .. Len(s)
  PROVE  /\ EndOf(s, k - 1) \in Nat /\ Len(s[k].noise) \in Nat
         /\ Len(Encode(s[k].packet)) \in Nat /\ Len(Encode(s[k].packet)) >= 6
         /\ StartOf(s, k) = EndOf(s, k - 1) + Len(s[k].noise) + 1
         /\ EndOf(s, k) = EndOf(s, k - 1) + Len(s[k].noise) + Len(Encode(s[k].packet))
<1> DEFINE n == Len(s[k].noise)
           e == Len(Encode(s[k].packet))
           E == EndOf(s, k - 1)
           u == Bytes(SubSeq(s, 1, k - 1))
           B == BlockOf(s, k)
<1>1. k - 1 \in 0 .. Len(s)
  OBVIOUS
<1>2. E \in Nat /\ u \in Seq(Byte)
  BY <1>1, PartType
<1>3. n \in Nat /\ e \in Nat /\ e >= 6 /\ B \in Seq(Byte) /\ Len(B) = n + e
  <2>1. s[k].noise \in Seq(Byte) /\ s[k].packet \in Packets /\ B \in Seq(Byte) /\ Len(B) = n + e
    BY BlockType
  <2>2. Encode(s[k].packet) \in Seq(Byte) /\ e >= 6
    BY <2>1, EncodeType
  <2> QED BY <2>1, <2>2
<1>4. StartOf(s, k) = E + n + 1
  BY Zenon DEF StartOf, EndOf
<1>5. EndOf(s, k) = Len(u \o B)
  BY BytesGrow, Zenon DEF EndOf
<1>6. E = Len(u)
  BY DEF EndOf
<1> HIDE DEF n, e, E, u, B
<1>7. Len(u \o B) = Len(u) + Len(B)
  BY <1>2, <1>3, Joined
<1>8. EndOf(s, k) = E + n + e
  BY <1>2, <1>3, <1>5, <1>6, <1>7
<1> QED
  BY <1>2, <1>3, <1>4, <1>8, Zenon DEF n, e, E

(* The bytes of the first blocks come first. *)
LEMMA PartIsPrefix ==
  ASSUME NEW s \in Seq(Script), NEW k \in 0 .. Len(s)
  PROVE  /\ EndOf(s, k) <= Len(Bytes(s))
         /\ \A j \in 1 .. EndOf(s, k) : Bytes(s)[j] = Bytes(SubSeq(s, 1, k))[j]
<1> DEFINE part(l) == Bytes(SubSeq(s, 1, l))
           Good(l) == /\ EndOf(s, k) <= EndOf(s, l)
                      /\ \A j \in 1 .. EndOf(s, k) : part(l)[j] = part(k)[j]
           T == {l \in k .. Len(s) : ~ Good(l)}
<1>0. k \in Nat /\ Len(s) \in Nat /\ Len(s) \in k .. Len(s)
  OBVIOUS
<1>1. T = {}
  <2> SUFFICES ASSUME T # {} PROVE FALSE
    OBVIOUS
  <2>1. T \in SUBSET Nat
    BY <1>0
  <2>2. PICK l \in T : \A m \in T : l <= m
    <3> HIDE DEF T
    <3> QED BY <2>1, LeastNat
  <2>3. l \in k .. Len(s) /\ ~ Good(l)
    OBVIOUS
  <2>4. CASE l = k
    <3>1. EndOf(s, k) <= EndOf(s, k)
      BY PartType
    <3> QED BY <2>3, <2>4, <3>1
  <2>5. CASE l # k
    <3> DEFINE m == l - 1
               a == part(m)
               b == BlockOf(s, l)
    <3>1. m \in k .. Len(s) /\ m \in 0 .. Len(s) /\ l \in 1 .. Len(s) /\ ~ (l <= m)
      BY <1>0, <2>3, <2>5
    <3>2. Good(m)
      <4>1. m \notin T
        <5> HIDE DEF T, m
        <5> QED BY <2>2, <3>1
      <4> HIDE DEF Good, m
      <4> QED BY <3>1, <4>1
    <3>3. part(l) = a \o b
      BY <3>1, BytesGrow
    <3>4. a \in Seq(Byte) /\ b \in Seq(Byte) /\ Len(a) = EndOf(s, m)
      <4>1. b \in Seq(Byte)
        BY <3>1, BlockType
      <4> HIDE DEF m
      <4>2. a \in Seq(Byte)
        BY <3>1, PartType
      <4> QED BY <4>1, <4>2 DEF EndOf
    <3>5. EndOf(s, l) = Len(part(l))
      BY DEF EndOf
    <3> HIDE DEF m
    <3> DEFINE pl == part(l)
               pk == part(k)
    <3>6. EndOf(s, k) <= Len(a) /\ \A j \in 1 .. EndOf(s, k) : a[j] = pk[j]
      BY <3>2, <3>4
    <3>7. EndOf(s, k) \in Nat
      BY PartType
    <3> HIDE DEF a, b, pl, pk, part
    <3>8. /\ Len(a \o b) = Len(a) + Len(b) /\ Len(a) \in Nat /\ Len(b) \in Nat
          /\ \A j \in 1 .. Len(a) : (a \o b)[j] = a[j]
      <4>1. a \in Seq(Byte) /\ b \in Seq(Byte)
        BY <3>4
      <4>2. /\ Len(a \o b) = Len(a) + Len(b)
            /\ \A j \in 1 .. Len(a) : (a \o b)[j] = a[j]
        BY <4>1, Joined
      <4>3. Len(a) \in Nat /\ Len(b) \in Nat
        BY <4>1
      <4> QED BY <4>2, <4>3
    <3>9. EndOf(s, k) <= EndOf(s, l)
      BY <3>3, <3>5, <3>6, <3>7, <3>8
    <3>10. \A j \in 1 .. EndOf(s, k) : part(l)[j] = pk[j]
      <4> TAKE j \in 1 .. EndOf(s, k)
      <4>1. j \in 1 .. Len(a)
        BY <3>6, <3>7, <3>8
      <4>2. part(l)[j] = a[j]
        BY <3>3, <3>8, <4>1, Zenon
      <4> QED BY <3>6, <4>2
    <3> QED BY <2>3, <3>9, <3>10 DEF pk
  <2> QED BY <2>4, <2>5
<1>2. Good(Len(s))
  <2> HIDE DEF Good
  <2> QED BY <1>0, <1>1
<1>3. part(Len(s)) = Bytes(s)
  <2>1. SubSeq(s, 1, Len(s)) = s
    BY WholePiece
  <2> QED BY <2>1
<1> QED
  BY <1>2, <1>3 DEF EndOf

(* The bytes of a block. *)
LEMMA BlockBytes ==
  ASSUME NEW s \in Seq(Script), NEW k \in 1 .. Len(s)
  PROVE  /\ \A j \in 1 .. Len(s[k].noise) : Bytes(s)[EndOf(s, k - 1) + j] = s[k].noise[j]
         /\ \A j \in 1 .. Len(Encode(s[k].packet)) :
              Bytes(s)[EndOf(s, k - 1) + Len(s[k].noise) + j] = Encode(s[k].packet)[j]
         /\ EndOf(s, k) <= Len(Bytes(s))
<1> DEFINE a == Bytes(SubSeq(s, 1, k - 1))
           b == BlockOf(s, k)
           t == Bytes(SubSeq(s, 1, k))
           n == Len(s[k].noise)
           e == Len(Encode(s[k].packet))
           E == EndOf(s, k - 1)
<1>0. k - 1 \in 0 .. Len(s) /\ k \in 0 .. Len(s)
  OBVIOUS
<1>1. /\ b \in Seq(Byte) /\ Len(b) = n + e
      /\ \A j \in 1 .. n : b[j] = s[k].noise[j]
      /\ \A j \in 1 .. e : b[n + j] = Encode(s[k].packet)[j]
  BY BlockType
<1>2. a \in Seq(Byte) /\ Len(a) = E
  BY <1>0, PartType DEF EndOf
<1>3. t = a \o b
  BY BytesGrow
<1>4. E \in Nat /\ n \in Nat /\ e \in Nat /\ EndOf(s, k) = E + n + e
  BY BlockEnds
<1>5. /\ E + n + e <= Len(Bytes(s))
      /\ \A j \in 1 .. E + n + e : Bytes(s)[j] = t[j]
  <2>1. /\ EndOf(s, k) <= Len(Bytes(s))
        /\ \A j \in 1 .. EndOf(s, k) : Bytes(s)[j] = t[j]
    BY <1>0, PartIsPrefix
  <2> HIDE DEF t, E, n, e
  <2> QED BY <1>4, <2>1
<1> HIDE DEF a, b, t, n, e, E
<1>6. \A j \in 1 .. n + e : t[E + j] = b[j]
  BY <1>1, <1>2, <1>3, <1>4, Joined
<1>7. \A j \in 1 .. n : Bytes(s)[E + j] = s[k].noise[j]
  <2> TAKE j \in 1 .. n
  <2>1. E + j \in 1 .. E + n + e /\ j \in 1 .. n + e
    BY <1>4
  <2> QED BY <1>1, <1>5, <1>6, <2>1
<1>8. \A j \in 1 .. e : Bytes(s)[E + n + j] = Encode(s[k].packet)[j]
  <2> TAKE j \in 1 .. e
  <2>1. E + n + j \in 1 .. E + n + e /\ n + j \in 1 .. n + e /\ E + n + j = E + (n + j)
    BY <1>4
  <2> QED BY <1>1, <1>5, <1>6, <2>1
<1> QED
  BY <1>4, <1>5, <1>7, <1>8 DEF n, e, E

-----------------------------------------------------------------------------
(* The reader                                                              *)

(* All packets of the bytes that have arrived are those returned and those *)
(* still in the buffer. *)
Arrived == SubSeq(wire, swallowed + 1, bytesRead)

AsIfAtOnce ==
  /\ ParseAll(Arrived).packets = returned \o ParseAll(readBuf).packets
  /\ ParseAll(Arrived).rest = ParseAll(readBuf).rest

ReaderInv ==
  /\ pc \in {"probe", "parse", "fill", "closed"}
  /\ wire \in Seq(Byte) /\ readBuf \in Seq(Byte)
  /\ swallowed \in Nat /\ swallowed <= 6
  /\ bytesRead \in Nat /\ swallowed <= bytesRead /\ bytesRead <= Len(wire)
  /\ returned \in Seq(Decoded)
  /\ pc = "probe" => swallowed = 0 /\ bytesRead = 0 /\ readBuf = <<>> /\ returned = <<>>
  /\ swallowed <= Consumed
  /\ readBuf = SubSeq(wire, Consumed + 1, bytesRead)
  /\ pc \in {"fill", "closed"} => Waits(readBuf)
  /\ Len(readBuf) < MaxLength + Chunk
  /\ AsIfAtOnce

LEMMA WaitsShort ==
  ASSUME NEW d \in Seq(Byte), Waits(d)
  PROVE  Len(d) < MaxLength
<1>1. Len(d) \in Nat
  OBVIOUS
<1>2. CASE Len(d) < 4
  BY <1>1, <1>2, Limits
<1>3. CASE ~ (Len(d) < 4)
  <2>1. ValidLength(LengthOf(d)) /\ Len(d) < LengthOf(d)
    BY <1>1, <1>3 DEF Waits
  <2>2. LengthOf(d) \in Nat
    BY <1>1, <1>3, LengthIsNat
  <2>3. LengthOf(d) <= MaxLength
    BY <2>1, Limits DEF ValidLength
  <2> QED BY <1>1, <2>1, <2>2, <2>3, Limits
<1> QED
  BY <1>2, <1>3

LEMMA ScriptType ==
  ASSUME NEW s \in Scripts
  PROVE  s \in Seq(Script)
BY PacketReaderAssumption, Zenon DEF Script

LEMMA WireType ==
  ASSUME Init
  PROVE  wire \in Seq(Byte)
<1>1. PICK s \in Scripts :
        \/ wire = Bytes(s)
        \/ \E v \in DamageValues : wire = [Bytes(s) EXCEPT ![damaged] = v]
  BY DEF Init
<1>2. Bytes(s) \in Seq(Byte)
  BY ScriptType, BytesType
<1>3. DamageValues \subseteq Byte
  BY PacketReaderAssumption
<1> QED
  BY <1>1, <1>2, <1>3

LEMMA ReaderInit ==
  ASSUME Init
  PROVE  ReaderInv
<1>1. /\ pc \in {"probe", "parse"}
      /\ swallowed = 0 /\ bytesRead = 0 /\ readBuf = <<>> /\ returned = <<>>
  BY DEF Init
<1>2. wire \in Seq(Byte)
  BY WireType
<1>3. Consumed = 0
  <2>1. Len(<<>>) = 0
    OBVIOUS
  <2>2. Len(readBuf) = 0
    BY <1>1, <2>1, Zenon
  <2>3. bytesRead = 0
    BY <1>1
  <2> QED BY <2>2, <2>3 DEF Consumed
<1>4. Arrived = <<>> /\ SubSeq(wire, Consumed + 1, bytesRead) = <<>>
  BY <1>1, <1>2, <1>3 DEF Arrived
<1>5. ParseAll(<<>>).packets \in Seq(Decoded)
  <2>1. <<>> \in Seq(Byte)
    OBVIOUS
  <2> QED BY <2>1, ParseAllType
<1>6. AsIfAtOnce
  <2>1. <<>> \o ParseAll(<<>>).packets = ParseAll(<<>>).packets
    BY <1>5
  <2> QED BY <1>1, <1>4, <2>1, Zenon DEF AsIfAtOnce
<1>7. <<>> \in Seq(Byte) /\ <<>> \in Seq(Decoded) /\ Len(<<>>) = 0
  OBVIOUS
<1>8. Len(readBuf) < MaxLength + Chunk
  BY <1>1, <1>7, Limits
<1>9. 0 \in Nat /\ 0 <= Len(wire)
  BY <1>2
<1> QED
  BY <1>1, <1>2, <1>3, <1>4, <1>6, <1>7, <1>8, <1>9 DEF ReaderInv

LEMMA ReaderProbe ==
  ASSUME ReaderInv, Probe
  PROVE  ReaderInv'
<1>1. PICK k \in {0} \cup Readable(6) : swallowed' = k /\ bytesRead' = k
  BY DEF Probe
<1>2. /\ pc = "probe" /\ pc' = "parse" /\ wire' = wire /\ readBuf' = readBuf
      /\ returned' = returned
  BY DEF Probe, script
<1>3. bytesRead = 0 /\ readBuf = <<>> /\ returned = <<>> /\ wire \in Seq(Byte)
  BY <1>2 DEF ReaderInv
<1>4. k \in Nat /\ k <= 6 /\ k <= Len(wire)
  BY <1>3 DEF Readable, Left
<1>5. Consumed' = k
  BY <1>1, <1>2, <1>3, <1>4 DEF Consumed
<1>6. Arrived' = <<>> /\ SubSeq(wire', Consumed' + 1, bytesRead') = <<>>
  BY <1>1, <1>2, <1>3, <1>4, <1>5 DEF Arrived
<1>7. AsIfAtOnce'
  <2>1. ParseAll(<<>>).packets \in Seq(Decoded)
    <3>1. <<>> \in Seq(Byte)
      OBVIOUS
    <3> QED BY <3>1, ParseAllType
  <2>2. <<>> \o ParseAll(<<>>).packets = ParseAll(<<>>).packets
    BY <2>1
  <2>3. /\ ParseAll(Arrived').packets = returned' \o ParseAll(readBuf').packets
        /\ ParseAll(Arrived').rest = ParseAll(readBuf').rest
    BY <1>2, <1>3, <1>6, <2>2, Zenon
  <2> QED BY <2>3 DEF AsIfAtOnce
<1>8. k <= k /\ Consumed' = k
  BY <1>4, <1>5
<1>9. Len(readBuf) < MaxLength + Chunk /\ returned \in Seq(Decoded) /\ readBuf \in Seq(Byte)
  BY DEF ReaderInv
<1> QED
  BY <1>1, <1>2, <1>3, <1>4, <1>6, <1>7, <1>8, <1>9 DEF ReaderInv

LEMMA ReaderParse ==
  ASSUME ReaderInv, Parse
  PROVE  ReaderInv'
<1> DEFINE r == TryParse(readBuf)
           R == r.rest
<1>1. /\ pc = "parse" /\ readBuf' = R /\ wire' = wire
      /\ swallowed' = swallowed /\ bytesRead' = bytesRead
      /\ \/ r.packet = {} /\ pc' = "fill" /\ returned' = returned
         \/ \E p \in r.packet : returned' = Append(returned, p) /\ pc' = pc
  BY DEF Parse, script
<1>2. /\ wire \in Seq(Byte) /\ readBuf \in Seq(Byte) /\ returned \in Seq(Decoded)
      /\ swallowed \in Nat /\ swallowed <= 6
      /\ bytesRead \in Nat /\ swallowed <= bytesRead /\ bytesRead <= Len(wire)
      /\ swallowed <= Consumed /\ readBuf = SubSeq(wire, Consumed + 1, bytesRead)
      /\ Len(readBuf) < MaxLength + Chunk /\ AsIfAtOnce
  BY DEF ReaderInv
<1>3. /\ R \in Seq(Byte) /\ r.packet \subseteq Decoded
      /\ r.packet = {} => Len(R) <= Len(readBuf) /\ Waits(R)
      /\ r.packet # {} => Len(R) + 6 <= Len(readBuf)
      /\ \A p, q \in r.packet : p = q
  BY <1>2, ParsedType
<1>4. R = SubSeq(readBuf, Len(readBuf) - Len(R) + 1, Len(readBuf))
  BY <1>2, LeftIsRest
<1>5. ParseAll(readBuf) =
        IF r.packet = {} THEN [packets |-> <<>>, rest |-> R]
        ELSE [packets |-> <<First(r.packet)>> \o ParseAll(R).packets, rest |-> ParseAll(R).rest]
  BY <1>2, ParseAllTurn
<1> HIDE DEF r, R
<1>6. Len(R) \in Nat /\ Len(readBuf) \in Nat /\ Len(R) <= Len(readBuf)
  BY <1>2, <1>3
<1>7. Consumed' = bytesRead - Len(R) /\ Consumed = bytesRead - Len(readBuf)
  BY <1>1 DEF Consumed
<1>8. swallowed <= Consumed'
  BY <1>2, <1>6, <1>7
<1>9. R = SubSeq(wire, Consumed' + 1, bytesRead)
  <2> DEFINE a == Consumed + 1
             c == Len(readBuf) - Len(R) + 1
             d == Len(readBuf)
  <2>1. /\ a \in 1 .. Len(wire) + 1 /\ bytesRead \in a - 1 .. Len(wire)
        /\ c \in 1 .. bytesRead - a + 2 /\ d \in c - 1 .. bytesRead - a + 1
        /\ a + c - 1 = Consumed' + 1 /\ a + d - 1 = bytesRead
    BY <1>2, <1>6, <1>7
  <2>2. R = SubSeq(SubSeq(wire, a, bytesRead), c, d)
    BY <1>2, <1>4
  <2> HIDE DEF a, c, d
  <2>3. SubSeq(SubSeq(wire, a, bytesRead), c, d) = SubSeq(wire, a + c - 1, a + d - 1)
    BY <1>2, <2>1, PieceOfPiece
  <2> QED BY <2>1, <2>2, <2>3
<1>10. Len(R) < MaxLength + Chunk
  BY <1>2, <1>6, Limits
<1>11. Arrived' = Arrived
  BY <1>1 DEF Arrived
<1>12. CASE r.packet = {}
  <2>1. pc' = "fill" /\ returned' = returned
    BY <1>1, <1>12
  <2>2. Waits(R)
    BY <1>3, <1>12
  <2>3. TryParse(R) = [packet |-> {}, rest |-> R]
    BY <1>3, <2>2, ParsedTwice
  <2>4. TryParse(R).packet = {} /\ TryParse(R).rest = R
    BY <2>3
  <2>5. ParseAll(R) = [packets |-> <<>>, rest |-> R]
    BY <1>3, <2>4, ParseAllTurn
  <2>6. ParseAll(readBuf) = ParseAll(R)
    BY <1>5, <1>12, <2>5
  <2>7. AsIfAtOnce'
    <3>1. /\ ParseAll(Arrived').packets = returned' \o ParseAll(readBuf').packets
          /\ ParseAll(Arrived').rest = ParseAll(readBuf').rest
      BY <1>1, <1>2, <1>11, <2>1, <2>6, Zenon DEF AsIfAtOnce
    <3> QED BY <3>1 DEF AsIfAtOnce
  <2> QED BY <1>1, <1>2, <1>3, <1>8, <1>9, <1>10, <2>1, <2>2, <2>7 DEF ReaderInv
<1>13. CASE r.packet # {}
  <2>1. PICK p \in r.packet : returned' = Append(returned, p) /\ pc' = pc
    BY <1>1, <1>13
  <2>2. First(r.packet) = p
    <3>1. First(r.packet) \in r.packet
      BY <2>1 DEF First
    <3> QED BY <1>3, <2>1, <3>1
  <2>3. p \in Decoded
    BY <1>3, <2>1
  <2> DEFINE ps == ParseAll(R).packets
             one == <<p>>
  <2>4. ps \in Seq(Decoded)
    BY <1>3, ParseAllType
  <2>5. ParseAll(readBuf).packets = one \o ps /\ ParseAll(readBuf).rest = ParseAll(R).rest
    <3> DEFINE qs == one \o ps
    <3>1. ParseAll(readBuf) = [packets |-> qs, rest |-> ParseAll(R).rest]
      BY <1>5, <1>13, <2>2
    <3> HIDE DEF qs
    <3>2. ParseAll(readBuf).packets = qs /\ ParseAll(readBuf).rest = ParseAll(R).rest
      BY <3>1
    <3> QED BY <3>2 DEF qs
  <2>6. one \in Seq(Decoded) /\ returned' = returned \o one /\ returned' \in Seq(Decoded)
    BY <1>2, <2>1, <2>3
  <2> HIDE DEF ps, one
  <2>7. returned \o (one \o ps) = (returned \o one) \o ps
    <3>1. returned \in Seq(Decoded) /\ one \in Seq(Decoded) /\ ps \in Seq(Decoded)
      BY <1>2, <2>4, <2>6
    <3> HIDE <1>1
    <3> QED BY ONLY <3>1, JoinedThree
  <2>8. AsIfAtOnce'
    <3>1. /\ ParseAll(Arrived').packets = returned' \o ParseAll(readBuf').packets
          /\ ParseAll(Arrived').rest = ParseAll(readBuf').rest
      BY <1>1, <1>2, <1>11, <2>5, <2>6, <2>7, Zenon DEF AsIfAtOnce, ps
    <3> QED BY <3>1 DEF AsIfAtOnce
  <2> QED BY <1>1, <1>2, <1>3, <1>8, <1>9, <1>10, <2>1, <2>6, <2>8 DEF ReaderInv
<1> QED
  BY <1>12, <1>13

(* While it waits, what was returned is all there is. *)
LEMMA WaitsForMore ==
  ASSUME ReaderInv, Waits(readBuf)
  PROVE  /\ ParseAll(readBuf) = [packets |-> <<>>, rest |-> readBuf]
         /\ ParseAll(Arrived).packets = returned
         /\ ParseAll(Arrived).rest = readBuf
<1>1. readBuf \in Seq(Byte) /\ returned \in Seq(Decoded) /\ AsIfAtOnce
  BY DEF ReaderInv
<1>2. TryParse(readBuf) = [packet |-> {}, rest |-> readBuf]
  BY <1>1, ParsedTwice
<1>3. TryParse(readBuf).packet = {} /\ TryParse(readBuf).rest = readBuf
  BY <1>2
<1>4. ParseAll(readBuf) = [packets |-> <<>>, rest |-> readBuf]
  BY <1>1, <1>3, ParseAllTurn
<1>5. ParseAll(readBuf).packets = <<>> /\ ParseAll(readBuf).rest = readBuf
  BY <1>4
<1>6. returned \o <<>> = returned
  BY <1>1
<1>7. /\ ParseAll(Arrived).packets = returned
      /\ ParseAll(Arrived).rest = readBuf
  BY <1>1, <1>5, <1>6, Zenon DEF AsIfAtOnce
<1> QED
  BY <1>4, <1>7

LEMMA ReaderFill ==
  ASSUME ReaderInv, Fill
  PROVE  ReaderInv'
<1>1. PICK k \in Readable(Chunk) :
        /\ readBuf' = readBuf \o SubSeq(wire, bytesRead + 1, bytesRead + k)
        /\ bytesRead' = bytesRead + k
  BY DEF Fill
<1>2. /\ pc = "fill" /\ pc' = "parse" /\ wire' = wire
      /\ swallowed' = swallowed /\ returned' = returned
  BY DEF Fill, script
<1>3. /\ wire \in Seq(Byte) /\ readBuf \in Seq(Byte) /\ returned \in Seq(Decoded)
      /\ swallowed \in Nat /\ swallowed <= 6
      /\ bytesRead \in Nat /\ swallowed <= bytesRead /\ bytesRead <= Len(wire)
      /\ swallowed <= Consumed /\ readBuf = SubSeq(wire, Consumed + 1, bytesRead)
      /\ Waits(readBuf)
  BY <1>2 DEF ReaderInv
<1>4. k \in Nat /\ 1 <= k /\ k <= Chunk /\ bytesRead + k <= Len(wire)
  BY <1>3, Limits DEF Readable, Left
<1> DEFINE m == SubSeq(wire, bytesRead + 1, bytesRead + k)
<1>5. m \in Seq(Byte) /\ Len(m) = k
  BY <1>3, <1>4, PieceType
<1>6. readBuf' = readBuf \o m
  BY <1>1
<1>7. Arrived \in Seq(Byte) /\ Len(Arrived) = bytesRead - swallowed
  BY <1>3, PieceType DEF Arrived
<1>8. Consumed' = Consumed /\ Consumed \in Nat /\ Consumed <= bytesRead
      /\ Len(readBuf) \in Nat /\ Len(readBuf') = Len(readBuf) + k
  <2> HIDE DEF m
  <2>1. Len(readBuf') = Len(readBuf) + k /\ Len(readBuf) \in Nat
    BY <1>3, <1>5, <1>6
  <2> QED BY <1>1, <1>3, <1>4, <2>1 DEF Consumed
<1>9. Arrived' = Arrived \o m
  <2>1. SubSeq(wire, swallowed + 1, bytesRead + k)
          = SubSeq(wire, swallowed + 1, bytesRead) \o SubSeq(wire, bytesRead + 1, bytesRead + k)
    BY <1>3, <1>4
  <2> QED BY <1>1, <1>2, <2>1 DEF Arrived
<1>10. readBuf \o m = SubSeq(wire, Consumed + 1, bytesRead + k)
  <2>1. SubSeq(wire, Consumed + 1, bytesRead + k)
          = SubSeq(wire, Consumed + 1, bytesRead) \o SubSeq(wire, bytesRead + 1, bytesRead + k)
    BY <1>3, <1>4, <1>8, SMTT(30)
  <2> QED BY <1>3, <2>1
<1> HIDE DEF m
<1>11. readBuf' \in Seq(Byte)
  BY <1>3, <1>5, <1>6
<1>12. Len(readBuf') < MaxLength + Chunk
  <2>1. Len(readBuf) < MaxLength
    BY <1>3, WaitsShort
  <2> HIDE <1>3
  <2> QED BY <1>4, <1>8, <2>1, Limits
<1>13. /\ ParseAll(Arrived).packets = returned
       /\ ParseAll(Arrived).rest = readBuf
  BY <1>3, WaitsForMore
<1>14. /\ ParseAll(Arrived \o m).packets
            = ParseAll(Arrived).packets \o ParseAll(ParseAll(Arrived).rest \o m).packets
       /\ ParseAll(Arrived \o m).rest = ParseAll(ParseAll(Arrived).rest \o m).rest
  BY <1>5, <1>7, ParseAllMore
<1>15. AsIfAtOnce'
  <2>1. /\ ParseAll(Arrived').packets = returned' \o ParseAll(readBuf').packets
        /\ ParseAll(Arrived').rest = ParseAll(readBuf').rest
    BY <1>2, <1>6, <1>9, <1>13, <1>14, Zenon
  <2> QED BY <2>1 DEF AsIfAtOnce
<1>16. bytesRead' \in Nat /\ swallowed <= bytesRead' /\ bytesRead' <= Len(wire)
  BY <1>1, <1>3, <1>4
<1>17. readBuf' = SubSeq(wire, Consumed' + 1, bytesRead')
  BY <1>1, <1>6, <1>8, <1>10
<1> QED
  BY <1>2, <1>3, <1>8, <1>11, <1>12, <1>15, <1>16, <1>17 DEF ReaderInv

LEMMA ReaderStays ==
  ASSUME ReaderInv, Drop \/ Closed \/ UNCHANGED vars
  PROVE  ReaderInv'
<1>1. /\ wire' = wire /\ swallowed' = swallowed /\ bytesRead' = bytesRead
      /\ readBuf' = readBuf /\ returned' = returned
  BY DEF Drop, Closed, vars, script
<1>2. \/ pc = "fill" /\ pc' \in {"parse", "closed"}
      \/ pc' = pc
  BY DEF Drop, Closed, vars
<1>3. AsIfAtOnce' = AsIfAtOnce /\ Consumed' = Consumed
  BY <1>1 DEF AsIfAtOnce, Arrived, Consumed
<1> QED
  BY <1>1, <1>2, <1>3 DEF ReaderInv

LEMMA ReaderNext ==
  ASSUME ReaderInv, [Next]_vars
  PROVE  ReaderInv'
BY ReaderProbe, ReaderParse, ReaderFill, ReaderStays DEF Next

(* The strengthening of the reader's invariants. *)
LEMMA ReaderInductive == Spec => []ReaderInv
<1>1. Init => ReaderInv
  BY ReaderInit
<1>2. ReaderInv /\ [Next]_vars => ReaderInv'
  BY ReaderNext
<1> QED
  BY <1>1, <1>2, PTL DEF Spec

LEMMA DecodedKind ==
  ASSUME NEW p \in Decoded
  PROVE  p.kind \in DOMAIN Code
<1>1. PICK d \in Seq(Byte) : p \in Decode(d)
  BY DEF Decoded
<1>2. \A k \in KindOf(d[5]) : k \in DOMAIN Code
  BY DEF KindOf, Code
<1>3. "Detect" \in DOMAIN Code
  BY DEF Code
<1> QED
  BY <1>1, <1>2, <1>3 DEF Decode, Packet

(* The state is of its type; packets that were returned have a kind. *)
THEOREM ReaderTypes == Spec => []TypeOK
<1>1. ReaderInv => TypeOK
  <2> SUFFICES ASSUME ReaderInv
               PROVE  TypeOK
    OBVIOUS
  <2>1. \A i \in DOMAIN returned : returned[i].kind \in DOMAIN Code
    <3>1. returned \in Seq(Decoded)
      BY DEF ReaderInv
    <3> QED BY <3>1, DecodedKind
  <2>2. swallowed \in 0 .. 6 /\ bytesRead \in swallowed .. Len(wire)
    BY DEF ReaderInv
  <2> QED BY <2>1, <2>2 DEF ReaderInv, TypeOK
<1> QED
  BY <1>1, ReaderInductive, PTL

(* What was returned and what is kept are what one read of all the bytes   *)
(* would have given, however they came.                                    *)
THEOREM ReaderSplits == Spec => []SplitsDoNotMatter
<1>1. ReaderInv => SplitsDoNotMatter
  BY WaitsForMore DEF ReaderInv, SplitsDoNotMatter, Arrived
<1> QED
  BY <1>1, ReaderInductive, PTL

(* The buffer never holds more than a packet and a read. *)
THEOREM ReaderBounded == Spec => []BufferBounded
<1>1. ReaderInv => BufferBounded
  BY WaitsShort DEF ReaderInv, BufferBounded
<1> QED
  BY <1>1, ReaderInductive, PTL

-----------------------------------------------------------------------------
(* Where the packets are                                                   *)

LEMMA EndsInOrder ==
  ASSUME NEW s \in Seq(Script), NEW l \in 0 .. Len(s), NEW k \in 0 .. l
  PROVE  EndOf(s, k) <= EndOf(s, l)
<1> DEFINE t == SubSeq(s, 1, l)
<1>1. t \in Seq(Script) /\ Len(t) = l
  <2>1. l \in Nat /\ l <= Len(s)
    OBVIOUS
  <2> QED BY <2>1
<1>2. SubSeq(t, 1, k) = SubSeq(s, 1, k)
  <2>1. 1 \in 1 .. Len(s) + 1 /\ l \in 1 - 1 .. Len(s) /\ 1 \in 1 .. l - 1 + 2
        /\ k \in 1 - 1 .. l - 1 + 1 /\ 1 + k - 1 = k /\ 1 + 1 - 1 = 1
    OBVIOUS
  <2>2. SubSeq(SubSeq(s, 1, l), 1, k) = SubSeq(s, 1 + 1 - 1, 1 + k - 1)
    BY <2>1, PieceOfPiece
  <2> QED BY <2>1, <2>2
<1> HIDE DEF t
<1>3. k \in 0 .. Len(t)
  BY <1>1
<1>4. EndOf(t, k) <= Len(Bytes(t))
  BY <1>1, <1>3, PartIsPrefix
<1> QED
  BY <1>2, <1>4 DEF EndOf, t

LEMMA StartsInOrder ==
  ASSUME NEW s \in Seq(Script), NEW j \in 1 .. Len(s), NEW i \in 1 .. j
  PROVE  /\ StartOf(s, i) \in Nat /\ StartOf(s, j) \in Nat
         /\ EndOf(s, j - 1) < StartOf(s, j) /\ StartOf(s, j) < EndOf(s, j)
         /\ i # j => EndOf(s, i) < StartOf(s, j) /\ StartOf(s, i) < StartOf(s, j)
<1>1. i \in 1 .. Len(s) /\ j - 1 \in 0 .. Len(s) /\ (i # j => i \in 0 .. j - 1)
  OBVIOUS
<1>2. /\ EndOf(s, j - 1) \in Nat /\ Len(s[j].noise) \in Nat
      /\ Len(Encode(s[j].packet)) \in Nat /\ Len(Encode(s[j].packet)) >= 6
      /\ StartOf(s, j) = EndOf(s, j - 1) + Len(s[j].noise) + 1
      /\ EndOf(s, j) = EndOf(s, j - 1) + Len(s[j].noise) + Len(Encode(s[j].packet))
  BY BlockEnds
<1>3. /\ EndOf(s, i - 1) \in Nat /\ Len(s[i].noise) \in Nat
      /\ Len(Encode(s[i].packet)) \in Nat /\ Len(Encode(s[i].packet)) >= 6
      /\ StartOf(s, i) = EndOf(s, i - 1) + Len(s[i].noise) + 1
      /\ EndOf(s, i) = EndOf(s, i - 1) + Len(s[i].noise) + Len(Encode(s[i].packet))
  BY <1>1, BlockEnds
<1>4. i # j => EndOf(s, i) <= EndOf(s, j - 1)
  BY <1>1, EndsInOrder
<1>5. EndOf(s, j - 1) < StartOf(s, j) /\ StartOf(s, j) < EndOf(s, j) /\ StartOf(s, j) \in Nat
  BY <1>2
<1>6. EndOf(s, i) \in Nat /\ StartOf(s, i) \in Nat /\ StartOf(s, i) < EndOf(s, i)
  BY <1>3, SMTT(30)
<1> QED
  BY <1>2, <1>4, <1>5, <1>6

(* The packets that start at or before a position. *)
GoneBy(s, c) == {i \in 1 .. Len(s) : StartOf(s, i) <= c}

LEMMA GoneAre ==
  ASSUME NEW s \in Seq(Script), NEW c \in Nat
  PROVE  \E m \in 0 .. Len(s) :
           /\ GoneBy(s, c) = 1 .. m
           /\ m # 0 => StartOf(s, m) <= c
           /\ m # Len(s) => c < StartOf(s, m + 1)
<1> DEFINE T == {n \in 1 .. Len(s) + 1 : n = Len(s) + 1 \/ c < StartOf(s, n)}
<1>0. Len(s) \in Nat
  OBVIOUS
<1>1. T \in SUBSET Nat /\ Len(s) + 1 \in T
  BY <1>0
<1>2. PICK n \in T : \A l \in T : n <= l
  <2> HIDE DEF T
  <2> QED BY <1>1, LeastNat
<1>3. n \in 1 .. Len(s) + 1 /\ (n = Len(s) + 1 \/ c < StartOf(s, n))
  OBVIOUS
<1>4. \A i \in 1 .. Len(s) : i < n => StartOf(s, i) <= c
  <2> SUFFICES ASSUME NEW i \in 1 .. Len(s), i < n
               PROVE  StartOf(s, i) <= c
    OBVIOUS
  <2>1. i \notin T
    <3> HIDE DEF T
    <3>1. ~ (n <= i)
      BY <1>0, <1>3
    <3> QED BY <1>2, <3>1
  <2>2. ~ (c < StartOf(s, i))
    BY <1>0, <2>1
  <2>3. i \in 1 .. i /\ StartOf(s, i) \in Nat
    BY StartsInOrder
  <2> QED BY <2>2, <2>3
<1>5. \A i \in 1 .. Len(s) : n <= i => c < StartOf(s, i)
  <2> SUFFICES ASSUME NEW i \in 1 .. Len(s), n <= i
               PROVE  c < StartOf(s, i)
    OBVIOUS
  <2> HIDE DEF T
  <2>1. n \in 1 .. i /\ c < StartOf(s, n)
    BY <1>0, <1>3
  <2>2. /\ StartOf(s, n) \in Nat /\ StartOf(s, i) \in Nat
        /\ n # i => StartOf(s, n) < StartOf(s, i)
    BY <2>1, StartsInOrder
  <2> QED BY <2>1, <2>2
<1> HIDE DEF T
<1>6. GoneBy(s, c) = 1 .. n - 1
  <2>1. ASSUME NEW i \in 1 .. Len(s)
        PROVE  StartOf(s, i) <= c <=> i < n
    <3>1. i \in 1 .. i /\ StartOf(s, i) \in Nat
      BY StartsInOrder
    <3> QED BY <1>3, <1>4, <1>5, <3>1
  <2>2. \A i : i \in 1 .. Len(s) /\ i < n <=> i \in 1 .. n - 1
    BY <1>0, <1>3
  <2> QED BY <2>1, <2>2 DEF GoneBy
<1>7. n - 1 \in 0 .. Len(s) /\ (n - 1 # 0 => n - 1 \in 1 .. Len(s) /\ n - 1 < n)
      /\ (n - 1 # Len(s) => n \in 1 .. Len(s) /\ n <= n /\ (n - 1) + 1 = n)
  BY <1>0, <1>3
<1> DEFINE m == n - 1
<1>8. /\ m \in 0 .. Len(s) /\ GoneBy(s, c) = 1 .. m
      /\ m # 0 => StartOf(s, m) <= c
      /\ m # Len(s) => c < StartOf(s, m + 1)
  BY <1>4, <1>5, <1>6, <1>7
<1> HIDE DEF m
<1> QED
  BY <1>8, Zenon

(* More of them later on. *)
LEMMA GoneMore ==
  ASSUME NEW s \in Seq(Script), NEW c \in Nat, NEW d \in Nat, c <= d,
         NEW m \in 0 .. Len(s), NEW n \in 0 .. Len(s),
         GoneBy(s, c) = 1 .. m, GoneBy(s, d) = 1 .. n
  PROVE  m <= n
<1>1. \A i \in 1 .. Len(s) : StartOf(s, i) \in Nat
  BY StartsInOrder
<1>2. GoneBy(s, c) \subseteq GoneBy(s, d)
  BY <1>1 DEF GoneBy
<1>3. \A i : i \in 1 .. m => i \in 1 .. n
  <2>1. 1 .. m \subseteq 1 .. n
    BY <1>2, Zenon
  <2> QED BY <2>1, Zenon
<1>4. m # 0 => m \in 1 .. m
  OBVIOUS
<1>5. m # 0 => m \in 1 .. n
  BY <1>3, <1>4
<1> QED
  BY <1>5

(* Once a packet has been read, it and those before it are gone. *)
LEMMA GoneAfter ==
  ASSUME NEW s \in Seq(Script), NEW k \in 1 .. Len(s), NEW m \in 0 .. Len(s),
         GoneBy(s, EndOf(s, k)) = 1 .. m
  PROVE  m = k
<1>1. \A i \in 1 .. Len(s) : StartOf(s, i) <= EndOf(s, k) <=> i <= k
  <2> TAKE i \in 1 .. Len(s)
  <2>0. EndOf(s, k) \in Nat
    BY PartType
  <2>1. CASE i <= k
    <3>1. i \in 1 .. k
      BY <2>1
    <3>2. StartOf(s, i) \in Nat /\ StartOf(s, k) \in Nat /\ StartOf(s, k) < EndOf(s, k)
          /\ (i # k => StartOf(s, i) < StartOf(s, k))
      BY <3>1, StartsInOrder
    <3> QED BY <2>0, <2>1, <3>2
  <2>2. CASE ~ (i <= k)
    <3>1. k \in 1 .. i /\ k # i
      BY <2>2
    <3>2. StartOf(s, i) \in Nat /\ EndOf(s, k) < StartOf(s, i)
      BY <3>1, StartsInOrder
    <3> QED BY <2>0, <2>2, <3>2
  <2> QED BY <2>1, <2>2
<1>2. \A i : i \in 1 .. m <=> i \in 1 .. k
  BY <1>1 DEF GoneBy
<1>3. k \in 1 .. k /\ (m # 0 => m \in 1 .. m)
  OBVIOUS
<1>4. k \in 1 .. m /\ (m # 0 => m \in 1 .. k)
  BY <1>2, <1>3
<1> QED
  BY <1>4

(* The bytes of a packet, or as many of them as have arrived. *)
StartsLike(d, e) == \A j \in 1 .. Len(e) : j <= Len(d) => d[j] = e[j]

(* What to_bytes writes of a packet the reader accepts, from_bytes reads   *)
(* as one packet, and it is that packet as its reader is to see it.        *)
THEOREM EncodedDecodes ==
  ASSUME NEW p \in Packets, Len(Encode(p)) <= MaxLength
  PROVE  LET e == Encode(p)
         IN  /\ e \in Seq(Byte) /\ Len(e) \in Nat /\ Len(e) >= 6
             /\ Synced(e) /\ LengthOf(e) = Len(e) /\ ValidLength(Len(e))
             /\ \E q : Decode(e) = {q} /\ Seen(q) = Seen(p)
<1> DEFINE e == Encode(p)
<1>1. e \in Seq(Byte) /\ Len(e) \in Nat /\ Len(e) >= 6
  BY EncodeType
<1>2. ValidLength(Len(e))
  BY <1>1, Limits DEF ValidLength
<1>3. CASE p.kind = "Detect"
  <2>1. /\ Len(e) = 6 /\ Synced(e) /\ LengthOf(e) = 6
        /\ \E q : Decode(e) = {q} /\ Seen(q) = Seen(p)
    BY <1>3, DetectDecoded
  <2> HIDE DEF e
  <2> QED BY <1>1, <1>2, <2>1 DEF e
<1>4. CASE p.kind # "Detect"
  <2>1. Fits(p)
    <3>1. Len(e) = Length(p) /\ Length(p) \in Nat
      BY <1>4, EncodeIs, LengthType
    <3> HIDE DEF e
    <3>2. Length(p) <= MaxLength
      BY <3>1 DEF e
    <3> QED BY <3>1, <3>2, Limits, LengthAssumption DEF Fits
  <2>2. /\ Synced(e) /\ LengthOf(e) = Len(e)
        /\ \E q : Decode(e) = {q} /\ Seen(q) = Seen(p)
    BY <1>4, <2>1, FullDecoded
  <2> HIDE DEF e
  <2> QED BY <1>1, <1>2, <2>2 DEF e
<1> QED
  BY <1>3, <1>4

(* A packet is waited for, and found when it has arrived. *)
LEMMA AtPacket ==
  ASSUME NEW d \in Seq(Byte), NEW p \in Packets, Len(Encode(p)) <= MaxLength,
         StartsLike(d, Encode(p))
  PROVE  \/ Waits(d)
         \/ /\ ~ Waits(d) /\ LengthOf(d) = Len(Encode(p)) /\ Len(Encode(p)) <= Len(d)
            /\ \E q : PacketAt(d) = {q} /\ Seen(q) = Seen(p)
<1> DEFINE e == Encode(p)
<1>1. /\ e \in Seq(Byte) /\ Len(e) \in Nat /\ Len(e) >= 6
      /\ Synced(e) /\ LengthOf(e) = Len(e) /\ ValidLength(Len(e))
      /\ \E q : Decode(e) = {q} /\ Seen(q) = Seen(p)
  BY EncodedDecodes
<1>2. Len(d) \in Nat /\ \A j \in 1 .. Len(e) : j <= Len(d) => d[j] = e[j]
  BY DEF StartsLike
<1> HIDE DEF e
<1>3. CASE Len(d) < 4
  <2>1. CASE Len(d) < 2
    BY <2>1 DEF Waits
  <2>2. CASE ~ (Len(d) < 2)
    <3>1. d[1] = e[1] /\ d[2] = e[2]
      BY <1>1, <1>2, <2>2
    <3>2. Synced(d)
      BY <1>1, <3>1 DEF Synced
    <3> QED BY <1>3, <3>2 DEF Waits
  <2> QED BY <2>1, <2>2
<1>4. CASE ~ (Len(d) < 4)
  <2>1. d[1] = e[1] /\ d[2] = e[2] /\ d[3] = e[3] /\ d[4] = e[4]
    BY <1>1, <1>2, <1>4
  <2>2. Synced(d) /\ LengthOf(d) = Len(e)
    BY <1>1, <2>1 DEF Synced, LengthOf
  <2>3. CASE Len(d) < Len(e)
    BY <1>1, <2>2, <2>3 DEF Waits
  <2>4. CASE ~ (Len(d) < Len(e))
    <3>1. ~ Waits(d)
      BY <1>1, <1>2, <2>2, <2>4 DEF Waits
    <3>2. SubSeq(d, 1, Len(e)) = e
      <4> DEFINE c == SubSeq(d, 1, Len(e))
      <4>1. 1 \in 1 .. Len(d) + 1 /\ Len(e) \in 1 - 1 .. Len(d) /\ Len(e) - 1 + 1 = Len(e)
        BY <1>1, <1>2, <2>4
      <4>2. c \in Seq(Byte) /\ Len(c) = Len(e) /\ \A i \in 1 .. Len(e) : c[i] = d[i]
        BY <1>1, <1>2, <2>4
      <4> HIDE DEF c
      <4>3. \A i \in 1 .. Len(c) : c[i] = e[i]
        BY <1>1, <1>2, <2>4, <4>2
      <4>4. c = e
        BY <1>1, <4>2, <4>3, SameSeq
      <4> QED BY <4>4 DEF c
    <3>3. PacketAt(d) = Decode(e)
      BY <1>1, <2>2, <3>2, Zenon DEF PacketAt
    <3>4. Len(e) <= Len(d)
      BY <1>1, <1>2, <2>4
    <3> QED BY <1>1, <2>2, <3>1, <3>3, <3>4 DEF e
  <2> QED BY <2>3, <2>4
<1> QED
  BY <1>3, <1>4

LEMMA ScriptFacts ==
  ASSUME NEW s \in Scripts
  PROVE  /\ s \in Seq(Script)
         /\ \A i \in 1 .. Len(s) : Len(Encode(s[i].packet)) <= MaxLength
<1>1. s \in Seq(Script)
  BY ScriptType
<1>2. DOMAIN s = 1 .. Len(s)
  BY <1>1
<1> QED
  BY <1>1, <1>2, LengthAssumption

(* What has arrived of a packet that starts here. *)
LEMMA AtStart ==
  ASSUME NEW s \in Seq(Script), NEW k \in 1 .. Len(s), NEW n \in 0 .. Len(Bytes(s)),
         StartOf(s, k) <= n + 1
  PROVE  /\ SubSeq(Bytes(s), StartOf(s, k), n) \in Seq(Byte)
         /\ StartsLike(SubSeq(Bytes(s), StartOf(s, k), n), Encode(s[k].packet))
<1> DEFINE w == Bytes(s)
           a == StartOf(s, k)
           e == Encode(s[k].packet)
           d == SubSeq(w, a, n)
           E == EndOf(s, k - 1)
           N == Len(s[k].noise)
<1>1. w \in Seq(Byte)
  BY BytesType
<1>2. /\ E \in Nat /\ N \in Nat /\ a = E + N + 1 /\ Len(e) \in Nat
  BY BlockEnds
<1>3. \A j \in 1 .. Len(e) : w[E + N + j] = e[j]
  BY BlockBytes
<1> HIDE DEF w, a, e, E, N
<1>4. a \in 1 .. Len(w) + 1 /\ n \in a - 1 .. Len(w)
  BY <1>1, <1>2 DEF w, a
<1>5. d \in Seq(Byte) /\ Len(d) = n - a + 1 /\ \A i \in 1 .. n - a + 1 : d[i] = w[a + i - 1]
  BY <1>1, <1>4, PieceType
<1> HIDE DEF d
<1>6. ASSUME NEW j \in 1 .. Len(e), j <= Len(d)
      PROVE  d[j] = e[j]
  <2>1. j \in 1 .. n - a + 1 /\ a + j - 1 = E + N + j
    BY <1>2, <1>4, <1>5, <1>6
  <2> QED BY <1>3, <1>5, <2>1
<1>7. d \in Seq(Byte) /\ StartsLike(d, e)
  BY <1>5, <1>6 DEF StartsLike
<1> QED
  BY <1>7 DEF d, w, a, e

(* No packet is found in front of it, and none of its bytes skipped. *)
LEMMA AtNoise ==
  ASSUME NEW s \in Scripts, NEW k \in 1 .. Len(s), NEW n \in 0 .. Len(Bytes(s)),
         NEW a \in Nat, EndOf(s, k - 1) < a, a < StartOf(s, k), a <= n + 1
  PROVE  LET d == SubSeq(Bytes(s), a, n)
         IN  /\ d \in Seq(Byte)
             /\ ~ Waits(d) => PacketAt(d) = {} /\ a + Advance(d) <= StartOf(s, k)
<1> DEFINE w == Bytes(s)
           d == SubSeq(w, a, n)
           E == EndOf(s, k - 1)
           N == Len(s[k].noise)
           y == BlockOf(s, k)
           j == a - E
<1>0. s \in Seq(Script) /\ k \in DOMAIN s
  BY ScriptFacts
<1>1. w \in Seq(Byte)
  BY <1>0, BytesType
<1>2. /\ E \in Nat /\ N \in Nat /\ StartOf(s, k) = E + N + 1
  BY <1>0, BlockEnds
<1>3. /\ \A i \in 1 .. N + 2 : w[E + i] = y[i]
      /\ y[N + 1] = 255 /\ y[N + 2] = 90 /\ y \in Seq(Byte)
      /\ N + 6 <= Len(y)
  <2> DEFINE e == Encode(s[k].packet)
             z == s[k].noise
  <2>1. /\ \A i \in 1 .. N : w[E + i] = z[i]
        /\ \A i \in 1 .. Len(e) : w[E + N + i] = e[i]
    BY <1>0, BlockBytes
  <2>2. /\ y \in Seq(Byte) /\ Len(y) = N + Len(e)
        /\ \A i \in 1 .. N : y[i] = z[i]
        /\ \A i \in 1 .. Len(e) : y[N + i] = e[i]
    BY <1>0, BlockType
  <2>3. s[k].packet \in Packets /\ Len(e) <= MaxLength
    BY <1>0, BlockType, ScriptFacts
  <2>4. Len(e) \in Nat /\ Len(e) >= 6 /\ Synced(e)
    BY <2>3, EncodedDecodes
  <2> HIDE DEF e, E, N, w, z, y
  <2>5. /\ w[E + N + 1] = e[1] /\ w[E + N + 2] = e[2]
        /\ y[N + 1] = e[1] /\ y[N + 2] = e[2]
        /\ e[1] = 255 /\ e[2] = 90
    BY <2>1, <2>2, <2>4, SMTT(30) DEF Synced
  <2>6. ASSUME NEW i \in 1 .. N + 2
        PROVE  w[E + i] = y[i]
    <3>1. i \in 1 .. N \/ i = N + 1 \/ i = N + 2
      BY <1>2
    <3>2. E + (N + 1) = E + N + 1 /\ E + (N + 2) = E + N + 2
      BY <1>2
    <3> QED BY <2>1, <2>2, <2>5, <3>1, <3>2, SMTT(30)
  <2> QED BY <1>2, <2>2, <2>4, <2>5, <2>6
<1>5. \A i \in 1 .. N - 1 :
        LET c == SubSeq(y, i, i + 3) IN Synced(c) => ~ ValidLength(LengthOf(c))
  BY <1>0, NoiseAssumption, Zenon DEF ValidLength, BlockOf
<1> HIDE DEF w, E, N, y
<1>7. j \in 1 .. N /\ a = E + j
  BY <1>2 DEF E
<1>8. a \in 1 .. Len(w) + 1 /\ n \in a - 1 .. Len(w)
  BY <1>1, <1>2 DEF w, E
<1>9. d \in Seq(Byte) /\ Len(d) = n - a + 1 /\ \A i \in 1 .. n - a + 1 : d[i] = w[a + i - 1]
  BY <1>1, <1>8, PieceType
<1> HIDE DEF d, j
<1>10. ASSUME NEW i \in 1 .. Len(d), j + i <= N + 3
       PROVE  d[i] = y[j + i - 1]
  <2>1. i \in 1 .. n - a + 1 /\ j + i - 1 \in 1 .. N + 2 /\ a + i - 1 = E + (j + i - 1)
    BY <1>2, <1>7, <1>8, <1>9, <1>10
  <2>2. d[i] = w[a + i - 1]
    BY <1>9, <2>1, Zenon
  <2>3. w[E + (j + i - 1)] = y[j + i - 1]
    BY <1>3, <2>1, Zenon
  <2> QED BY <2>1, <2>2, <2>3
<1>11. ASSUME ~ Waits(d)
       PROVE  PacketAt(d) = {} /\ a + Advance(d) <= StartOf(s, k)
  <2>1. Len(d) \in Nat /\ Len(d) >= 2 /\ (Synced(d) => Len(d) >= 4)
    BY <1>9, <1>11, NoWait
  <2>2. CASE ~ Synced(d)
    <3>1. PacketAt(d) = {} /\ Advance(d) = 1
      BY <2>2, Zenon DEF PacketAt, Advance
    <3> QED BY <1>2, <1>7, <3>1
  <2>3. CASE Synced(d)
    <3>1. d[1] = 255 /\ d[2] = 90
      BY <2>3 DEF Synced
    <3>2. d[1] = y[j] /\ d[2] = y[j + 1]
      <4>1. 1 \in 1 .. Len(d) /\ 2 \in 1 .. Len(d) /\ j + 1 <= N + 3 /\ j + 2 <= N + 3
            /\ j + 1 - 1 = j /\ j + 2 - 1 = j + 1
        BY <1>2, <1>7, <2>1
      <4> QED BY <1>10, <4>1
    <3>3. j \in 1 .. N - 1
      <4>1. j # N
        BY <1>3, <3>1, <3>2
      <4> QED BY <1>2, <1>7, <4>1
    <3> DEFINE x == SubSeq(y, j, j + 3)
    <3>4. x[1] = d[1] /\ x[2] = d[2] /\ x[3] = d[3] /\ x[4] = d[4]
      <4>1. j \in 1 .. Len(y) + 1 /\ j + 3 \in j - 1 .. Len(y) /\ (j + 3) - j + 1 = 4
        BY <1>2, <1>3, <3>3, SMTT(30)
      <4>2. \A i \in 1 .. (j + 3) - j + 1 : x[i] = y[j + i - 1]
        BY <1>3, <4>1, PieceType
      <4> HIDE DEF x
      <4>3. \A i \in 1 .. 4 : i \in 1 .. Len(d) /\ j + i <= N + 3
        BY <1>2, <2>1, <2>3, <3>3
      <4>4. \A i \in 1 .. 4 : x[i] = d[i]
        BY <1>10, <4>1, <4>2, <4>3
      <4> QED BY <4>4
    <3>5. ~ ValidLength(LengthOf(d))
      <4>1. Synced(x) => ~ ValidLength(LengthOf(x))
        BY <1>5, <3>3
      <4> HIDE DEF x
      <4>2. Synced(x) /\ LengthOf(x) = LengthOf(d)
        BY <3>1, <3>4 DEF Synced, LengthOf
      <4> QED BY <4>1, <4>2
    <3>6. PacketAt(d) = {} /\ Advance(d) = 2
      BY <2>3, <3>5 DEF PacketAt, Advance
    <3> QED BY <1>2, <1>7, <3>3, <3>6
  <2> QED BY <2>2, <2>3
<1> QED
  BY <1>9, <1>11 DEF d, w

(* A position between two packets, in front of the k-th. *)
Between(s, k, c) ==
  /\ EndOf(s, k - 1) <= c
  /\ k <= Len(s) => c < StartOf(s, k)

(* From there the parser finds this packet, or nothing before all of it    *)
(* has arrived.                                                            *)
LEMMA FindsNext ==
  ASSUME NEW s \in Scripts, NEW k \in 1 .. Len(s), NEW n \in 0 .. Len(Bytes(s)),
         NEW c \in 0 .. n, Between(s, k, c)
  PROVE  LET r == TryParse(SubSeq(Bytes(s), c + 1, n))
         IN  /\ r.packet = {} =>
                  c <= n - Len(r.rest) /\ n - Len(r.rest) < StartOf(s, k)
             /\ r.packet # {} =>
                  /\ n - Len(r.rest) = EndOf(s, k)
                  /\ \A p \in r.packet : Seen(p) = Seen(s[k].packet)
<1> DEFINE w == Bytes(s)
           b == SubSeq(w, c + 1, n)
           a == StartOf(s, k)
           At(i) == SubSeq(b, i, Len(b))
           G == {i \in 1 .. Len(b) + 1 : c + i <= a}
           e == Encode(s[k].packet)
<1>0. s \in Seq(Script) /\ Len(e) <= MaxLength
  BY ScriptFacts
<1>1. w \in Seq(Byte) /\ Len(w) \in Nat /\ n \in Nat /\ c \in Nat /\ c <= n /\ n <= Len(w)
  BY <1>0, BytesType
<1>2. /\ EndOf(s, k - 1) \in Nat /\ EndOf(s, k - 1) <= c /\ a \in Nat /\ c < a
      /\ EndOf(s, k) = a - 1 + Len(e) /\ Len(e) \in Nat /\ Len(e) >= 6
      /\ s[k].packet \in Packets
  <2>1. /\ EndOf(s, k - 1) \in Nat /\ Len(s[k].noise) \in Nat
        /\ Len(e) \in Nat /\ Len(e) >= 6
        /\ a = EndOf(s, k - 1) + Len(s[k].noise) + 1
        /\ EndOf(s, k) = EndOf(s, k - 1) + Len(s[k].noise) + Len(e)
    BY <1>0, BlockEnds
  <2>2. s[k].packet \in Packets
    BY <1>0, BlockType
  <2> HIDE DEF a, e
  <2> QED BY <2>1, <2>2, SMTT(30) DEF Between, a
<1> HIDE DEF w, a, e
<1>3. /\ b \in Seq(Byte) /\ Len(b) \in Nat /\ Len(b) = n - c
      /\ c + 1 \in 1 .. Len(w) + 1 /\ n \in (c + 1) - 1 .. Len(w)
  <2>1. c + 1 \in 1 .. Len(w) + 1 /\ n \in (c + 1) - 1 .. Len(w)
    BY <1>1
  <2>2. b \in Seq(Byte) /\ Len(b) = n - (c + 1) + 1
    BY <1>1, <2>1, PieceType
  <2> HIDE DEF b
  <2> QED BY <1>1, <2>1, <2>2
<1>4. ASSUME NEW i \in 1 .. Len(b) + 1
      PROVE  At(i) = SubSeq(w, c + i, n)
  <2>1. /\ i \in 1 .. n - (c + 1) + 2 /\ Len(b) \in i - 1 .. n - (c + 1) + 1
        /\ (c + 1) + i - 1 = c + i /\ (c + 1) + Len(b) - 1 = n
    BY <1>1, <1>3
  <2>2. SubSeq(SubSeq(w, c + 1, n), i, Len(b)) = SubSeq(w, (c + 1) + i - 1, (c + 1) + Len(b) - 1)
    BY <1>1, <1>3, <2>1, PieceOfPiece
  <2> HIDE DEF b
  <2> QED BY <2>1, <2>2 DEF b
<1> HIDE DEF b
(* In the noise, and at the packet. *)
<1>5. ASSUME NEW i \in 1 .. Len(b) + 1, c + i < a
      PROVE  /\ At(i) \in Seq(Byte)
             /\ ~ Waits(At(i)) => PacketAt(At(i)) = {} /\ (c + i) + Advance(At(i)) <= a
  <2> DEFINE x == c + i
  <2>1. x \in Nat /\ EndOf(s, k - 1) < x /\ x < a /\ x <= n + 1
    BY <1>1, <1>2, <1>3, <1>5
  <2> HIDE DEF x
  <2>2. /\ SubSeq(w, x, n) \in Seq(Byte)
        /\ ~ Waits(SubSeq(w, x, n)) =>
             PacketAt(SubSeq(w, x, n)) = {} /\ x + Advance(SubSeq(w, x, n)) <= a
    BY <2>1, AtNoise DEF w, a
  <2>3. At(i) = SubSeq(w, x, n)
    BY <1>4 DEF x
  <2> HIDE DEF At
  <2> QED BY <2>2, <2>3, Zenon DEF x
<1>6. ASSUME NEW i \in 1 .. Len(b) + 1, c + i = a
      PROVE  /\ At(i) \in Seq(Byte)
             /\ \/ Waits(At(i))
                \/ /\ ~ Waits(At(i)) /\ LengthOf(At(i)) = Len(e) /\ Len(e) <= Len(At(i))
                   /\ \E q : PacketAt(At(i)) = {q} /\ Seen(q) = Seen(s[k].packet)
  <2>1. At(i) = SubSeq(w, a, n) /\ a <= n + 1
    <3>1. a <= n + 1
      BY <1>1, <1>3, <1>6
    <3>2. At(i) = SubSeq(w, c + i, n)
      BY <1>4
    <3> HIDE DEF At
    <3> QED BY <1>6, <3>1, <3>2
  <2>2. SubSeq(w, a, n) \in Seq(Byte) /\ StartsLike(SubSeq(w, a, n), e)
    BY <1>0, <2>1, AtStart DEF w, a, e
  <2> HIDE DEF At
  <2>3. At(i) \in Seq(Byte) /\ StartsLike(At(i), e)
    BY <2>1, <2>2
  <2> QED BY <1>0, <1>2, <2>3, AtPacket DEF e
<1>7. ASSUME NEW i \in G, ~ Stops(At(i))
      PROVE  i + Advance(At(i)) \in G
  <2>0. i \in 1 .. Len(b) + 1 /\ c + i <= a
    OBVIOUS
  <2>1. c + i # a
    <3>1. ASSUME c + i = a
          PROVE  FALSE
      <4> HIDE DEF At
      <4>1. Stops(At(i))
        <5>1. \/ Waits(At(i))
              \/ \E q : PacketAt(At(i)) = {q}
          BY <1>6, <2>0, <3>1
        <5> QED BY <5>1 DEF Stops
      <4> QED BY <1>7, <4>1
    <3> QED BY <3>1
  <2>2. c + i < a
    BY <1>1, <1>2, <2>0, <2>1
  <2>3. ~ Waits(At(i))
    BY <1>7 DEF Stops
  <2>4. At(i) \in Seq(Byte) /\ (c + i) + Advance(At(i)) <= a
    BY <1>5, <2>0, <2>2, <2>3
  <2>5. Len(At(i)) = Len(b) - i + 1
    <3>1. i \in 1 .. Len(b) + 1 /\ Len(b) \in i - 1 .. Len(b)
      BY <1>3
    <3> QED BY <1>3, <3>1, PieceType
  <2> HIDE DEF At
  <2>6. Advance(At(i)) \in 1 .. Len(At(i))
    BY <2>3, <2>4, NoWait
  <2> QED BY <1>1, <1>3, <2>0, <2>4, <2>5, <2>6, SMTT(30)
<1>8. PICK q \in G : Stops(At(q)) /\ TryParse(b) = Outcome(At(q))
  <2>1. G \in SUBSET (1 .. Len(b) + 1) /\ 1 \in G
    BY <1>1, <1>2, <1>3
  <2> HIDE DEF G
  <2> QED BY <1>3, <1>7, <2>1, LoopRule
<1>9. q \in 1 .. Len(b) + 1 /\ c + q <= a
  OBVIOUS
<1>10. Len(At(q)) = Len(b) - q + 1
  <2>1. q \in 1 .. Len(b) + 1 /\ Len(b) \in q - 1 .. Len(b)
    BY <1>3, <1>9
  <2> QED BY <1>3, <2>1, PieceType
<1> DEFINE r == TryParse(b)
<1> HIDE DEF At, G
<1>11. CASE Waits(At(q))
  <2>1. r = [packet |-> {}, rest |-> At(q)]
    BY <1>8, <1>11 DEF Outcome
  <2>2. r.packet = {} /\ r.rest = At(q)
    BY <2>1
  <2> HIDE DEF r
  <2>3. c <= n - Len(r.rest) /\ n - Len(r.rest) < a
    <3>1. Len(r.rest) = Len(b) - q + 1
      BY <1>10, <2>2, Zenon
    <3>2. q \in Nat /\ 1 <= q /\ q <= Len(b) + 1
      BY <1>3, <1>9
    <3> QED BY <1>1, <1>2, <1>3, <1>9, <3>1, <3>2, SMTT(30)
  <2> QED BY <2>2, <2>3 DEF r, b, w, a
<1>12. CASE ~ Waits(At(q))
  <2>1. c + q = a
    <3>1. ASSUME c + q # a
          PROVE  FALSE
      <4>1. c + q < a
        BY <1>1, <1>2, <1>9, <3>1
      <4>2. PacketAt(At(q)) = {}
        BY <1>5, <1>9, <1>12, <4>1
      <4> QED BY <1>8, <1>12, <4>2 DEF Stops
    <3> QED BY <3>1
  <2>2. /\ At(q) \in Seq(Byte) /\ LengthOf(At(q)) = Len(e) /\ Len(e) <= Len(At(q))
        /\ \E p : PacketAt(At(q)) = {p} /\ Seen(p) = Seen(s[k].packet)
    BY <1>6, <1>9, <1>12, <2>1
  <2> DEFINE l == SubSeq(At(q), Len(e) + 1, Len(At(q)))
  <2>3. r = [packet |-> PacketAt(At(q)), rest |-> l]
    BY <1>8, <1>12, <2>2, Zenon DEF Outcome
  <2>4. Len(l) = Len(At(q)) - Len(e)
    <3>1. Len(At(q)) \in Nat
      BY <2>2
    <3>2. Len(e) + 1 \in 1 .. Len(At(q)) + 1 /\ Len(At(q)) \in (Len(e) + 1) - 1 .. Len(At(q))
      BY <1>2, <2>2, <3>1
    <3>3. Len(l) = Len(At(q)) - (Len(e) + 1) + 1
      BY <2>2, <3>2, PieceType
    <3> HIDE DEF l
    <3> QED BY <1>2, <3>1, <3>3
  <2> HIDE DEF l
  <2>5. r.packet = PacketAt(At(q)) /\ r.rest = l
    BY <2>3
  <2> HIDE DEF r
  <2>6. n - Len(r.rest) = EndOf(s, k)
    <3>0. q \in Nat
      BY <1>9
    <3>1. Len(r.rest) = (Len(b) - q + 1) - Len(e)
      <4>1. Len(r.rest) = Len(l)
        BY <2>5, Zenon
      <4> QED BY <1>10, <2>4, <4>1, Zenon
    <3>2. Len(r.rest) = ((n - c) - q + 1) - Len(e)
      BY <1>3, <3>1, Zenon
    <3> DEFINE lr == Len(r.rest)
               le == Len(e)
               ek == EndOf(s, k)
    <3>3. /\ lr = ((n - c) - q + 1) - le /\ ek = a - 1 + le /\ c + q = a
          /\ le \in Nat /\ a \in Nat /\ n \in Nat /\ c \in Nat
      BY <1>1, <1>2, <2>1, <3>2, Zenon
    <3> HIDE DEF lr, le, ek
    <3>4. n - lr = ek
      BY <3>0, <3>3
    <3> QED BY <3>4 DEF lr, ek
  <2>7. r.packet # {} /\ \A p \in r.packet : Seen(p) = Seen(s[k].packet)
    BY <2>2, <2>5
  <2> QED BY <2>6, <2>7 DEF r, b, w
<1> QED
  BY <1>11, <1>12

LEMMA FindsEnd ==
  ASSUME NEW s \in Scripts, NEW n \in 0 .. Len(Bytes(s)), NEW c \in 0 .. n,
         Between(s, Len(s) + 1, c)
  PROVE  LET r == TryParse(SubSeq(Bytes(s), c + 1, n))
         IN  r.packet = {} /\ n - Len(r.rest) = c
<1> DEFINE w == Bytes(s)
           b == SubSeq(w, c + 1, n)
<1>0. s \in Seq(Script) /\ Len(s) \in Nat
  BY ScriptFacts
<1>1. w \in Seq(Byte)
  BY <1>0, BytesType
<1>2. EndOf(s, Len(s)) = Len(w)
  BY <1>0, NoBytes
<1>3. EndOf(s, (Len(s) + 1) - 1) <= c
  BY DEF Between
<1>4. Len(w) <= c
  <2>1. (Len(s) + 1) - 1 = Len(s)
    BY <1>0
  <2> QED BY <1>2, <1>3, <2>1
<1> HIDE DEF w
<1>5. Len(w) \in Nat /\ n \in Nat /\ n <= Len(w) /\ c = n
  BY <1>1, <1>4 DEF w
<1>6. b \in Seq(Byte) /\ Len(b) = 0
  <2>1. c + 1 \in 1 .. Len(w) + 1 /\ n \in (c + 1) - 1 .. Len(w) /\ n - (c + 1) + 1 = 0
    BY <1>5
  <2> QED BY <1>1, <2>1, PieceType
<1> HIDE DEF b
<1>7. Waits(b)
  BY <1>6 DEF Waits
<1>8. TryParse(b) = [packet |-> {}, rest |-> b]
  BY <1>6, <1>7, ParsedTwice
<1>9. TryParse(b).packet = {} /\ TryParse(b).rest = b
  BY <1>8
<1>10. n - Len(TryParse(b).rest) = c
  BY <1>5, <1>6, <1>9
<1> QED
  BY <1>9, <1>10 DEF b, w

(* Whatever the bytes are, a packet is found at one of them. *)
LEMMA FindsSomewhere ==
  ASSUME NEW w \in Seq(Byte), NEW n \in 0 .. Len(w), NEW c \in 0 .. n
  PROVE  LET r == TryParse(SubSeq(w, c + 1, n))
         IN  /\ r.packet = {} => c <= n - Len(r.rest)
             /\ r.packet # {} =>
                  \E i \in c + 1 .. n :
                    /\ ~ Waits(SubSeq(w, i, n)) /\ PacketAt(SubSeq(w, i, n)) = r.packet
                    /\ n - Len(r.rest) = (i - 1) + LengthOf(SubSeq(w, i, n))
                    /\ LengthOf(SubSeq(w, i, n)) \in Nat
<1> DEFINE b == SubSeq(w, c + 1, n)
           At(i) == SubSeq(b, i, Len(b))
<1>1. Len(w) \in Nat /\ n \in Nat /\ c \in Nat /\ c <= n /\ n <= Len(w)
  OBVIOUS
<1>3. /\ b \in Seq(Byte) /\ Len(b) \in Nat /\ Len(b) = n - c
      /\ c + 1 \in 1 .. Len(w) + 1 /\ n \in (c + 1) - 1 .. Len(w)
  <2>1. c + 1 \in 1 .. Len(w) + 1 /\ n \in (c + 1) - 1 .. Len(w)
    BY <1>1
  <2>2. b \in Seq(Byte) /\ Len(b) = n - (c + 1) + 1
    BY <1>1, <2>1, PieceType
  <2> HIDE DEF b
  <2> QED BY <1>1, <2>1, <2>2
<1>4. ASSUME NEW i \in 1 .. Len(b) + 1
      PROVE  At(i) = SubSeq(w, c + i, n)
  <2>1. /\ i \in 1 .. n - (c + 1) + 2 /\ Len(b) \in i - 1 .. n - (c + 1) + 1
        /\ (c + 1) + i - 1 = c + i /\ (c + 1) + Len(b) - 1 = n
    BY <1>1, <1>3
  <2>2. SubSeq(SubSeq(w, c + 1, n), i, Len(b)) = SubSeq(w, (c + 1) + i - 1, (c + 1) + Len(b) - 1)
    BY <1>1, <1>3, <2>1, PieceOfPiece
  <2> HIDE DEF b
  <2> QED BY <2>1, <2>2 DEF b
<1> HIDE DEF b
<1>5. PICK q \in 1 .. Len(b) + 1 : Stops(At(q)) /\ TryParse(b) = Outcome(At(q))
  BY <1>3, EndsSomewhere
<1>6. At(q) \in Seq(Byte) /\ Len(At(q)) = Len(b) - q + 1
  <2>1. q \in 1 .. Len(b) + 1 /\ Len(b) \in q - 1 .. Len(b)
    BY <1>3, <1>5
  <2> QED BY <1>3, <2>1, PieceType
<1>7. At(q) = SubSeq(w, c + q, n)
  BY <1>4, <1>5
<1> DEFINE r == TryParse(b)
           d == At(q)
<1>8. q \in Nat /\ 1 <= q /\ q <= Len(b) + 1
  BY <1>3, <1>5
<1> HIDE DEF At, d
<1>9. d \in Seq(Byte) /\ Len(d) = Len(b) - q + 1 /\ Len(d) \in Nat /\ Stops(d) /\ r = Outcome(d)
      /\ d = SubSeq(w, c + q, n)
  BY <1>5, <1>6, <1>7 DEF d
<1>10. CASE Waits(d)
  <2>1. r = [packet |-> {}, rest |-> d]
    BY <1>9, <1>10 DEF Outcome
  <2>2. r.packet = {} /\ r.rest = d
    BY <2>1
  <2> HIDE DEF r
  <2>3. c <= n - Len(r.rest)
    BY <1>1, <1>3, <1>8, <1>9, <2>2
  <2> QED BY <2>2, <2>3 DEF r, b
<1>11. CASE ~ Waits(d)
  <2> DEFINE l == SubSeq(d, LengthOf(d) + 1, Len(d))
  <2>1. r = [packet |-> PacketAt(d), rest |-> l]
    BY <1>9, <1>11, Zenon DEF Outcome
  <2>2. PacketAt(d) # {}
    BY <1>9, <1>11 DEF Stops
  <2>3. LengthOf(d) \in 6 .. Len(d)
    BY <1>9, <1>11, <2>2, Found
  <2>4. LengthOf(d) \in Nat /\ 6 <= LengthOf(d) /\ LengthOf(d) <= Len(d)
    BY <1>9, <2>3
  <2>5. Len(l) = Len(d) - LengthOf(d)
    <3>1. LengthOf(d) + 1 \in 1 .. Len(d) + 1 /\ Len(d) \in (LengthOf(d) + 1) - 1 .. Len(d)
      BY <1>9, <2>4
    <3>2. Len(l) = Len(d) - (LengthOf(d) + 1) + 1
      BY <1>9, <3>1, PieceType
    <3> HIDE DEF l
    <3> QED BY <1>9, <2>4, <3>2, SMTT(30)
  <2> HIDE DEF l
  <2>6. r.packet = PacketAt(d) /\ r.rest = l
    BY <2>1
  <2> HIDE DEF r
  <2> DEFINE i == c + q
             ll == Len(l)
             ld == LengthOf(d)
             dl == Len(d)
  <2>7. /\ ll = dl - ld /\ dl = Len(b) - q + 1 /\ Len(b) = n - c /\ ld \in Nat /\ 6 <= ld
        /\ ld <= dl /\ dl \in Nat
    BY <1>3, <1>9, <2>4, <2>5, Zenon
  <2> HIDE DEF ll, ld, dl
  <2>8. i \in c + 1 .. n /\ n - ll = (i - 1) + ld
    BY <1>1, <1>8, <2>7
  <2>9. Len(r.rest) = ll
    BY <2>6, Zenon DEF ll
  <2> HIDE DEF i
  <2>10. d = SubSeq(w, i, n)
    BY <1>9 DEF i
  <2>11. /\ i \in c + 1 .. n
         /\ ~ Waits(SubSeq(w, i, n)) /\ PacketAt(SubSeq(w, i, n)) = r.packet
         /\ n - Len(r.rest) = (i - 1) + LengthOf(SubSeq(w, i, n))
         /\ LengthOf(SubSeq(w, i, n)) \in Nat
    BY <1>11, <2>4, <2>6, <2>8, <2>9, <2>10, Zenon DEF ld
  <2> QED BY <2>2, <2>6, <2>11, Zenon DEF r, b
<1> QED
  BY <1>10, <1>11

-----------------------------------------------------------------------------
(* The lossy channel                                                       *)

(* Which script the device follows. *)
Comes(s) ==
  /\ s \in Scripts
  /\ sent = [i \in DOMAIN s |-> s[i].packet]
  /\ starts = [i \in DOMAIN s |-> StartOf(s, i)]
  /\ Len(wire) = Len(Bytes(s))
  /\ damaged = 0 => wire = Bytes(s)

(* The reader is between two packets as long as nothing went wrong. *)
InStep(s) == \E k \in 1 .. Len(s) + 1 : Between(s, k, Consumed)

ReaderPlace == \E s \in Scripts : Comes(s) /\ (~ Faulty => InStep(s))

(* Wherever a packet is found in the bytes, that packet was sent: neither  *)
(* the damage nor the inside of a packet looks like another one.           *)
FoundIsSent(i, n) ==
  LET d == SubSeq(wire, i, n)
  IN  \E k \in DOMAIN starts :
        /\ starts[k] = i /\ LengthOf(d) = Len(Encode(sent[k]))
        /\ \A p \in PacketAt(d) : Seen(p) = Seen(sent[k])

Unforged ==
  \A n \in 1 .. Len(wire) : \A i \in 1 .. n :
    LET d == SubSeq(wire, i, n)
    IN  ~ Waits(d) /\ PacketAt(d) # {} => FoundIsSent(i, n)

LEMMA PlaceInit ==
  ASSUME Init
  PROVE  ReaderPlace
<1>1. PICK s \in Scripts :
        /\ sent = [i \in DOMAIN s |-> s[i].packet]
        /\ starts = [i \in DOMAIN s |-> StartOf(s, i)]
        /\ \/ /\ wire = Bytes(s) /\ damaged = 0
           \/ \E v \in DamageValues :
                /\ damaged \in DOMAIN Bytes(s)
                /\ wire = [Bytes(s) EXCEPT ![damaged] = v]
  BY DEF Init
<1>2. s \in Seq(Script) /\ Len(s) \in Nat
  BY ScriptFacts
<1> DEFINE w == Bytes(s)
<1>3. w \in Seq(Byte)
  BY <1>2, BytesType
<1> HIDE DEF w
<1>4. Len(wire) = Len(w) /\ (damaged = 0 => wire = w)
  <2>1. CASE wire = w
    BY <2>1
  <2>2. CASE \E v \in DamageValues :
               damaged \in DOMAIN w /\ wire = [w EXCEPT ![damaged] = v]
    <3>1. PICK v \in DamageValues :
            damaged \in DOMAIN w /\ wire = [w EXCEPT ![damaged] = v]
      BY <2>2
    <3>2. v \in Byte
      BY PacketReaderAssumption, Zenon
    <3>3. damaged \in 1 .. Len(w)
      BY <1>3, <3>1
    <3>4. Len(wire) = Len(w)
      BY <1>3, <3>1, <3>2
    <3> QED BY <3>3, <3>4
  <2> QED BY <1>1, <2>1, <2>2 DEF w
<1>5. Comes(s)
  BY <1>1, <1>4 DEF Comes, w
<1>6. InStep(s)
  <2>1. Consumed = 0
    <3>1. bytesRead = 0 /\ readBuf = <<>> /\ Len(<<>>) = 0
      BY DEF Init
    <3>2. Len(readBuf) = 0
      BY <3>1, Zenon
    <3>3. bytesRead = 0
      BY <3>1
    <3> QED BY <3>2, <3>3 DEF Consumed
  <2>2. EndOf(s, 0) = 0
    BY <1>2, NoBytes
  <2>3. 1 \in 1 .. Len(s) + 1 /\ 1 - 1 = 0
    BY <1>2
  <2>4. 1 <= Len(s) => 0 < StartOf(s, 1)
    <3> SUFFICES ASSUME 1 <= Len(s)
                 PROVE  0 < StartOf(s, 1)
      OBVIOUS
    <3>1. 1 \in 1 .. Len(s) /\ 1 \in 1 .. 1
      BY <1>2
    <3>2. EndOf(s, 1 - 1) < StartOf(s, 1)
      BY <1>2, <3>1, StartsInOrder
    <3> QED BY <2>2, <2>3, <3>2
  <2>5. Between(s, 1, 0)
    BY <2>2, <2>3, <2>4 DEF Between
  <2> QED BY <2>1, <2>3, <2>5, Zenon DEF InStep
<1> QED
  BY <1>5, <1>6 DEF ReaderPlace

(* A turn of the parser: it finds nothing, or the next packet; after a     *)
(* fault some later one.                                                   *)
Advanced(s) ==
  /\ returned' = returned /\ Consumed <= Consumed'
  /\ ~ Faulty => \E k \in 1 .. Len(s) + 1 : Between(s, k, Consumed) /\ Between(s, k, Consumed')

Got(s, k) ==
  /\ \E p \in Decoded : returned' = Append(returned, p) /\ Seen(p) = Seen(s[k].packet)
  /\ Consumed' = EndOf(s, k) /\ Consumed < StartOf(s, k)
  /\ ~ Faulty => Between(s, k, Consumed)

LEMMA ParsePlace ==
  ASSUME ReaderInv, NEW s \in Scripts, Comes(s), ~ Faulty => InStep(s),
         Faulty => Unforged, Parse
  PROVE  Advanced(s) \/ \E k \in 1 .. Len(s) : Got(s, k)
<1> DEFINE r == TryParse(readBuf)
           c == Consumed
           n == bytesRead
<1>1. /\ readBuf' = r.rest /\ wire' = wire /\ bytesRead' = bytesRead
      /\ \/ r.packet = {} /\ returned' = returned
         \/ \E p \in r.packet : returned' = Append(returned, p)
  BY DEF Parse, script
<1>2. /\ wire \in Seq(Byte) /\ readBuf \in Seq(Byte)
      /\ swallowed \in Nat /\ swallowed <= c
      /\ n \in Nat /\ n <= Len(wire) /\ readBuf = SubSeq(wire, c + 1, n)
  BY DEF ReaderInv
<1>3. s \in Seq(Script) /\ Len(s) \in Nat /\ Len(wire) = Len(Bytes(s))
  BY ScriptFacts DEF Comes
<1>4. c \in 0 .. n /\ n \in 0 .. Len(wire) /\ c \in Nat
  BY <1>2 DEF Consumed
<1>5. r.packet \subseteq Decoded /\ r.rest \in Seq(Byte)
  BY <1>2, ParsedType
<1> HIDE DEF r
<1>6. Consumed' = n - Len(r.rest)
  BY <1>1 DEF Consumed
<1> HIDE DEF c, n
<1>7. CASE Faulty
  <2>1. /\ r.packet = {} => c <= n - Len(r.rest)
        /\ r.packet # {} =>
             \E i \in c + 1 .. n :
               /\ ~ Waits(SubSeq(wire, i, n)) /\ PacketAt(SubSeq(wire, i, n)) = r.packet
               /\ n - Len(r.rest) = (i - 1) + LengthOf(SubSeq(wire, i, n))
               /\ LengthOf(SubSeq(wire, i, n)) \in Nat
    BY <1>2, <1>4, FindsSomewhere DEF r
  <2>2. CASE r.packet = {}
    <3>1. Advanced(s)
      BY <1>1, <1>6, <1>7, <2>1, <2>2 DEF Advanced, c
    <3> QED BY <3>1
  <2>3. CASE r.packet # {}
    <3>1. PICK i \in c + 1 .. n :
            /\ ~ Waits(SubSeq(wire, i, n)) /\ PacketAt(SubSeq(wire, i, n)) = r.packet
            /\ n - Len(r.rest) = (i - 1) + LengthOf(SubSeq(wire, i, n))
            /\ LengthOf(SubSeq(wire, i, n)) \in Nat
      BY <2>1, <2>3
    <3>2. n \in 1 .. Len(wire) /\ i \in 1 .. n /\ i \in Nat /\ c < i
      BY <1>2, <1>4, <3>1
    <3>3. FoundIsSent(i, n)
      BY <1>7, <2>3, <3>1, <3>2, Zenon DEF Unforged
    <3>4. PICK k \in DOMAIN starts :
            /\ starts[k] = i /\ LengthOf(SubSeq(wire, i, n)) = Len(Encode(sent[k]))
            /\ \A p \in PacketAt(SubSeq(wire, i, n)) : Seen(p) = Seen(sent[k])
      BY <3>3, Zenon DEF FoundIsSent
    <3>5. k \in 1 .. Len(s) /\ starts[k] = StartOf(s, k) /\ sent[k] = s[k].packet
      <4>1. starts = [j \in 1 .. Len(s) |-> StartOf(s, j)]
            /\ sent = [j \in 1 .. Len(s) |-> s[j].packet]
        BY <1>3 DEF Comes
      <4> QED BY <3>4, <4>1
    <3>6. /\ StartOf(s, k) = EndOf(s, k - 1) + Len(s[k].noise) + 1
          /\ EndOf(s, k) = EndOf(s, k - 1) + Len(s[k].noise) + Len(Encode(s[k].packet))
          /\ EndOf(s, k - 1) \in Nat /\ Len(s[k].noise) \in Nat
          /\ Len(Encode(s[k].packet)) \in Nat
      BY <1>3, <3>5, BlockEnds
    <3>7. n - Len(r.rest) = (i - 1) + Len(Encode(s[k].packet)) /\ i = StartOf(s, k)
      BY <3>1, <3>4, <3>5, Zenon
    <3>8. Consumed' = EndOf(s, k)
      <4> DEFINE e == Len(Encode(s[k].packet))
                 z == Len(s[k].noise)
                 E == EndOf(s, k - 1)
      <4>1. /\ Consumed' = (i - 1) + e /\ i = E + z + 1 /\ EndOf(s, k) = E + z + e
            /\ E \in Nat /\ z \in Nat /\ e \in Nat
        BY <1>6, <3>6, <3>7, Zenon
      <4> HIDE DEF e, z, E
      <4> QED BY <4>1
    <3>9. Consumed < StartOf(s, k)
      BY <3>2, <3>7 DEF c
    <3>10. \E p \in Decoded : returned' = Append(returned, p) /\ Seen(p) = Seen(s[k].packet)
      BY <1>1, <1>5, <2>3, <3>1, <3>4, <3>5
    <3>11. Got(s, k)
      BY <1>7, <3>8, <3>9, <3>10 DEF Got
    <3> QED BY <3>5, <3>11
  <2> QED BY <2>2, <2>3
<1>8. CASE ~ Faulty
  <2>1. wire = Bytes(s)
    BY <1>8 DEF Faulty, Comes
  <2>2. PICK k \in 1 .. Len(s) + 1 : Between(s, k, Consumed)
    BY <1>8 DEF InStep
  <2>3. r = TryParse(SubSeq(Bytes(s), c + 1, n)) /\ n \in 0 .. Len(Bytes(s)) /\ c \in 0 .. n
    BY <1>2, <1>4, <2>1 DEF r
  <2>4. CASE k = Len(s) + 1
    <3>1. r.packet = {} /\ n - Len(r.rest) = c
      BY <2>2, <2>3, <2>4, FindsEnd DEF c
    <3>2. Consumed' = Consumed
      BY <1>6, <3>1 DEF c
    <3>3. Consumed <= Consumed
      BY <1>4 DEF c
    <3> QED BY <1>1, <2>2, <3>1, <3>2, <3>3 DEF Advanced
  <2>5. CASE k # Len(s) + 1
    <3>1. k \in 1 .. Len(s)
      BY <1>3, <2>5
    <3>2. /\ r.packet = {} => c <= n - Len(r.rest) /\ n - Len(r.rest) < StartOf(s, k)
          /\ r.packet # {} =>
               /\ n - Len(r.rest) = EndOf(s, k)
               /\ \A p \in r.packet : Seen(p) = Seen(s[k].packet)
      BY <2>2, <2>3, <3>1, FindsNext DEF c
    <3>3. CASE r.packet = {}
      <4>1. returned' = returned /\ Consumed <= Consumed' /\ Consumed' < StartOf(s, k)
        BY <1>1, <1>6, <3>2, <3>3 DEF c
      <4>2. Between(s, k, Consumed')
        <5>1. EndOf(s, k - 1) <= Consumed
          BY <2>2 DEF Between
        <5>2. EndOf(s, k - 1) \in Nat
          BY <1>3, <3>1, BlockEnds
        <5>3. Consumed' \in Int
          <6>1. Len(r.rest) \in Nat
            BY <1>5
          <6> QED BY <1>2, <1>6, <6>1
        <5>4. EndOf(s, k - 1) <= Consumed'
          BY <1>4, <4>1, <5>1, <5>2, <5>3 DEF c
        <5> QED BY <4>1, <5>4 DEF Between
      <4> QED BY <2>2, <4>1, <4>2 DEF Advanced
    <3>4. CASE r.packet # {}
      <4>1. \E p \in Decoded : returned' = Append(returned, p) /\ Seen(p) = Seen(s[k].packet)
        BY <1>1, <1>5, <3>2, <3>4
      <4>2. Consumed' = EndOf(s, k)
        BY <1>6, <3>2, <3>4
      <4>3. Consumed < StartOf(s, k)
        BY <1>3, <2>2, <3>1 DEF Between
      <4>4. Got(s, k)
        BY <2>2, <4>1, <4>2, <4>3 DEF Got
      <4> QED BY <3>1, <4>4
    <3> QED BY <3>3, <3>4
  <2> QED BY <2>4, <2>5
<1> QED
  BY <1>7, <1>8

(* Only the parser moves on, and the probe, which is a fault. *)
LEMMA OtherSteps ==
  ASSUME ReaderInv, Probe \/ Fill \/ Drop \/ Closed \/ UNCHANGED vars
  PROVE  /\ script' = script /\ returned' = returned
         /\ Consumed \in Nat /\ Consumed' \in Nat /\ Consumed <= Consumed'
         /\ Faulty => Faulty'
         /\ ~ Faulty' => Consumed' = Consumed
<1>1. /\ wire \in Seq(Byte) /\ readBuf \in Seq(Byte) /\ swallowed \in Nat
      /\ bytesRead \in Nat /\ bytesRead <= Len(wire) /\ swallowed <= Consumed
  BY DEF ReaderInv
<1>2. Len(readBuf) \in Nat /\ Consumed \in Nat
  BY <1>1 DEF Consumed
<1>3. script' = script /\ returned' = returned /\ damaged' = damaged
  BY DEF Probe, Fill, Drop, Closed, vars, script
<1>4. CASE Probe
  <2>1. PICK k \in {0} \cup Readable(6) : swallowed' = k /\ bytesRead' = k
    BY <1>4 DEF Probe
  <2>2. readBuf' = readBuf /\ pc = "probe"
    BY <1>4 DEF Probe
  <2>3. readBuf = <<>> /\ bytesRead = 0 /\ swallowed = 0
    BY <2>2 DEF ReaderInv
  <2>4. Len(readBuf) = 0
    BY <2>3
  <2>5. k \in Nat
    BY DEF Readable
  <2>6. Consumed = 0 /\ Consumed' = k
    <3>1. Len(readBuf') = 0 /\ bytesRead' = k
      BY <2>1, <2>2, <2>4, Zenon
    <3>2. 0 - 0 = 0 /\ k - 0 = k
      BY <2>5
    <3> QED BY <2>3, <2>4, <3>1, <3>2, Zenon DEF Consumed
  <2>7. ~ Faulty' => k = 0
    BY <2>1, <2>5 DEF Faulty
  <2>8. Faulty => Faulty'
    BY <1>3, <2>3 DEF Faulty
  <2> QED BY <1>3, <2>5, <2>6, <2>7, <2>8
<1>5. CASE Fill
  <2>1. PICK k \in Readable(Chunk) :
          /\ readBuf' = readBuf \o SubSeq(wire, bytesRead + 1, bytesRead + k)
          /\ bytesRead' = bytesRead + k
    BY <1>5 DEF Fill
  <2>2. k \in Nat /\ 1 <= k /\ bytesRead + k <= Len(wire)
    BY <1>1, Limits DEF Readable, Left
  <2> DEFINE m == SubSeq(wire, bytesRead + 1, bytesRead + k)
  <2>3. m \in Seq(Byte) /\ Len(m) = k
    BY <1>1, <2>2, PieceType
  <2>4. readBuf' = readBuf \o m
    BY <2>1
  <2> HIDE DEF m
  <2>5. Len(readBuf') = Len(readBuf) + k
    <3>1. readBuf \in Seq(Byte)
      BY <1>1
    <3>2. Len(readBuf \o m) = Len(readBuf) + Len(m)
      BY <2>3, <3>1, Joined
    <3> QED BY <2>3, <2>4, <3>2
  <2>6. Consumed' = Consumed
    BY <1>1, <1>2, <2>1, <2>2, <2>5 DEF Consumed
  <2>7. swallowed' = swallowed
    BY <1>5 DEF Fill
  <2>8. Faulty' = Faulty
    BY <1>3, <2>7 DEF Faulty
  <2> QED BY <1>2, <1>3, <2>6, <2>8
<1>6. CASE Drop \/ Closed \/ UNCHANGED vars
  <2>1. swallowed' = swallowed /\ bytesRead' = bytesRead /\ readBuf' = readBuf
    BY <1>6 DEF Drop, Closed, vars
  <2>2. Consumed' = Consumed /\ Faulty' = Faulty
    BY <1>3, <2>1 DEF Consumed, Faulty
  <2> QED BY <1>2, <1>3, <2>2
<1> QED
  BY <1>4, <1>5, <1>6

LEMMA PlaceNext ==
  ASSUME ReaderInv, ReaderPlace, [Next]_vars
  PROVE  ReaderPlace'
<1>1. PICK s \in Scripts : Comes(s) /\ (~ Faulty => InStep(s))
  BY DEF ReaderPlace
<1>2. s \in Seq(Script) /\ Len(s) \in Nat
  BY ScriptFacts
<1>3. CASE Parse
  <2>1. script' = script /\ Faulty' = Faulty
    BY <1>3 DEF Parse, script, Faulty
  <2>2. Comes(s)'
    BY <1>1, <2>1 DEF Comes, script
  <2>3. ASSUME ~ Faulty
        PROVE  InStep(s)'
    <3>1. Advanced(s) \/ \E k \in 1 .. Len(s) : Got(s, k)
      BY <1>1, <1>3, <2>3, ParsePlace
    <3>2. CASE Advanced(s)
      BY <2>3, <3>2 DEF Advanced, InStep
    <3>3. CASE \E k \in 1 .. Len(s) : Got(s, k)
      <4>1. PICK k \in 1 .. Len(s) : Got(s, k)
        BY <3>3
      <4>2. Consumed' = EndOf(s, k) /\ k + 1 \in 1 .. Len(s) + 1 /\ (k + 1) - 1 = k
        BY <1>2, <4>1 DEF Got
      <4>3. EndOf(s, k) \in Nat
        BY <1>2, PartType
      <4>4. k + 1 <= Len(s) => EndOf(s, k) < StartOf(s, k + 1)
        <5> SUFFICES ASSUME k + 1 <= Len(s)
                     PROVE  EndOf(s, k) < StartOf(s, k + 1)
          OBVIOUS
        <5>1. k + 1 \in 1 .. Len(s) /\ k + 1 \in 1 .. k + 1
          BY <1>2
        <5>2. EndOf(s, (k + 1) - 1) < StartOf(s, k + 1)
          BY <1>2, <5>1, StartsInOrder
        <5> QED BY <4>2, <5>2
      <4>5. Between(s, k + 1, EndOf(s, k))
        BY <4>2, <4>3, <4>4 DEF Between
      <4> QED BY <4>2, <4>5 DEF InStep
    <3> QED BY <3>1, <3>2, <3>3
  <2> QED BY <2>1, <2>2, <2>3 DEF ReaderPlace
<1>4. CASE Probe \/ Fill \/ Drop \/ Closed \/ UNCHANGED vars
  <2>1. /\ script' = script
        /\ Faulty => Faulty'
        /\ ~ Faulty' => Consumed' = Consumed
    BY <1>4, OtherSteps
  <2>2. Comes(s)'
    BY <1>1, <2>1 DEF Comes, script
  <2>3. ~ Faulty' => InStep(s)'
    BY <1>1, <2>1 DEF InStep
  <2> QED BY <2>2, <2>3 DEF ReaderPlace
<1> QED
  BY <1>3, <1>4 DEF Next

(* What is still to come once the first m packets are gone. *)
Rest(s, m) == [i \in 1 .. Len(s) - m |-> Seen(s[i + m].packet)]

LEMMA RestDropped ==
  ASSUME NEW s \in Seq(Script), NEW m \in 0 .. Len(s), NEW k \in m .. Len(s)
  PROVE  /\ DOMAIN Rest(s, m) = 1 .. Len(s) - m
         /\ k # m => k - m \in DOMAIN Rest(s, m) /\ Rest(s, m)[k - m] = Seen(s[k].packet)
         /\ SubSeq(Rest(s, m), (k - m) + 1, Len(Rest(s, m))) = Rest(s, k)
<1> DEFINE S == {Seen(s[i].packet) : i \in 1 .. Len(s)}
           f(i) == Seen(s[i].packet)
           L == Len(s)
           a == Rest(s, m)
           b == Rest(s, k)
           c == SubSeq(a, (k - m) + 1, Len(a))
<1>0. L \in Nat /\ m \in Nat /\ k \in Nat /\ m <= k /\ k <= L
  OBVIOUS
<1>1. \A i \in 1 .. L : f(i) \in S
  OBVIOUS
<1>2. a = [i \in 1 .. L - m |-> f(i + m)] /\ b = [i \in 1 .. L - k |-> f(i + k)]
  BY DEF Rest
<1> HIDE DEF S, f, L, a, b
<1>3. \A i \in 1 .. L - m : i + m \in 1 .. L
  BY <1>0
<1>4. \A i \in 1 .. L - k : i + k \in 1 .. L
  BY <1>0
<1>5. a \in Seq(S) /\ Len(a) = L - m /\ \A i \in 1 .. L - m : a[i] = f(i + m)
  BY <1>0, <1>1, <1>2, <1>3
<1>6. b \in Seq(S) /\ Len(b) = L - k /\ \A i \in 1 .. L - k : b[i] = f(i + k)
  BY <1>0, <1>1, <1>2, <1>4
<1>7. /\ c \in Seq(S) /\ Len(c) = L - k
      /\ \A i \in 1 .. L - k : c[i] = a[(k - m) + 1 + i - 1]
  <2>1. (k - m) + 1 \in 1 .. Len(a) + 1 /\ Len(a) \in ((k - m) + 1) - 1 .. Len(a)
        /\ Len(a) - ((k - m) + 1) + 1 = L - k
    BY <1>0, <1>5
  <2> QED BY <1>5, <2>1, PieceType
<1> HIDE DEF c
<1>8. c = b
  <2>1. ASSUME NEW i \in 1 .. Len(c)
        PROVE  c[i] = b[i]
    <3>1. /\ i \in 1 .. L - k /\ (k - m) + 1 + i - 1 \in 1 .. L - m
          /\ ((k - m) + 1 + i - 1) + m = i + k
      BY <1>0, <1>7
    <3>2. a[(k - m) + 1 + i - 1] = f(i + k)
      BY <1>5, <3>1
    <3> QED BY <1>6, <1>7, <3>1, <3>2
  <2> QED BY <1>6, <1>7, <2>1, SameSeq
<1>9. k # m => k - m \in 1 .. L - m /\ a[k - m] = f(k)
  <2> SUFFICES ASSUME k # m
               PROVE  k - m \in 1 .. L - m /\ a[k - m] = f(k)
    OBVIOUS
  <2>1. k - m \in 1 .. L - m /\ (k - m) + m = k
    BY <1>0
  <2> QED BY <1>5, <2>1
<1>10. DOMAIN a = 1 .. L - m
  BY <1>2
<1> QED
  BY <1>8, <1>9, <1>10 DEF a, b, c, f, L

(* The packets that do not start at or before c. *)
StillComing(packets, positions, c) ==
  LET gone == {i \in DOMAIN positions : positions[i] <= c}
  IN  [i \in 1 .. Len(packets) - Cardinality(gone) |-> Seen(packets[i + Cardinality(gone)])]

LEMMA ComingIs ==
  ASSUME NEW s \in Scripts, NEW c \in Nat,
         NEW m \in 0 .. Len(s), GoneBy(s, c) = 1 .. m
  PROVE  StillComing([i \in DOMAIN s |-> s[i].packet], [i \in DOMAIN s |-> StartOf(s, i)], c)
           = Rest(s, m)
<1> DEFINE packets == [i \in DOMAIN s |-> s[i].packet]
           positions == [i \in DOMAIN s |-> StartOf(s, i)]
           gone == {i \in DOMAIN positions : positions[i] <= c}
<1>1. s \in Seq(Script) /\ Len(s) \in Nat /\ DOMAIN s = 1 .. Len(s)
  BY ScriptFacts
<1>2. /\ positions = [i \in 1 .. Len(s) |-> StartOf(s, i)]
      /\ packets = [i \in 1 .. Len(s) |-> s[i].packet]
  BY <1>1
<1> HIDE DEF packets, positions
<1>3. gone = 1 .. m
  BY <1>2 DEF GoneBy
<1>4. Cardinality(gone) = m
  <2>1. m \in Nat
    OBVIOUS
  <2>2. Cardinality(1 .. m) = m
    <3>1. Cardinality(1 .. m) = IF 1 > m THEN 0 ELSE m - 1 + 1
      BY <2>1, FS_Interval
    <3> QED BY <2>1, <3>1
  <2> HIDE DEF gone
  <2> QED BY <1>3, <2>2
<1>5. Len(packets) = Len(s)
  BY <1>1, <1>2
<1>6. StillComing(packets, positions, c)
        = [i \in 1 .. Len(packets) - Cardinality(gone) |-> Seen(packets[i + Cardinality(gone)])]
  BY DEF StillComing
<1> HIDE DEF gone
<1>7. StillComing(packets, positions, c) = [i \in 1 .. Len(s) - m |-> Seen(packets[i + m])]
  BY <1>4, <1>5, <1>6
<1>8. \A i \in 1 .. Len(s) - m : packets[i + m] = s[i + m].packet
  <2> TAKE i \in 1 .. Len(s) - m
  <2>1. i + m \in 1 .. Len(s)
    BY <1>1
  <2> QED BY <1>2, <2>1
<1>9. StillComing(packets, positions, c) = Rest(s, m)
  BY <1>7, <1>8, Zenon DEF Rest
<1> QED
  BY <1>9 DEF packets, positions

LEMMA SeenAppended ==
  ASSUME NEW q \in Seq(Decoded), NEW p \in Decoded
  PROVE  [i \in DOMAIN Append(q, p) |-> Seen(Append(q, p)[i])]
           = Append([i \in DOMAIN q |-> Seen(q[i])], Seen(p))
<1> DEFINE S == {Seen(x) : x \in Decoded}
           f(x) == Seen(x)
           a == Append(q, p)
           b == [i \in DOMAIN q |-> f(q[i])]
           l == [i \in DOMAIN a |-> f(a[i])]
           r == Append(b, f(p))
<1>1. \A x \in Decoded : f(x) \in S
  OBVIOUS
<1> HIDE DEF S, f
<1>2. Len(q) \in Nat /\ DOMAIN q = 1 .. Len(q) /\ \A i \in 1 .. Len(q) : q[i] \in Decoded
  OBVIOUS
<1>3. /\ a \in Seq(Decoded) /\ Len(a) = Len(q) + 1 /\ DOMAIN a = 1 .. Len(q) + 1
      /\ a[Len(q) + 1] = p /\ \A i \in 1 .. Len(q) : a[i] = q[i]
  OBVIOUS
<1> HIDE DEF a
<1>4. b \in Seq(S) /\ Len(b) = Len(q) /\ \A i \in 1 .. Len(q) : b[i] = f(q[i])
  BY <1>1, <1>2
<1> HIDE DEF b
<1>5. /\ r \in Seq(S) /\ Len(r) = Len(q) + 1
      /\ r[Len(q) + 1] = f(p) /\ \A i \in 1 .. Len(q) : r[i] = b[i]
  BY <1>1, <1>2, <1>4
<1>6. \A i \in 1 .. Len(q) + 1 : a[i] \in Decoded
  BY <1>2, <1>3
<1>7. l \in Seq(S) /\ Len(l) = Len(q) + 1 /\ \A i \in 1 .. Len(q) + 1 : l[i] = f(a[i])
  BY <1>1, <1>2, <1>3, <1>6
<1> HIDE DEF l, r
<1>8. \A i \in 1 .. Len(l) : l[i] = r[i]
  <2> TAKE i \in 1 .. Len(l)
  <2>1. i \in 1 .. Len(q) \/ i = Len(q) + 1
    BY <1>2, <1>7
  <2> QED BY <1>2, <1>3, <1>4, <1>5, <1>7, <2>1
<1>9. l = r
  BY <1>5, <1>7, <1>8, SameSeq
<1> QED
  BY <1>9 DEF l, r, a, b, f

Took == [i \in DOMAIN returned |-> Seen(returned[i])]

(* Between two packets, the earlier one is the last that is gone. *)
LEMMA GoneBetween ==
  ASSUME NEW s \in Seq(Script), NEW k \in 1 .. Len(s) + 1, NEW c \in Nat,
         Between(s, k, c), NEW m \in 0 .. Len(s), GoneBy(s, c) = 1 .. m
  PROVE  m = k - 1
<1>0. Len(s) \in Nat
  OBVIOUS
<1>1. \A i \in 1 .. Len(s) : StartOf(s, i) <= c <=> i <= k - 1
  <2> TAKE i \in 1 .. Len(s)
  <2>1. CASE i <= k - 1
    <3>1. i \in 1 .. i /\ i \in 0 .. k - 1 /\ k - 1 \in 0 .. Len(s) /\ i \in 0 .. Len(s)
      BY <1>0, <2>1
    <3>2. StartOf(s, i) \in Nat /\ StartOf(s, i) < EndOf(s, i)
      BY <3>1, StartsInOrder
    <3>3. EndOf(s, i) <= EndOf(s, k - 1) /\ EndOf(s, k - 1) \in Nat /\ EndOf(s, i) \in Nat
      BY <3>1, EndsInOrder, PartType
    <3>4. EndOf(s, k - 1) <= c
      BY DEF Between
    <3> QED BY <2>1, <3>2, <3>3, <3>4
  <2>2. CASE ~ (i <= k - 1)
    <3>1. k \in 1 .. i /\ k \in 1 .. Len(s) /\ k <= Len(s)
      BY <1>0, <2>2
    <3>2. /\ StartOf(s, i) \in Nat /\ StartOf(s, k) \in Nat
          /\ k # i => StartOf(s, k) < StartOf(s, i)
      BY <3>1, StartsInOrder
    <3>3. c < StartOf(s, k)
      BY <3>1 DEF Between
    <3> QED BY <2>2, <3>2, <3>3
  <2> QED BY <2>1, <2>2
<1>2. \A i : i \in 1 .. m <=> i \in 1 .. k - 1
  <2>1. \A i : i \in GoneBy(s, c) <=> i \in 1 .. k - 1
    BY <1>0, <1>1 DEF GoneBy
  <2> QED BY <2>1, Zenon
<1>3. (k - 1 # 0 => k - 1 \in 1 .. k - 1) /\ (m # 0 => m \in 1 .. m)
  BY <1>0
<1>4. (k - 1 # 0 => k - 1 \in 1 .. m) /\ (m # 0 => m \in 1 .. k - 1)
  BY <1>2, <1>3
<1> QED
  BY <1>0, <1>4

(* Every step is one of the channel. *)
LEMMA ChannelStep ==
  ASSUME ReaderInv, ReaderPlace, Faulty => Unforged, [Next]_vars
  PROVE  Channel!Next \/ UNCHANGED <<Coming, Took>>
<1>1. PICK s \in Scripts : Comes(s) /\ (~ Faulty => InStep(s))
  BY DEF ReaderPlace
<1>2. s \in Seq(Script) /\ Len(s) \in Nat
  BY ScriptFacts
<1>3. Consumed \in Nat
  BY DEF ReaderInv, Consumed
<1>4. PICK m \in 0 .. Len(s) : GoneBy(s, Consumed) = 1 .. m
  BY <1>2, <1>3, GoneAre
<1>5. script' = script
  BY DEF Next, Probe, Parse, Fill, Drop, Closed, vars, script
<1>6. sent' = sent /\ starts' = starts
  BY <1>5 DEF script
<1>7. Consumed' \in Nat
  <2>1. readBuf' \in Seq(Byte) /\ bytesRead' \in Nat /\ swallowed' \in Nat
        /\ swallowed' <= Consumed'
    BY ReaderNext DEF ReaderInv
  <2>2. Len(readBuf') \in Nat
    BY <2>1
  <2>3. Consumed' = bytesRead' - Len(readBuf')
    BY DEF Consumed
  <2> QED BY <2>1, <2>2, <2>3
<1>8. PICK n \in 0 .. Len(s) : GoneBy(s, Consumed') = 1 .. n
  BY <1>2, <1>7, GoneAre
<1>9. Coming = Rest(s, m) /\ Coming' = Rest(s, n)
  <2>1. /\ StillComing(sent, starts, Consumed) = Rest(s, m)
        /\ StillComing(sent, starts, Consumed') = Rest(s, n)
    BY <1>1, <1>3, <1>4, <1>7, <1>8, ComingIs DEF Comes
  <2>2. /\ Coming = StillComing(sent, starts, Consumed)
        /\ Coming' = StillComing(sent', starts', Consumed')
    BY DEF Coming, StillComing
  <2> QED BY <1>6, <2>1, <2>2
(* Nothing is returned; packets may be passed over after a fault. *)
<1>10. ASSUME returned' = returned, Consumed <= Consumed', m # n => Faulty'
       PROVE  Channel!Next \/ UNCHANGED <<Coming, Took>>
  <2>1. Took' = Took
    BY <1>10 DEF Took
  <2>2. m <= n
    BY <1>2, <1>3, <1>4, <1>7, <1>8, <1>10, GoneMore
  <2>3. CASE m = n
    BY <1>9, <2>1, <2>3
  <2>4. CASE m # n
    <3> DEFINE j == n - m
    <3>1. /\ n \in m .. Len(s)
          /\ j \in DOMAIN Rest(s, m)
          /\ Rest(s, n) = SubSeq(Rest(s, m), j + 1, Len(Rest(s, m)))
      <4>1. n \in m .. Len(s)
        BY <1>2, <2>2
      <4> QED BY <1>2, <2>4, <4>1, RestDropped
    <3> HIDE DEF j
    <3>2. Coming' = SubSeq(Coming, j + 1, Len(Coming)) /\ j \in DOMAIN Coming
      BY <1>9, <3>1
    <3>3. Channel!Lose
      BY <1>10, <2>1, <2>4, <3>2 DEF Channel!Lose, Took
    <3> QED BY <3>3 DEF Channel!Next
  <2> QED BY <2>3, <2>4
<1>11. CASE Probe \/ Fill \/ Drop \/ Closed \/ UNCHANGED vars
  <2>1. /\ returned' = returned /\ Consumed <= Consumed'
        /\ ~ Faulty' => Consumed' = Consumed
    BY <1>11, OtherSteps
  <2>2. Consumed' = Consumed => m = n
    <3> SUFFICES ASSUME Consumed' = Consumed
                 PROVE  m = n
      OBVIOUS
    <3>1. m <= n /\ n <= m
      BY <1>2, <1>3, <1>4, <1>7, <1>8, GoneMore
    <3> QED BY <3>1
  <2> QED BY <1>10, <2>1, <2>2
<1>12. CASE Parse
  <2>1. Faulty' = Faulty
    BY <1>12 DEF Parse, script, Faulty
  <2>2. Advanced(s) \/ \E k \in 1 .. Len(s) : Got(s, k)
    BY <1>1, <1>12, ParsePlace
  <2>3. CASE Advanced(s)
    <3>1. ASSUME ~ Faulty
          PROVE  m = n
      <4>1. PICK k \in 1 .. Len(s) + 1 : Between(s, k, Consumed) /\ Between(s, k, Consumed')
        BY <2>3, <3>1 DEF Advanced
      <4>2. m = k - 1 /\ n = k - 1
        BY <1>2, <1>3, <1>4, <1>7, <1>8, <4>1, GoneBetween
      <4> QED BY <4>2
    <3>2. returned' = returned /\ Consumed <= Consumed'
      BY <2>3 DEF Advanced
    <3> QED BY <1>10, <2>1, <3>1, <3>2
  <2>4. CASE \E k \in 1 .. Len(s) : Got(s, k)
    <3>1. PICK k \in 1 .. Len(s) : Got(s, k)
      BY <2>4
    <3>2. PICK p \in Decoded : returned' = Append(returned, p) /\ Seen(p) = Seen(s[k].packet)
      BY <3>1 DEF Got
    <3>3. n = k
      BY <1>2, <1>8, <3>1, GoneAfter DEF Got
    <3>4. m < k
      <4>1. ASSUME k <= m
            PROVE  FALSE
        <5>1. k \in 1 .. m
          BY <4>1
        <5>2. StartOf(s, k) <= Consumed
          BY <1>4, <5>1 DEF GoneBy
        <5>3. Consumed < StartOf(s, k) /\ StartOf(s, k) \in Nat
          <6>1. k \in 1 .. k
            OBVIOUS
          <6> QED BY <1>2, <3>1, <6>1, StartsInOrder DEF Got
        <5> QED BY <1>3, <5>2, <5>3
      <4> QED BY <4>1
    <3>5. ~ Faulty => m = k - 1
      <4>1. ~ Faulty => Between(s, k, Consumed)
        BY <3>1 DEF Got
      <4>2. k \in 1 .. Len(s) + 1
        BY <1>2
      <4> QED BY <1>2, <1>3, <1>4, <4>1, <4>2, GoneBetween
    <3> DEFINE j == k - m
    <3>6. /\ j \in DOMAIN Rest(s, m) /\ Rest(s, m)[j] = Seen(s[k].packet)
          /\ Rest(s, k) = SubSeq(Rest(s, m), j + 1, Len(Rest(s, m)))
      <4>1. k \in m .. Len(s) /\ k # m
        BY <1>2, <3>4
      <4> QED BY <1>2, <4>1, RestDropped
    <3>7. j = 1 \/ Faulty'
      <4>1. m = k - 1 => k - m = 1
        OBVIOUS
      <4> QED BY <2>1, <3>5, <4>1
    <3> HIDE DEF j
    <3>8. /\ j \in DOMAIN Coming /\ Coming[j] = Seen(p)
          /\ Coming' = SubSeq(Coming, j + 1, Len(Coming))
      BY <1>9, <3>2, <3>3, <3>6
    <3>9. Took' = Append(Took, Coming[j])
      <4>1. returned \in Seq(Decoded)
        BY DEF ReaderInv
      <4>2. Took' = [i \in DOMAIN Append(returned, p) |-> Seen(Append(returned, p)[i])]
        BY <3>2, Zenon DEF Took
      <4>3. Took' = Append(Took, Seen(p))
        BY <4>1, <4>2, SeenAppended, Zenon DEF Took
      <4> QED BY <3>8, <4>3
    <3>10. Channel!Receive
      BY <3>7, <3>8, <3>9, Zenon DEF Channel!Receive, Took
    <3> QED BY <3>10 DEF Channel!Next
  <2> QED BY <2>2, <2>3, <2>4
<1> QED
  BY <1>11, <1>12 DEF Next

(* The reader implements the channel the link works on: what it returns    *)
(* was sent, unchanged and in the order of sending, and nothing is missing *)
(* while no byte was damaged or swallowed.  After a fault that needs bytes *)
(* in which nothing but the packets that were sent can be found; without   *)
(* one the format itself sees to it.                                       *)
THEOREM ReaderIsChannel ==
  Spec /\ [](Faulty => Unforged) => ReadsWhatWasSent
<1>1. Init => ReaderInv /\ ReaderPlace
  BY ReaderInit, PlaceInit
<1>2. ReaderInv /\ ReaderPlace /\ [Next]_vars => (ReaderInv /\ ReaderPlace)'
  BY ReaderNext, PlaceNext
<1>3. ReaderInv /\ ReaderPlace /\ (Faulty => Unforged) /\ [Next]_vars
        => [Channel!Next]_<<Coming, Took>>
  BY ChannelStep
<1>4. Init => Channel!Init
  <2>1. Init => Took = <<>>
    <3> SUFFICES ASSUME Init
                 PROVE  Took = <<>>
      OBVIOUS
    <3>1. returned = <<>>
      BY DEF Init
    <3>2. DOMAIN returned = {}
      BY <3>1
    <3> QED BY <3>2 DEF Took
  <2> QED BY <2>1 DEF Channel!Init, Took
<1> QED
  BY <1>1, <1>2, <1>3, <1>4, PTL DEF Spec, ReadsWhatWasSent, Channel!Spec, Took

(* While no byte is damaged and the probe swallows none, read_packet       *)
(* returns every packet, unchanged and in order, with any noise between    *)
(* them, any split of the stream and any reads dropped.                    *)
THEOREM IntactIsChannel ==
  Spec /\ []~Faulty => ReadsWhatWasSent
<1>1. ~ Faulty => (Faulty => Unforged)
  OBVIOUS
<1> QED
  BY <1>1, ReaderIsChannel, PTL
=============================================================================
