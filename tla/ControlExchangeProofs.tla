----------------------- MODULE ControlExchangeProofs -----------------------
(***************************************************************************)
(* What the accessory understands of a device and the application shows of *)
(* it, and what the device learns from the messages of the accessory, for  *)
(* every configuration, challenge, change and addition.                    *)
(*                                                                         *)
(* parse_parameters is a recursive function of what it is given.  That it  *)
(* exists comes first; then what it does on parameters written one behind  *)
(* the other; then what parse makes of an update, and the readers of       *)
(* connection.rs and auth.rs of the other messages; then what the messages *)
(* of control.rs hold; and at last the steps of ControlExchange.           *)
(***************************************************************************)
EXTENDS ControlExchange, SequenceLemmas, FiniteSetTheorems

LEMMA IntRange ==
  ASSUME NEW a \in Int, NEW b \in Int, NEW n \in a .. b
  PROVE  n \in Int /\ a <= n /\ n <= b
OBVIOUS

LEMMA ByteRange ==
  ASSUME NEW n \in Byte
  PROVE  n \in Nat /\ 0 <= n /\ n <= 255
BY DEF Byte

-----------------------------------------------------------------------------
(* parse_parameters                                                        *)

(* The loop ends at a position, or finds a parameter there. *)
EndsAt(d, i) == i + 3 > Len(d) \/ ~ Fits(U16At(d, i), Len(d) - i + 1)

FoundAt(d, i) ==
  [id |-> U16At(d, i + 2), payload |-> SubSeq(d, i + 4, i + U16At(d, i) - 1)]

Turn(f, d, i) == IF EndsAt(d, i) THEN <<>> ELSE <<FoundAt(d, i)>> \o f[i + U16At(d, i)]

ParserOf(f, d) == f = [i \in 1 .. Len(d) + 1 |-> Turn(f, d, i)]

U16s == {n \in Nat : n <= 65535}

LEMMA TwoBytes ==
  ASSUME NEW a \in Byte, NEW b \in Byte
  PROVE  256 * a + b \in Nat /\ 256 * a + b \in U16s
<1>1. a \in Nat /\ a <= 255 /\ b \in Nat /\ b <= 255
  BY ByteRange
<1>2. 256 * a + b \in Nat /\ 256 * a + b <= 65535
  BY <1>1
<1> QED
  BY <1>2 DEF U16s

LEMMA NumberType ==
  ASSUME NEW d \in Seq(Byte), NEW i \in 1 .. Len(d) - 1
  PROVE  U16At(d, i) \in Nat /\ U16At(d, i) \in U16s
<1>1. d[i] \in Byte /\ d[i + 1] \in Byte
  OBVIOUS
<1> DEFINE a == d[i]
           b == d[i + 1]
<1>3. U16At(d, i) = 256 * a + b
  BY DEF U16At
<1>2. 256 * a + b \in Nat /\ 256 * a + b \in U16s
  BY <1>1, TwoBytes
<1> HIDE DEF a, b
<1> QED
  BY <1>2, <1>3, Zenon

LEMMA Goes ==
  ASSUME NEW d \in Seq(Byte), NEW i \in 1 .. Len(d) + 1, ~ EndsAt(d, i)
  PROVE  /\ i + 3 <= Len(d) /\ U16At(d, i) \in Nat /\ U16At(d, i) >= 4
         /\ i + U16At(d, i) \in i + 4 .. Len(d) + 1
         /\ FoundAt(d, i) \in [id : U16s, payload : Seq(Byte)]
<1>1. i + 3 <= Len(d) /\ Fits(U16At(d, i), Len(d) - i + 1)
  BY DEF EndsAt
<1>2. i \in 1 .. Len(d) - 1 /\ i + 2 \in 1 .. Len(d) - 1
  BY <1>1
<1>3. U16At(d, i) \in Nat /\ U16At(d, i + 2) \in U16s
  BY <1>2, NumberType
<1> DEFINE n == U16At(d, i)
<1>4. n \in Nat /\ n >= 4 /\ n <= Len(d) - i + 1
  BY <1>1, <1>3 DEF Fits
<1> HIDE DEF n
<1>5. i + n \in i + 4 .. Len(d) + 1 /\ i + 4 \in 1 .. Len(d) + 1
      /\ i + n - 1 \in i + 4 - 1 .. Len(d)
  BY <1>1, <1>4
<1>6. SubSeq(d, i + 4, i + n - 1) \in Seq(Byte)
  BY <1>5, PieceType
<1>7. FoundAt(d, i) \in [id : U16s, payload : Seq(Byte)]
  <2> DEFINE p == SubSeq(d, i + 4, i + n - 1)
  <2>1. p \in Seq(Byte)
    BY <1>6
  <2>2. FoundAt(d, i) = [id |-> U16At(d, i + 2), payload |-> p]
    BY DEF FoundAt, n
  <2> HIDE DEF p
  <2> QED BY <2>1, <2>2, <1>3
<1> QED
  BY <1>1, <1>4, <1>5, <1>7 DEF n

(* The recursive function of ParseParameters exists: it is built from the  *)
(* end.                                                                    *)
LEMMA ParserExists ==
  ASSUME NEW d \in Seq(Byte)
  PROVE  \E f : ParserOf(f, d)
<1> DEFINE N == Len(d)
           From(m) == \E f : f = [i \in N + 2 - m .. N + 1 |-> Turn(f, d, i)]
           T == {m \in 0 .. N + 1 : ~ From(m)}
<1>1. T = {}
  <2> SUFFICES ASSUME T # {} PROVE FALSE
    OBVIOUS
  <2>1. T \in SUBSET Nat
    OBVIOUS
  <2>2. PICK m \in T : \A l \in T : m <= l
    <3> HIDE DEF T
    <3> QED BY <2>1, LeastNat
  <2>3. m \in 0 .. N + 1 /\ ~ From(m) /\ N \in Nat
    OBVIOUS
  <2>4. CASE m = 0
    <3>1. N + 2 - m .. N + 1 = {}
      BY <2>3, <2>4
    <3> DEFINE f == [i \in {} |-> 0]
    <3>2. f = [i \in N + 2 - m .. N + 1 |-> Turn(f, d, i)]
      BY <3>1
    <3> QED BY <3>2, <2>3
  <2>5. CASE m > 0
    <3> DEFINE a == N + 2 - m
    <3>1. m - 1 \in 0 .. N + 1 /\ ~ (m <= m - 1) /\ N + 2 - (m - 1) = a + 1 /\ a \in 1 .. N + 1
      BY <2>3, <2>5
    <3>2. PICK h : h = [i \in a + 1 .. N + 1 |-> Turn(h, d, i)]
      <4>1. m - 1 \notin T
        <5> HIDE DEF T
        <5> QED BY <3>1, <2>2
      <4>2. From(m - 1)
        BY <4>1, <3>1
      <4> HIDE DEF a
      <4> QED BY <4>2, <3>1
    <3> DEFINE f == [i \in a .. N + 1 |-> IF i = a THEN Turn(h, d, a) ELSE h[i]]
    <3> HIDE DEF a
    <3>3. f[a] = Turn(h, d, a) /\ \A i \in a + 1 .. N + 1 : f[i] = h[i]
      <4>1. a \in a .. N + 1 /\ \A i \in a + 1 .. N + 1 : i \in a .. N + 1 /\ i # a
        BY <3>1
      <4> QED BY <4>1
    <3>4. f = [i \in a .. N + 1 |-> f[i]]
      OBVIOUS
    <3> HIDE DEF f
    <3>5. ASSUME NEW i \in a .. N + 1 PROVE f[i] = Turn(f, d, i)
      <4>0. i \in 1 .. Len(d) + 1
        BY <3>1
      <4>1. ~ EndsAt(d, i) => i + U16At(d, i) \in a + 1 .. N + 1
        <5> SUFFICES ASSUME ~ EndsAt(d, i) PROVE i + U16At(d, i) \in a + 1 .. N + 1
          OBVIOUS
        <5>1. i + U16At(d, i) \in i + 4 .. Len(d) + 1
          BY <4>0, Goes
        <5> DEFINE z == i + U16At(d, i)
        <5> HIDE DEF z
        <5>2. z \in i + 4 .. Len(d) + 1
          BY <5>1 DEF z
        <5>3. z \in a + 1 .. N + 1
          BY <5>2, <3>1
        <5> QED BY <5>3 DEF z
      <4>2. Turn(f, d, i) = Turn(h, d, i)
        <5>1. ~ EndsAt(d, i) => f[i + U16At(d, i)] = h[i + U16At(d, i)]
          BY <4>1, <3>3
        <5> QED BY <5>1, Zenon DEF Turn
      <4>3. f[i] = Turn(h, d, i)
        <5>1. CASE i = a
          BY <5>1, <3>3
        <5>2. CASE i # a
          <6>1. i \in a + 1 .. N + 1
            BY <5>2, <3>1
          <6>2. h[i] = Turn(h, d, i)
            BY <6>1, <3>2
          <6> QED BY <6>1, <6>2, <3>3
        <5> QED BY <5>1, <5>2
      <4> QED BY <4>2, <4>3
    <3>6. f = [i \in a .. N + 1 |-> Turn(f, d, i)]
      BY <3>4, <3>5, Zenon
    <3> QED BY <3>6, <2>3 DEF a
  <2> QED BY <2>3, <2>4, <2>5
<1>2. From(N + 1)
  <2>1. N + 1 \in 0 .. N + 1
    OBVIOUS
  <2> HIDE DEF From, N
  <2> QED BY <1>1, <2>1
<1>3. N + 2 - (N + 1) = 1
  OBVIOUS
<1> QED
  BY <1>2, <1>3 DEF ParserOf

LEMMA ParseIs ==
  ASSUME NEW d \in Seq(Byte)
  PROVE  \E f : ParserOf(f, d) /\ ParseParameters(d) = f[1]
<1> DEFINE
     OneTurn(f, i) ==
       IF i + 3 > Len(d) THEN <<>>
       ELSE LET length == U16At(d, i)
            IN  IF ~ Fits(length, Len(d) - i + 1) THEN <<>>
                ELSE <<[id |-> U16At(d, i + 2),
                        payload |-> SubSeq(d, i + 4, i + length - 1)]>>
                       \o f[i + length]
     Eq(f) ==
       f = [i \in 1 .. Len(d) + 1 |->
             IF i + 3 > Len(d) THEN <<>>
             ELSE LET length == U16At(d, i)
                  IN  IF ~ Fits(length, Len(d) - i + 1) THEN <<>>
                      ELSE <<[id |-> U16At(d, i + 2),
                              payload |-> SubSeq(d, i + 4, i + length - 1)]>>
                             \o f[i + length]]
     c == CHOOSE f : Eq(f)
<1>1. ParseParameters(d) = c[1]
  BY Zenon DEF ParseParameters
<1>2. \A f, i : OneTurn(f, i) = Turn(f, d, i)
  BY Zenon DEF Turn, EndsAt, FoundAt
<1>3. \A f : Eq(f) <=> f = [i \in 1 .. Len(d) + 1 |-> OneTurn(f, i)]
  BY Zenon
<1>4. \A f : Eq(f) <=> ParserOf(f, d)
  <2> HIDE DEF Eq, OneTurn
  <2> QED BY <1>2, <1>3, Zenon DEF ParserOf
<1>5. Eq(c)
  <2> HIDE DEF Eq
  <2> QED BY <1>4, ParserExists, Zenon
<1> HIDE DEF c, Eq
<1> QED
  BY <1>1, <1>4, <1>5

(* On a rest of the bytes the loop does what it does there in all of them. *)
LEMMA SameAt ==
  ASSUME NEW d \in Seq(Byte), NEW j \in 1 .. Len(d) + 1, NEW i \in j .. Len(d) + 1
  PROVE  LET t == SubSeq(d, j, Len(d))
             k == i - j + 1
         IN  /\ t \in Seq(Byte) /\ Len(t) = Len(d) - j + 1 /\ k \in 1 .. Len(t) + 1
             /\ EndsAt(t, k) <=> EndsAt(d, i)
             /\ ~ EndsAt(d, i) => U16At(t, k) = U16At(d, i) /\ FoundAt(t, k) = FoundAt(d, i)
<1> DEFINE N == Len(d)
           t == SubSeq(d, j, N)
           k == i - j + 1
<1>1. N \in Nat /\ j \in Nat /\ i \in Nat /\ j >= 1 /\ j <= i /\ i <= N + 1
  OBVIOUS
<1>2. /\ t \in Seq(Byte) /\ Len(t) = N - j + 1
      /\ \A l \in 1 .. N - j + 1 : t[l] = d[j + l - 1]
  <2>1. N \in j - 1 .. N
    BY <1>1
  <2> QED BY <2>1, PieceType
<1>3. k \in Nat /\ k >= 1 /\ k \in 1 .. Len(t) + 1 /\ j + k - 1 = i
  BY <1>1, <1>2
<1>4. ASSUME i + 3 <= N
      PROVE  /\ U16At(t, k) = U16At(d, i) /\ U16At(t, k + 2) = U16At(d, i + 2)
  <2> HIDE DEF t
  <2> USE DEF U16At
  <2>1. \A l \in {0, 1, 2, 3} : t[k + l] = d[i + l]
    <3> TAKE l \in {0, 1, 2, 3}
    <3>1. k + l \in 1 .. N - j + 1 /\ j + (k + l) - 1 = i + l
      BY <1>1, <1>4
    <3> QED BY <3>1, <1>2
  <2>2. t[k] = d[i] /\ t[k + 1] = d[i + 1] /\ t[k + 2] = d[i + 2] /\ t[k + 2 + 1] = d[i + 2 + 1]
    <3>1. t[k + 0] = d[i + 0] /\ t[k + 1] = d[i + 1] /\ t[k + 2] = d[i + 2] /\ t[k + 3] = d[i + 3]
      BY <2>1
    <3>2. k + 0 = k /\ i + 0 = i /\ k + 3 = k + 2 + 1 /\ i + 3 = i + 2 + 1
      BY <1>1
    <3> HIDE DEF k
    <3> QED BY <3>1, <3>2
  <2> HIDE DEF k
  <2> QED BY <2>2
<1>5. k + 3 > Len(t) <=> i + 3 > N
  BY <1>1, <1>2
<1>6. Len(t) - k + 1 = N - i + 1
  BY <1>1, <1>2
<1> HIDE DEF t, k
<1>7. EndsAt(t, k) <=> EndsAt(d, i)
  <2>1. CASE i + 3 > N
    BY <2>1, <1>5 DEF EndsAt
  <2>2. CASE ~ (i + 3 > N)
    <3>1. U16At(t, k) = U16At(d, i)
      BY <2>2, <1>1, <1>4
    <3> QED BY <2>2, <3>1, <1>5, <1>6 DEF EndsAt
  <2> QED BY <2>1, <2>2
<1>8. ASSUME ~ EndsAt(d, i)
      PROVE  U16At(t, k) = U16At(d, i) /\ FoundAt(t, k) = FoundAt(d, i)
  <2> DEFINE n == U16At(d, i)
  <2>1. i + 3 <= N /\ n \in Nat /\ n >= 4 /\ i + n \in i + 4 .. N + 1
    BY <1>8, <1>1, Goes
  <2>2. U16At(t, k) = n /\ U16At(t, k + 2) = U16At(d, i + 2)
    BY <2>1, <1>4
  <2> HIDE DEF n
  <2>3. /\ N \in j - 1 .. N /\ k + 4 \in 1 .. N - j + 2
        /\ k + n - 1 \in k + 4 - 1 .. N - j + 1
        /\ j + (k + 4) - 1 = i + 4 /\ j + (k + n - 1) - 1 = i + n - 1
    BY <2>1, <1>1, <1>2, <1>3
  <2>4. SubSeq(t, k + 4, k + n - 1) = SubSeq(d, i + 4, i + n - 1)
    <3> DEFINE a == k + 4
               b == k + n - 1
    <3>1. a \in 1 .. N - j + 2 /\ b \in a - 1 .. N - j + 1
      BY <2>3, <2>1, <1>1, <1>3
    <3>2. j + a - 1 = i + 4 /\ j + b - 1 = i + n - 1
      BY <2>1, <1>1, <1>3
    <3> HIDE DEF a, b
    <3>3. SubSeq(t, a, b) = SubSeq(d, j + a - 1, j + b - 1)
      BY <2>3, <3>1, PieceOfPiece DEF t
    <3> QED BY <3>2, <3>3 DEF a, b
  <2>5. FoundAt(t, k) = FoundAt(d, i)
    <3>1. FoundAt(t, k) = [id |-> U16At(t, k + 2), payload |-> SubSeq(t, k + 4, k + n - 1)]
      BY <2>2 DEF FoundAt
    <3>2. FoundAt(d, i) = [id |-> U16At(d, i + 2), payload |-> SubSeq(d, i + 4, i + n - 1)]
      BY DEF FoundAt, n
    <3> QED BY <2>2, <2>4, <3>1, <3>2
  <2> QED BY <2>2, <2>5 DEF n
<1> QED
  BY <1>2, <1>3, <1>7, <1>8 DEF t, k

LEMMA ParsedLater ==
  ASSUME NEW d \in Seq(Byte), NEW j \in 1 .. Len(d) + 1, NEW f, NEW h,
         ParserOf(f, d), ParserOf(h, SubSeq(d, j, Len(d)))
  PROVE  \A i \in j .. Len(d) + 1 : f[i] = h[i - j + 1]
<1> DEFINE N == Len(d)
           t == SubSeq(d, j, Len(d))
           T == {k \in 0 .. N + 1 - j : f[N + 1 - k] # h[N + 1 - k - j + 1]}
<1>1. N \in Nat
  OBVIOUS
<1>2. T = {}
  <2> SUFFICES ASSUME T # {} PROVE FALSE
    OBVIOUS
  <2>1. T \in SUBSET Nat
    BY <1>1
  <2>2. PICK k \in T : \A l \in T : k <= l
    <3> HIDE DEF T
    <3> QED BY <2>1, LeastNat
  <2> DEFINE i == N + 1 - k
             m == i - j + 1
  <2>3. i \in j .. N + 1 /\ i \in 1 .. N + 1
    BY <1>1
  <2>4. f[i] # h[m] /\ k \in 0 .. N + 1 - j
    OBVIOUS
  <2>5. f[i] = Turn(f, d, i)
    <3> HIDE DEF i
    <3> QED BY <2>3 DEF ParserOf
  <2>6. /\ t \in Seq(Byte) /\ Len(t) = N - j + 1 /\ m \in 1 .. Len(t) + 1
        /\ EndsAt(t, m) <=> EndsAt(d, i)
        /\ ~ EndsAt(d, i) => U16At(t, m) = U16At(d, i) /\ FoundAt(t, m) = FoundAt(d, i)
    <3> HIDE DEF i
    <3> QED BY <2>3, SameAt
  <2>7. h[m] = Turn(h, t, m)
    <3> HIDE DEF m, t
    <3>1. ParserOf(h, t)
      BY DEF t
    <3> QED BY <2>6, <3>1 DEF ParserOf
  <2>8. CASE EndsAt(d, i)
    <3> HIDE DEF i, m, t
    <3> QED BY <2>4, <2>5, <2>6, <2>7, <2>8 DEF Turn
  <2>9. CASE ~ EndsAt(d, i)
    <3> DEFINE n == U16At(d, i)
               z == i + n
               l == N + 1 - z
    <3>1. n \in Nat /\ z \in i + 4 .. N + 1
      <4> HIDE DEF i
      <4> QED BY <2>3, <2>9, Goes
    <3> HIDE DEF n
    <3>2. l \in 0 .. N + 1 - j /\ ~ (k <= l) /\ N + 1 - l = z /\ N + 1 - l - j + 1 = m + n
      <4> HIDE DEF T
      <4> QED BY <3>1, <2>3, <2>4, <1>1
    <3>3. l \notin T
      <4> HIDE DEF T, l
      <4> QED BY <2>2, <3>2
    <3>4. f[z] = h[m + n]
      <4> HIDE DEF z, m
      <4> QED BY <3>2, <3>3
    <3> HIDE DEF i, m, t, z, T
    <3>5. Turn(f, d, i) = <<FoundAt(d, i)>> \o f[z]
      BY <2>9, Zenon DEF Turn, z, n
    <3>6. Turn(h, t, m) = <<FoundAt(d, i)>> \o h[m + n]
      <4>1. ~ EndsAt(t, m) /\ U16At(t, m) = n /\ FoundAt(t, m) = FoundAt(d, i)
        BY <2>6, <2>9 DEF n
      <4> QED BY <4>1, Zenon DEF Turn
    <3> QED BY <2>4, <2>5, <2>7, <3>4, <3>5, <3>6, Zenon
  <2> QED BY <2>8, <2>9
<1>3. ASSUME NEW i \in j .. Len(d) + 1 PROVE f[i] = h[i - j + 1]
  <2> DEFINE k == N + 1 - i
  <2>1. k \in 0 .. N + 1 - j /\ N + 1 - k = i
    BY <1>1
  <2>2. k \notin T
    <3> HIDE DEF k, T
    <3> QED BY <1>2
  <2> QED BY <2>1, <2>2
<1> QED
  BY <1>3

(* The first parameter, then those behind it. *)
LEMMA ParseTurn ==
  ASSUME NEW d \in Seq(Byte)
  PROVE  ParseParameters(d) =
           IF EndsAt(d, 1) THEN <<>>
           ELSE <<FoundAt(d, 1)>> \o ParseParameters(SubSeq(d, 1 + U16At(d, 1), Len(d)))
<1>1. PICK f : ParserOf(f, d) /\ ParseParameters(d) = f[1]
  BY ParseIs
<1>2. 1 \in 1 .. Len(d) + 1
  OBVIOUS
<1>3. f[1] = Turn(f, d, 1)
  BY <1>1, <1>2 DEF ParserOf
<1>4. CASE EndsAt(d, 1)
  BY <1>1, <1>3, <1>4 DEF Turn
<1>5. CASE ~ EndsAt(d, 1)
  <2> DEFINE z == 1 + U16At(d, 1)
             t == SubSeq(d, z, Len(d))
  <2>1. z \in 1 .. Len(d) + 1 /\ z \in z .. Len(d) + 1 /\ z - z + 1 = 1
    <3>1. U16At(d, 1) \in Nat /\ 1 + U16At(d, 1) \in 1 + 4 .. Len(d) + 1
      BY <1>2, <1>5, Goes
    <3> QED BY <3>1
  <2> HIDE DEF z
  <2>2. t \in Seq(Byte)
    BY <2>1, PieceType
  <2>3. PICK h : ParserOf(h, t) /\ ParseParameters(t) = h[1]
    <3> HIDE DEF t
    <3> QED BY <2>2, ParseIs
  <2>4. f[z] = h[1]
    <3>1. f[z] = h[z - z + 1]
      BY <1>1, <2>1, <2>3, ParsedLater
    <3> QED BY <2>1, <3>1
  <2>5. Turn(f, d, 1) = <<FoundAt(d, 1)>> \o f[z]
    BY <1>5, Zenon DEF Turn, z
  <2> HIDE DEF t
  <2>6. ParseParameters(d) = <<FoundAt(d, 1)>> \o ParseParameters(t)
    BY <1>1, <1>3, <2>3, <2>4, <2>5, Zenon
  <2> QED BY <1>5, <2>6 DEF t, z
<1> QED
  BY <1>4, <1>5

Param == [id : U16s, payload : Seq(Byte)]

LEMMA ParseType ==
  ASSUME NEW b \in Seq(Byte)
  PROVE  ParseParameters(b) \in Seq(Param)
<1> DEFINE T == {n \in Nat : \E d \in Seq(Byte) : Len(d) = n /\ ParseParameters(d) \notin Seq(Param)}
<1>1. T = {}
  <2> SUFFICES ASSUME T # {} PROVE FALSE
    OBVIOUS
  <2>1. T \in SUBSET Nat
    OBVIOUS
  <2>2. PICK n \in T : \A l \in T : n <= l
    <3> HIDE DEF T
    <3> QED BY <2>1, LeastNat
  <2>3. PICK d \in Seq(Byte) : Len(d) = n /\ ParseParameters(d) \notin Seq(Param)
    OBVIOUS
  <2>4. 1 \in 1 .. Len(d) + 1 /\ n \in Nat
    OBVIOUS
  <2>5. CASE EndsAt(d, 1)
    <3>1. ParseParameters(d) = <<>>
      BY <2>5, ParseTurn
    <3> QED BY <2>3, <3>1
  <2>6. CASE ~ EndsAt(d, 1)
    <3> DEFINE z == 1 + U16At(d, 1)
               t == SubSeq(d, z, Len(d))
               p == FoundAt(d, 1)
               r == ParseParameters(t)
    <3>1. ParseParameters(d) = <<p>> \o r
      BY <2>6, ParseTurn
    <3>2. p \in Param /\ z \in 5 .. Len(d) + 1
      <4>1. U16At(d, 1) \in Nat /\ z \in 1 + 4 .. Len(d) + 1 /\ p \in Param
        BY <2>4, <2>6, Goes DEF Param
      <4> QED BY <4>1
    <3> HIDE DEF z, p
    <3>3. t \in Seq(Byte) /\ Len(t) = n - z + 1
      <4>1. z \in 1 .. Len(d) + 1 /\ Len(d) \in z - 1 .. Len(d)
        BY <3>2
      <4> QED BY <4>1, <2>3, PieceType
    <3>4. Len(t) \in Nat /\ ~ (n <= Len(t))
      <4> HIDE DEF t
      <4> QED BY <2>3, <2>4, <3>2, <3>3
    <3>5. r \in Seq(Param)
      <4> HIDE DEF t
      <4>1. Len(t) \notin T
        <5> HIDE DEF T
        <5> QED BY <3>4, <2>2
      <4> QED BY <4>1, <3>3, <3>4
    <3> HIDE DEF r
    <3>6. <<p>> \o r \in Seq(Param)
      <4>1. <<p>> \in Seq(Param)
        BY <3>2
      <4> QED BY <4>1, <3>5, Joined
    <3> QED BY <2>3, <3>1, <3>6
  <2> QED BY <2>5, <2>6
<1>2. Len(b) \in Nat
  OBVIOUS
<1> QED
  BY <1>1, <1>2

-----------------------------------------------------------------------------
(* What is written is read                                                 *)

LEMMA U16Type ==
  ASSUME NEW n \in Nat
  PROVE  /\ U16(n) \in Seq(Byte) /\ Len(U16(n)) = 2
         /\ U16(n)[1] = (n \div 256) % 256 /\ U16(n)[2] = n % 256
<1> DEFINE a == (n \div 256) % 256
           b == n % 256
<1>1. a \in Int /\ 0 <= a /\ a <= 255 /\ b \in Int /\ 0 <= b /\ b <= 255
  OBVIOUS
<1>2. a \in Byte /\ b \in Byte
  <2> HIDE DEF a, b
  <2> QED BY <1>1 DEF Byte
<1> HIDE DEF a, b
<1>3. <<a, b>> \in Seq(Byte) /\ Len(<<a, b>>) = 2 /\ <<a, b>>[1] = a /\ <<a, b>>[2] = b
  BY <1>2
<1> QED
  BY <1>3 DEF U16, a, b

LEMMA U16Read ==
  ASSUME NEW n \in U16s, NEW d \in Seq(Byte), NEW i \in 1 .. Len(d) - 1,
         d[i] = U16(n)[1], d[i + 1] = U16(n)[2]
  PROVE  U16At(d, i) = n
<1>1. n \in Nat /\ n <= 65535
  BY DEF U16s
<1> DEFINE q == n \div 256
<1>2. q \in Nat /\ q <= 255 /\ n = 256 * q + (n % 256)
  BY <1>1
<1>3. q % 256 = q
  <2> HIDE DEF q
  <2> QED BY <1>2
<1>4. d[i] = q /\ d[i + 1] = n % 256
  <2>1. U16(n)[1] = q % 256 /\ U16(n)[2] = n % 256
    BY <1>1, U16Type
  <2> HIDE DEF q
  <2> QED BY <2>1, <1>3
<1>5. U16At(d, i) = 256 * q + (n % 256)
  <2> HIDE DEF q
  <2> QED BY <1>4 DEF U16At
<1> QED
  BY <1>2, <1>5

(* The bytes of a parameter, by position. *)
LEMMA SizedBytes ==
  ASSUME NEW n \in Nat, NEW id \in Nat, NEW p \in Seq(Byte)
  PROVE  LET d == Sized(n, id, p)
         IN  /\ d \in Seq(Byte) /\ Len(d) = 4 + Len(p)
             /\ d[1] = U16(n)[1] /\ d[2] = U16(n)[2]
             /\ d[3] = U16(id)[1] /\ d[4] = U16(id)[2]
             /\ \A i \in 1 .. Len(p) : d[4 + i] = p[i]
<1> DEFINE a == U16(n)
           b == U16(id)
           ab == a \o b
           d == ab \o p
<1>1. a \in Seq(Byte) /\ Len(a) = 2 /\ b \in Seq(Byte) /\ Len(b) = 2
  <2>1. \A k \in Nat : U16(k) \in Seq(Byte) /\ Len(U16(k)) = 2
    BY U16Type, Zenon
  <2> QED BY <2>1
<1>0. Sized(n, id, p) = d
  <2>1. Sized(n, id, p) = a \o (b \o p)
    BY DEF Sized
  <2> HIDE DEF a, b
  <2>2. a \in Seq(Byte) /\ b \in Seq(Byte)
    BY <1>1
  <2> HIDE DEF a, b
  <2>3. a \o (b \o p) = (a \o b) \o p
    BY <2>2, JoinedThree
  <2> QED BY <2>1, <2>3
<1> HIDE DEF a, b
<1>2. /\ ab \in Seq(Byte) /\ Len(ab) = 4 /\ ab[1] = a[1] /\ ab[2] = a[2]
      /\ ab[3] = b[1] /\ ab[4] = b[2]
  <2>1. /\ ab \in Seq(Byte) /\ Len(ab) = Len(a) + Len(b)
        /\ \A i \in 1 .. Len(a) : ab[i] = a[i]
        /\ \A i \in 1 .. Len(b) : ab[Len(a) + i] = b[i]
    <3>1. a \in Seq(Byte) /\ b \in Seq(Byte)
      BY <1>1
    <3> QED BY <3>1, Joined
  <2> HIDE DEF ab
  <2> QED BY <2>1, <1>1
<1> HIDE DEF ab
<1>3. /\ d \in Seq(Byte) /\ Len(d) = Len(ab) + Len(p)
      /\ \A i \in 1 .. Len(ab) : d[i] = ab[i]
      /\ \A i \in 1 .. Len(p) : d[Len(ab) + i] = p[i]
  <2>1. ab \in Seq(Byte)
    BY <1>2
  <2> QED BY <2>1, Joined
<1> HIDE DEF d
<1>4. /\ d \in Seq(Byte) /\ Len(d) = 4 + Len(p)
      /\ d[1] = a[1] /\ d[2] = a[2] /\ d[3] = b[1] /\ d[4] = b[2]
      /\ \A i \in 1 .. Len(p) : d[4 + i] = p[i]
  BY <1>2, <1>3
<1> QED
  BY <1>0, <1>4 DEF a, b

(* A parameter that has nothing in front of it is read first. *)
LEMMA FirstRead ==
  ASSUME NEW id \in U16s, NEW p \in Seq(Byte), Len(p) + 4 \in U16s, NEW r \in Seq(Byte)
  PROVE  ParseParameters(Parameter(id, p) \o r)
           = <<[id |-> id, payload |-> p]>> \o ParseParameters(r)
<1> DEFINE n == Len(p) + 4
           e == Sized(n, id, p)
           d == e \o r
<1>1. n \in U16s /\ n \in Nat /\ id \in Nat /\ n = Len(p) + 4 /\ Len(p) \in Nat
  BY DEF U16s
<1> HIDE DEF n
<1>2. Parameter(id, p) = e
  BY DEF Parameter, n
<1>3. /\ e \in Seq(Byte) /\ Len(e) = n
      /\ e[1] = U16(n)[1] /\ e[2] = U16(n)[2]
      /\ e[3] = U16(id)[1] /\ e[4] = U16(id)[2]
      /\ \A i \in 1 .. Len(p) : e[4 + i] = p[i]
  <2>1. /\ e \in Seq(Byte) /\ Len(e) = 4 + Len(p)
        /\ e[1] = U16(n)[1] /\ e[2] = U16(n)[2]
        /\ e[3] = U16(id)[1] /\ e[4] = U16(id)[2]
        /\ \A i \in 1 .. Len(p) : e[4 + i] = p[i]
    BY <1>1, SizedBytes
  <2> HIDE DEF e
  <2> QED BY <2>1, <1>1
<1> HIDE DEF e
<1>4. /\ d \in Seq(Byte) /\ Len(d) = n + Len(r) /\ Len(r) \in Nat
      /\ \A i \in 1 .. n : d[i] = e[i]
  <2>1. /\ d \in Seq(Byte) /\ Len(d) = Len(e) + Len(r)
        /\ \A i \in 1 .. Len(e) : d[i] = e[i]
    <3>1. e \in Seq(Byte)
      BY <1>3
    <3> QED BY <3>1, Joined
  <2> HIDE DEF d
  <2> QED BY <2>1, <1>3
<1>5. SubSeq(d, 1 + n, Len(d)) = r
  <2>1. Len(e) + 1 \in 1 .. Len(e) + 1
    BY <1>1, <1>3
  <2>2. SubSeq(d, Len(e) + 1, Len(e) + Len(r)) = SubSeq(e, Len(e) + 1, Len(e)) \o r
    BY <2>1, <1>3, PieceOfJoined
  <2>3. SubSeq(e, Len(e) + 1, Len(e)) = <<>>
    BY <1>3
  <2>4. <<>> \o r = r
    OBVIOUS
  <2>5. Len(e) + 1 = 1 + n /\ Len(e) + Len(r) = Len(d)
    BY <1>1, <1>3, <1>4
  <2> HIDE DEF d
  <2> QED BY <2>2, <2>3, <2>4, <2>5
<1> HIDE DEF d
<1>6. U16At(d, 1) = n /\ U16At(d, 3) = id
  <2>1. 1 \in 1 .. Len(d) - 1 /\ 3 \in 1 .. Len(d) - 1
    BY <1>1, <1>4
  <2>2. d[1] = U16(n)[1] /\ d[2] = U16(n)[2] /\ d[3] = U16(id)[1] /\ d[4] = U16(id)[2]
    BY <1>1, <1>3, <1>4
  <2>3. 1 + 1 = 2 /\ 3 + 1 = 4
    OBVIOUS
  <2> QED BY <2>1, <2>2, <2>3, <1>1, <1>4, U16Read
<1>7. ~ EndsAt(d, 1)
  <2>1. ~ (1 + 3 > Len(d)) /\ n \in 4 .. Len(d) - 1 + 1
    BY <1>1, <1>4
  <2> QED BY <2>1, <1>6 DEF EndsAt, Fits
<1>8. SubSeq(d, 1 + 4, 1 + n - 1) = p
  <2> DEFINE q == SubSeq(d, 5, n)
  <2>1. 5 \in 1 .. Len(d) + 1 /\ n \in 5 - 1 .. Len(d)
    BY <1>1, <1>4
  <2>2. q \in Seq(Byte) /\ Len(q) = n - 5 + 1 /\ \A i \in 1 .. n - 5 + 1 : q[i] = d[5 + i - 1]
    BY <2>1, <1>4, PieceType
  <2> HIDE DEF q
  <2>3. Len(q) = Len(p) /\ \A i \in 1 .. Len(q) : q[i] = p[i]
    <3>1. Len(q) = Len(p) /\ n - 5 + 1 = Len(p)
      BY <2>2, <1>1
    <3>2. ASSUME NEW i \in 1 .. Len(q) PROVE q[i] = p[i]
      <4>1. 5 + i - 1 = 4 + i /\ 4 + i \in 1 .. n /\ i \in 1 .. Len(p)
        BY <3>1, <1>1
      <4> QED BY <4>1, <3>1, <2>2, <1>3, <1>4
    <3> QED BY <3>1, <3>2
  <2>4. q = p
    BY <2>2, <2>3, SameSeq
  <2>5. 1 + 4 = 5 /\ 1 + n - 1 = n
    BY <1>1
  <2> QED BY <2>4, <2>5 DEF q
<1>9. FoundAt(d, 1) = [id |-> id, payload |-> p]
  <2>1. 1 + 2 = 3
    OBVIOUS
  <2> QED BY <2>1, <1>6, <1>8 DEF FoundAt
<1>10. ParseParameters(d) = <<FoundAt(d, 1)>> \o ParseParameters(SubSeq(d, 1 + n, Len(d)))
  BY <1>4, <1>6, <1>7, ParseTurn
<1> QED
  BY <1>2, <1>5, <1>9, <1>10 DEF d

-----------------------------------------------------------------------------
(* Sequences                                                               *)

LEMMA PieceBefore ==
  ASSUME NEW S, NEW s \in Seq(S), NEW n \in 1 .. Len(s)
  PROVE  SubSeq(s, 1, n) = Append(SubSeq(s, 1, n - 1), s[n]) /\ s[n] \in S
         /\ SubSeq(s, 1, n - 1) \in Seq(S)
<1> DEFINE u == SubSeq(s, 1, n)
           v == SubSeq(s, 1, n - 1)
           w == Append(v, s[n])
<1>1. u \in Seq(S) /\ Len(u) = n /\ \A i \in 1 .. n : u[i] = s[i]
  OBVIOUS
<1>2. v \in Seq(S) /\ Len(v) = n - 1 /\ \A i \in 1 .. n - 1 : v[i] = s[i]
  OBVIOUS
<1>3. s[n] \in S
  OBVIOUS
<1> HIDE DEF u, v
<1>4. w \in Seq(S) /\ Len(w) = n /\ \A i \in 1 .. n : w[i] = s[i]
  <2>1. w \in Seq(S) /\ Len(w) = n /\ w[n] = s[n] /\ \A i \in 1 .. n - 1 : w[i] = v[i]
    BY <1>2, <1>3
  <2> HIDE DEF w
  <2> QED BY <2>1, <1>2
<1> HIDE DEF w
<1>5. u = w
  <2>1. Len(u) = Len(w) /\ \A i \in 1 .. Len(u) : u[i] = w[i]
    BY <1>1, <1>4
  <2> QED BY <2>1, <1>1, <1>4, SameSeq
<1> QED
  BY <1>2, <1>3, <1>5 DEF u, v, w

LEMMA JoinAppend ==
  ASSUME NEW S, NEW s \in Seq(S), NEW t \in Seq(S), NEW e \in S
  PROVE  s \o Append(t, e) = Append(s \o t, e)
OBVIOUS

LEMMA NoneJoined ==
  ASSUME NEW S, NEW s \in Seq(S)
  PROVE  s \o <<>> = s /\ <<>> \o s = s
OBVIOUS

LEMMA FlattenNone == FlattenSeq(<<>>) = <<>>
BY DEF FlattenSeq

LEMMA FlattenOne ==
  ASSUME NEW A, NEW x \in Seq(A)
  PROVE  FlattenSeq(<<x>>) = x
<1>1. <<>> \in Seq(Seq(A)) /\ Append(<<>>, x) = <<x>>
  OBVIOUS
<1>2. FlattenSeq(Append(<<>>, x)) = FlattenSeq(<<>>) \o x
  BY <1>1, FlattenAppend
<1> QED
  BY <1>1, <1>2, FlattenNone, NoneJoined

LEMMA FlattenJoined ==
  ASSUME NEW A, NEW a \in Seq(Seq(A)), NEW b \in Seq(Seq(A))
  PROVE  FlattenSeq(a \o b) = FlattenSeq(a) \o FlattenSeq(b)
<1> DEFINE S == Seq(A)
           P(n) == SubSeq(b, 1, n)
           T == {n \in 0 .. Len(b) : FlattenSeq(a \o P(n)) # FlattenSeq(a) \o FlattenSeq(P(n))}
<1>0. a \in Seq(S) /\ b \in Seq(S) /\ Len(b) \in Nat
  OBVIOUS
<1>1. T = {}
  <2> SUFFICES ASSUME T # {} PROVE FALSE
    OBVIOUS
  <2>1. T \in SUBSET Nat
    OBVIOUS
  <2>2. PICK n \in T : \A l \in T : n <= l
    <3> HIDE DEF T
    <3> QED BY <2>1, LeastNat
  <2>3. n \in 0 .. Len(b) /\ FlattenSeq(a \o P(n)) # FlattenSeq(a) \o FlattenSeq(P(n))
    OBVIOUS
  <2>4. FlattenSeq(a) \in Seq(A)
    BY FlattenType
  <2>5. CASE n = 0
    <3>1. P(n) = <<>>
      BY <2>5, <1>0
    <3> HIDE DEF P, S
    <3>2. a \o P(n) = a
      BY <3>1, <1>0, NoneJoined
    <3>3. FlattenSeq(a) \o FlattenSeq(P(n)) = FlattenSeq(a)
      BY <3>1, <2>4, FlattenNone, NoneJoined
    <3> QED BY <2>3, <3>2, <3>3
  <2>6. CASE n > 0
    <3> DEFINE u == P(n - 1)
               e == b[n]
    <3>1. n \in 1 .. Len(b) /\ n - 1 \in 0 .. Len(b) /\ ~ (n <= n - 1)
      BY <2>3, <2>6, <1>0
    <3>2. P(n) = Append(u, e) /\ e \in S /\ u \in Seq(S)
      <4> HIDE DEF S
      <4> QED BY <3>1, <1>0, PieceBefore
    <3>3. FlattenSeq(a \o u) = FlattenSeq(a) \o FlattenSeq(u)
      <4>1. n - 1 \notin T
        <5> HIDE DEF T
        <5> QED BY <3>1, <2>2
      <4> QED BY <4>1, <3>1
    <3> HIDE DEF u, e, P, T
    <3>4. a \o P(n) = Append(a \o u, e) /\ a \o u \in Seq(S)
      <4> HIDE DEF S
      <4> QED BY <3>2, <1>0, JoinAppend, Joined
    <3>5. FlattenSeq(Append(a \o u, e)) = FlattenSeq(a \o u) \o e
      BY <3>2, <3>4, FlattenAppend
    <3>6. FlattenSeq(Append(u, e)) = FlattenSeq(u) \o e /\ FlattenSeq(u) \in Seq(A)
      BY <3>2, FlattenAppend, FlattenType
    <3>7. FlattenSeq(a) \o (FlattenSeq(u) \o e) = (FlattenSeq(a) \o FlattenSeq(u)) \o e
      <4> DEFINE v == FlattenSeq(u)
                 w == FlattenSeq(a)
      <4>1. w \in Seq(A) /\ v \in Seq(A) /\ e \in Seq(A)
        BY <2>4, <3>2, <3>6
      <4> HIDE DEF v, w
      <4>2. w \o (v \o e) = (w \o v) \o e
        BY <4>1, JoinedThree
      <4> QED BY <4>2 DEF v, w
    <3> QED BY <2>3, <3>2, <3>3, <3>4, <3>5, <3>6, <3>7, Zenon
  <2> QED BY <2>3, <2>5, <2>6
<1>2. P(Len(b)) = b
  BY WholePiece
<1>3. Len(b) \notin T /\ Len(b) \in 0 .. Len(b)
  <2> HIDE DEF T
  <2> QED BY <1>0, <1>1
<1> QED
  BY <1>2, <1>3

(* Nothing but empty sequences. *)
LEMMA FlattenEmpties ==
  ASSUME NEW A, NEW b \in Seq(Seq(A)), \A i \in 1 .. Len(b) : b[i] = <<>>
  PROVE  FlattenSeq(b) = <<>>
<1> DEFINE S == Seq(A)
           P(n) == SubSeq(b, 1, n)
           T == {n \in 0 .. Len(b) : FlattenSeq(P(n)) # <<>>}
<1>0. b \in Seq(S) /\ Len(b) \in Nat
  OBVIOUS
<1>1. T = {}
  <2> SUFFICES ASSUME T # {} PROVE FALSE
    OBVIOUS
  <2>1. T \in SUBSET Nat
    OBVIOUS
  <2>2. PICK n \in T : \A l \in T : n <= l
    <3> HIDE DEF T
    <3> QED BY <2>1, LeastNat
  <2>3. n \in 0 .. Len(b) /\ FlattenSeq(P(n)) # <<>>
    OBVIOUS
  <2>5. CASE n = 0
    <3>1. P(n) = <<>>
      BY <2>5, <1>0
    <3> HIDE DEF P, S
    <3> QED BY <2>3, <3>1, FlattenNone
  <2>6. CASE n > 0
    <3> DEFINE u == P(n - 1)
    <3>1. n \in 1 .. Len(b) /\ n - 1 \in 0 .. Len(b) /\ ~ (n <= n - 1)
      BY <2>3, <2>6, <1>0
    <3>2. P(n) = Append(u, b[n]) /\ b[n] \in S /\ u \in Seq(S)
      <4> HIDE DEF S
      <4> QED BY <3>1, <1>0, PieceBefore
    <3>3. FlattenSeq(u) = <<>>
      <4>1. n - 1 \notin T
        <5> HIDE DEF T
        <5> QED BY <3>1, <2>2
      <4> QED BY <4>1, <3>1
    <3> HIDE DEF u, P, T
    <3>4. FlattenSeq(Append(u, b[n])) = FlattenSeq(u) \o b[n]
      BY <3>2, FlattenAppend
    <3>5. b[n] = <<>>
      BY <3>1
    <3>6. <<>> \o <<>> = <<>>
      OBVIOUS
    <3> QED BY <2>3, <3>2, <3>3, <3>4, <3>5, <3>6, Zenon
  <2> QED BY <2>3, <2>5, <2>6
<1>2. P(Len(b)) = b
  BY WholePiece
<1>3. Len(b) \notin T /\ Len(b) \in 0 .. Len(b)
  <2> HIDE DEF T
  <2> QED BY <1>0, <1>1
<1> QED
  BY <1>2, <1>3

-----------------------------------------------------------------------------
(* Bytes that are parameters, whatever comes behind them                   *)

Reads(d, ps) ==
  /\ d \in Seq(Byte) /\ ps \in Seq(Param)
  /\ \A e \in Seq(Byte) : ParseParameters(d \o e) = ps \o ParseParameters(e)

LEMMA ReadsNone ==
  Reads(<<>>, <<>>) /\ ParseParameters(<<>>) = <<>>
<1>1. ASSUME NEW e \in Seq(Byte)
      PROVE  ParseParameters(<<>> \o e) = <<>> \o ParseParameters(e)
  <2>1. <<>> \o e = e
    OBVIOUS
  <2>2. ParseParameters(e) \in Seq(Param)
    BY ParseType
  <2> QED BY <2>1, <2>2, NoneJoined
<1>2. <<>> \in Seq(Byte) /\ <<>> \in Seq(Param)
  OBVIOUS
<1>3. ParseParameters(<<>>) = <<>>
  <2>1. EndsAt(<<>>, 1)
    BY DEF EndsAt
  <2> QED BY <1>2, <2>1, ParseTurn
<1> QED
  BY <1>1, <1>2, <1>3 DEF Reads

LEMMA ReadsIs ==
  ASSUME NEW d, NEW ps, Reads(d, ps)
  PROVE  ParseParameters(d) = ps
<1>1. d \in Seq(Byte) /\ ps \in Seq(Param) /\ <<>> \in Seq(Byte)
  BY DEF Reads
<1>2. ParseParameters(d \o <<>>) = ps \o ParseParameters(<<>>)
  BY <1>1 DEF Reads
<1>3. d \o <<>> = d /\ ps \o <<>> = ps
  BY <1>1, NoneJoined
<1> QED
  BY <1>2, <1>3, ReadsNone

LEMMA ReadsOne ==
  ASSUME NEW id \in U16s, NEW p \in Seq(Byte), Len(p) + 4 \in U16s
  PROVE  Reads(Parameter(id, p), <<[id |-> id, payload |-> p]>>)
<1>1. Parameter(id, p) \in Seq(Byte)
  <2>1. id \in Nat /\ Len(p) + 4 \in Nat
    BY DEF U16s
  <2> QED BY <2>1, SizedBytes DEF Parameter
<1>2. <<[id |-> id, payload |-> p]>> \in Seq(Param)
  <2>1. [id |-> id, payload |-> p] \in Param
    BY DEF Param
  <2> DEFINE x == [id |-> id, payload |-> p]
  <2> HIDE DEF x
  <2>2. x \in Param
    BY <2>1 DEF x
  <2>3. <<x>> \in Seq(Param)
    BY <2>2
  <2> QED BY <2>3 DEF x
<1> QED
  BY <1>1, <1>2, FirstRead DEF Reads

LEMMA ReadsBoth ==
  ASSUME NEW d, NEW ps, Reads(d, ps), NEW e, NEW qs, Reads(e, qs)
  PROVE  Reads(d \o e, ps \o qs)
<1>1. d \in Seq(Byte) /\ ps \in Seq(Param) /\ e \in Seq(Byte) /\ qs \in Seq(Param)
  BY DEF Reads
<1>2. d \o e \in Seq(Byte) /\ ps \o qs \in Seq(Param)
  BY <1>1, Joined
<1>3. ASSUME NEW x \in Seq(Byte)
      PROVE  ParseParameters((d \o e) \o x) = (ps \o qs) \o ParseParameters(x)
  <2>1. (d \o e) \o x = d \o (e \o x)
    <3>1. d \in Seq(Byte) /\ e \in Seq(Byte) /\ x \in Seq(Byte)
      BY <1>1
    <3> QED BY <3>1, JoinedThree, SMTT(40)
  <2>2. e \o x \in Seq(Byte)
    BY <1>1, Joined
  <2>3. ParseParameters(d \o (e \o x)) = ps \o ParseParameters(e \o x)
    BY <2>2 DEF Reads
  <2>4. ParseParameters(e \o x) = qs \o ParseParameters(x)
    BY DEF Reads
  <2>5. ParseParameters(x) \in Seq(Param)
    BY ParseType
  <2>6. ps \o (qs \o ParseParameters(x)) = (ps \o qs) \o ParseParameters(x)
    <3>1. ps \in Seq(Param) /\ qs \in Seq(Param) /\ ParseParameters(x) \in Seq(Param)
      BY <1>1, <2>5
    <3> QED BY <3>1, JoinedThree
  <2> QED BY <2>1, <2>3, <2>4, <2>6
<1> QED
  BY <1>2, <1>3 DEF Reads

LEMMA ReadsMany ==
  ASSUME NEW b \in Seq(Seq(Byte)), NEW ps \in Seq(Param), Len(b) = Len(ps),
         \A k \in 1 .. Len(b) : /\ Len(ps[k].payload) + 4 \in U16s
                                /\ b[k] = Parameter(ps[k].id, ps[k].payload)
  PROVE  Reads(FlattenSeq(b), ps)
<1> DEFINE S == Seq(Byte)
           P(n) == SubSeq(b, 1, n)
           Q(n) == SubSeq(ps, 1, n)
           T == {n \in 0 .. Len(b) : ~ Reads(FlattenSeq(P(n)), Q(n))}
<1>0. b \in Seq(S) /\ Len(b) \in Nat
  OBVIOUS
<1>1. T = {}
  <2> SUFFICES ASSUME T # {} PROVE FALSE
    OBVIOUS
  <2>1. T \in SUBSET Nat
    OBVIOUS
  <2>2. PICK n \in T : \A l \in T : n <= l
    <3> HIDE DEF T
    <3> QED BY <2>1, LeastNat
  <2>3. n \in 0 .. Len(b) /\ ~ Reads(FlattenSeq(P(n)), Q(n))
    OBVIOUS
  <2>5. CASE n = 0
    <3>1. P(n) = <<>> /\ Q(n) = <<>>
      BY <2>5, <1>0
    <3> HIDE DEF P, Q, S
    <3> QED BY <2>3, <3>1, FlattenNone, ReadsNone
  <2>6. CASE n > 0
    <3> DEFINE u == P(n - 1)
               v == Q(n - 1)
               p == ps[n]
    <3>1. n \in 1 .. Len(b) /\ n - 1 \in 0 .. Len(b) /\ ~ (n <= n - 1) /\ n \in 1 .. Len(ps)
      BY <2>3, <2>6, <1>0
    <3>2. P(n) = Append(u, b[n]) /\ b[n] \in S /\ u \in Seq(S)
      <4> HIDE DEF S
      <4> QED BY <3>1, <1>0, PieceBefore
    <3>3. Q(n) = Append(v, p) /\ p \in Param /\ v \in Seq(Param)
      BY <3>1, PieceBefore
    <3>4. Reads(FlattenSeq(u), v)
      <4>1. n - 1 \notin T
        <5> HIDE DEF T
        <5> QED BY <3>1, <2>2
      <4> QED BY <4>1, <3>1
    <3> HIDE DEF u, v, P, Q, T
    <3>5. FlattenSeq(Append(u, b[n])) = FlattenSeq(u) \o b[n]
      BY <3>2, FlattenAppend
    <3>6. Reads(b[n], <<p>>)
      <4>1. b[n] = Parameter(p.id, p.payload) /\ Len(p.payload) + 4 \in U16s
        BY <3>1
      <4> HIDE DEF p
      <4>2. p.id \in U16s /\ p.payload \in Seq(Byte) /\ p = [id |-> p.id, payload |-> p.payload]
        BY <3>3 DEF Param
      <4>3. Reads(Parameter(p.id, p.payload), <<[id |-> p.id, payload |-> p.payload]>>)
        BY <4>1, <4>2, ReadsOne
      <4> QED BY <4>1, <4>2, <4>3
    <3>7. Reads(FlattenSeq(u) \o b[n], v \o <<p>>)
      BY <3>4, <3>6, ReadsBoth
    <3>8. v \o <<p>> = Append(v, p)
      <4> HIDE DEF p
      <4> QED BY <3>3
    <3> QED BY <2>3, <3>2, <3>3, <3>5, <3>7, <3>8, Zenon
  <2> QED BY <2>3, <2>5, <2>6
<1>2. P(Len(b)) = b /\ Q(Len(b)) = ps
  BY WholePiece
<1>3. Len(b) \notin T /\ Len(b) \in 0 .. Len(b)
  <2> HIDE DEF T
  <2> QED BY <1>0, <1>1
<1> QED
  BY <1>2, <1>3

-----------------------------------------------------------------------------
(* The payloads of the parameters with a number                            *)

PayloadIf(p, id) == IF p.id = id THEN <<p.payload>> ELSE <<>>

Those(ps, id) == FlattenSeq([i \in DOMAIN ps |-> PayloadIf(ps[i], id)])

LEMMA PayloadsAre ==
  ASSUME NEW d, NEW id
  PROVE  Payloads(d, id) = Those(ParseParameters(d), id)
BY Zenon DEF Payloads, Those, PayloadIf

LEMMA IfType ==
  ASSUME NEW ps \in Seq(Param), NEW id
  PROVE  LET b == [i \in DOMAIN ps |-> PayloadIf(ps[i], id)]
         IN  b \in Seq(Seq(Seq(Byte))) /\ Len(b) = Len(ps)
             /\ \A i \in 1 .. Len(ps) : b[i] = PayloadIf(ps[i], id)
<1> DEFINE b == [i \in DOMAIN ps |-> PayloadIf(ps[i], id)]
<1>1. ASSUME NEW i \in 1 .. Len(ps) PROVE PayloadIf(ps[i], id) \in Seq(Seq(Byte))
  <2> DEFINE p == ps[i]
             q == p.payload
  <2>1. p \in Param
    OBVIOUS
  <2> HIDE DEF p
  <2>2. q \in Seq(Byte)
    BY <2>1 DEF Param
  <2> HIDE DEF q
  <2>3. <<q>> \in Seq(Seq(Byte)) /\ <<>> \in Seq(Seq(Byte))
    BY <2>2
  <2>4. PayloadIf(p, id) = IF p.id = id THEN <<q>> ELSE <<>>
    BY DEF PayloadIf, q
  <2>5. PayloadIf(p, id) \in Seq(Seq(Byte))
    BY <2>3, <2>4
  <2> QED BY <2>5 DEF p
<1>2. DOMAIN ps = 1 .. Len(ps) /\ Len(ps) \in Nat
  OBVIOUS
<1>3. b = [i \in 1 .. Len(ps) |-> PayloadIf(ps[i], id)]
  BY <1>2
<1> QED
  BY <1>1, <1>2, <1>3

LEMMA ThoseType ==
  ASSUME NEW ps \in Seq(Param), NEW id
  PROVE  Those(ps, id) \in Seq(Seq(Byte))
BY IfType, FlattenType DEF Those

LEMMA ThoseNone ==
  ASSUME NEW ps \in Seq(Param), NEW id, \A i \in 1 .. Len(ps) : ps[i].id # id
  PROVE  Those(ps, id) = <<>>
<1> DEFINE b == [i \in DOMAIN ps |-> PayloadIf(ps[i], id)]
<1>1. /\ b \in Seq(Seq(Seq(Byte))) /\ Len(b) = Len(ps)
      /\ \A i \in 1 .. Len(ps) : b[i] = PayloadIf(ps[i], id)
  BY IfType
<1> HIDE DEF b
<1>2. \A i \in 1 .. Len(b) : b[i] = <<>>
  BY <1>1 DEF PayloadIf
<1>3. FlattenSeq(b) = <<>>
  BY <1>1, <1>2, FlattenEmpties
<1> QED
  BY <1>3 DEF Those, b

LEMMA ThoseOne ==
  ASSUME NEW p \in Param, NEW id
  PROVE  Those(<<p>>, id) = PayloadIf(p, id)
<1> DEFINE ps == <<p>>
           b == [i \in DOMAIN ps |-> PayloadIf(ps[i], id)]
           x == PayloadIf(p, id)
<1>1. ps \in Seq(Param) /\ Len(ps) = 1 /\ ps[1] = p
  OBVIOUS
<1> HIDE DEF ps
<1>2. /\ b \in Seq(Seq(Seq(Byte))) /\ Len(b) = Len(ps)
      /\ \A i \in 1 .. Len(ps) : b[i] = PayloadIf(ps[i], id)
  BY <1>1, IfType
<1> HIDE DEF b, x
<1>3. b[1] = x /\ Len(b) = 1
  BY <1>1, <1>2 DEF x
<1>4. x \in Seq(Seq(Byte))
  BY <1>2, <1>3
<1>5. b = <<x>>
  <2>1. <<x>> \in Seq(Seq(Seq(Byte))) /\ Len(<<x>>) = 1 /\ <<x>>[1] = x
    BY <1>4
  <2> DEFINE y == <<x>>
  <2> HIDE DEF y
  <2>2. y \in Seq(Seq(Seq(Byte))) /\ Len(y) = 1 /\ y[1] = x
    BY <2>1 DEF y
  <2>3. Len(b) = Len(y) /\ \A i \in 1 .. Len(b) : b[i] = y[i]
    BY <2>2, <1>3
  <2>4. b = y
    BY <2>2, <2>3, <1>2, SameSeq
  <2> QED BY <2>4 DEF y
<1>6. FlattenSeq(b) = x
  BY <1>4, <1>5, FlattenOne
<1> QED
  BY <1>6 DEF Those, b, x, ps

LEMMA ThoseBoth ==
  ASSUME NEW ps \in Seq(Param), NEW qs \in Seq(Param), NEW id
  PROVE  Those(ps \o qs, id) = Those(ps, id) \o Those(qs, id)
<1> DEFINE rs == ps \o qs
           a == [i \in DOMAIN ps |-> PayloadIf(ps[i], id)]
           b == [i \in DOMAIN qs |-> PayloadIf(qs[i], id)]
           c == [i \in DOMAIN rs |-> PayloadIf(rs[i], id)]
           ab == a \o b
<1>1. /\ rs \in Seq(Param) /\ Len(rs) = Len(ps) + Len(qs)
      /\ \A i \in 1 .. Len(ps) : rs[i] = ps[i]
      /\ \A i \in 1 .. Len(qs) : rs[Len(ps) + i] = qs[i]
  BY Joined
<1> HIDE DEF rs
<1>2. /\ a \in Seq(Seq(Seq(Byte))) /\ Len(a) = Len(ps)
      /\ \A i \in 1 .. Len(ps) : a[i] = PayloadIf(ps[i], id)
  BY IfType
<1>3. /\ b \in Seq(Seq(Seq(Byte))) /\ Len(b) = Len(qs)
      /\ \A i \in 1 .. Len(qs) : b[i] = PayloadIf(qs[i], id)
  BY IfType
<1>4. /\ c \in Seq(Seq(Seq(Byte))) /\ Len(c) = Len(rs)
      /\ \A i \in 1 .. Len(rs) : c[i] = PayloadIf(rs[i], id)
  BY <1>1, IfType
<1> HIDE DEF a, b, c
<1>5. /\ ab \in Seq(Seq(Seq(Byte))) /\ Len(ab) = Len(a) + Len(b)
      /\ \A i \in 1 .. Len(a) : ab[i] = a[i]
      /\ \A i \in 1 .. Len(b) : ab[Len(a) + i] = b[i]
  <2>1. a \in Seq(Seq(Seq(Byte))) /\ b \in Seq(Seq(Seq(Byte)))
    BY <1>2, <1>3
  <2> QED BY <2>1, Joined
<1> HIDE DEF ab
<1>6. ASSUME NEW i \in 1 .. Len(c) PROVE c[i] = ab[i]
  <2>1. CASE i <= Len(ps)
    <3>1. i \in 1 .. Len(ps) /\ i \in 1 .. Len(a) /\ i \in 1 .. Len(rs)
      BY <2>1, <1>1, <1>2, <1>4
    <3> QED BY <3>1, <1>1, <1>2, <1>4, <1>5
  <2>2. CASE ~ (i <= Len(ps))
    <3> DEFINE k == i - Len(ps)
    <3>1. k \in 1 .. Len(qs) /\ k \in 1 .. Len(b) /\ i \in 1 .. Len(rs)
          /\ i = Len(ps) + k /\ i = Len(a) + k
      BY <2>2, <1>1, <1>2, <1>3, <1>4
    <3> HIDE DEF k
    <3>2. c[i] = PayloadIf(rs[i], id) /\ rs[i] = qs[k]
      BY <3>1, <1>1, <1>4
    <3>3. ab[i] = b[k] /\ b[k] = PayloadIf(qs[k], id)
      BY <3>1, <1>3, <1>5
    <3> QED BY <3>2, <3>3
  <2> QED BY <2>1, <2>2
<1>7. c = ab
  <2>1. Len(c) = Len(ab)
    BY <1>1, <1>2, <1>3, <1>4, <1>5
  <2>2. c \in Seq(Seq(Seq(Byte))) /\ ab \in Seq(Seq(Seq(Byte)))
    BY <1>4, <1>5
  <2> QED BY <2>1, <2>2, <1>6, SameSeq
<1>8. FlattenSeq(a \o b) = FlattenSeq(a) \o FlattenSeq(b)
  <2>1. a \in Seq(Seq(Seq(Byte))) /\ b \in Seq(Seq(Seq(Byte)))
    BY <1>2, <1>3
  <2> QED BY <2>1, FlattenJoined
<1> QED
  BY <1>7, <1>8 DEF Those, a, b, c, rs, ab

-----------------------------------------------------------------------------
(* Messages                                                                *)

LEMMA Joint ==
  ASSUME NEW S, NEW s, NEW t, s \in Seq(S) /\ t \in Seq(S)
  PROVE  /\ s \o t \in Seq(S) /\ Len(s \o t) = Len(s) + Len(t)
         /\ \A i \in 1 .. Len(s) : (s \o t)[i] = s[i]
         /\ \A i \in 1 .. Len(t) : (s \o t)[Len(s) + i] = t[i]
BY Joined

LEMMA SyncBytes ==
  <<64, 64>> \in Seq(Byte) /\ Len(<<64, 64>>) = 2
    /\ <<64, 64>>[1] = 64 /\ <<64, 64>>[2] = 64
<1>1. 64 \in Byte
  BY DEF Byte
<1> QED
  BY <1>1

LEMMA MessageBytes ==
  ASSUME NEW id \in U16s, NEW p \in Seq(Byte), Len(p) + 6 \in U16s
  PROVE  LET m == Message(id, p)
         IN  /\ m \in Seq(Byte) /\ Len(m) = Len(p) + 6
             /\ m[1] = 64 /\ m[2] = 64
             /\ U16At(m, 3) = Len(p) + 6 /\ U16At(m, 5) = id
             /\ \A i \in 1 .. Len(p) : m[6 + i] = p[i]
<1> DEFINE n == Len(p) + 6
           s == <<64, 64>>
           q == Sized(n, id, p)
           m == s \o q
           b == U16(id)
           body == b \o p
<1>1. n \in U16s /\ n \in Nat /\ id \in Nat /\ Len(p) \in Nat
  BY DEF U16s
<1>2. b \in Seq(Byte) /\ Len(b) = 2
  BY <1>1, U16Type
<1>3. Message(id, p) = m
  <2>1. Len(body) = 2 + Len(p)
    <3> HIDE DEF b
    <3>1. b \in Seq(Byte) /\ p \in Seq(Byte)
      BY <1>2
    <3>2. Len(b \o p) = Len(b) + Len(p)
      BY <3>1, Joint
    <3> QED BY <3>2, <1>2
  <2>2. 2 + 2 + Len(body) = n
    <3> HIDE DEF body
    <3> QED BY <2>1, <1>1
  <2>3. Message(id, p) = s \o (U16(2 + 2 + Len(body)) \o body)
    BY SMTT(40) DEF Message
  <2>4. q = U16(n) \o body
    BY DEF Sized
  <2> HIDE DEF body, q, n, s
  <2> QED BY <2>2, <2>3, <2>4
<1> HIDE DEF n
<1>4. /\ q \in Seq(Byte) /\ Len(q) = 4 + Len(p)
      /\ q[1] = U16(n)[1] /\ q[2] = U16(n)[2]
      /\ q[3] = U16(id)[1] /\ q[4] = U16(id)[2]
      /\ \A i \in 1 .. Len(p) : q[4 + i] = p[i]
  BY <1>1, SizedBytes
<1>5. s \in Seq(Byte) /\ Len(s) = 2 /\ s[1] = 64 /\ s[2] = 64
  BY SyncBytes
<1> HIDE DEF q, s, b, body
<1>6. /\ m \in Seq(Byte) /\ Len(m) = Len(s) + Len(q)
      /\ \A i \in 1 .. Len(s) : m[i] = s[i]
      /\ \A i \in 1 .. Len(q) : m[Len(s) + i] = q[i]
  <2>1. s \in Seq(Byte) /\ q \in Seq(Byte)
    BY <1>4, <1>5
  <2> QED BY <2>1, Joint
<1> HIDE DEF m
<1>7. Len(m) = Len(p) + 6 /\ m[1] = 64 /\ m[2] = 64
  BY <1>1, <1>4, <1>5, <1>6
<1>8. /\ m[3] = U16(n)[1] /\ m[4] = U16(n)[2]
      /\ m[5] = U16(id)[1] /\ m[6] = U16(id)[2]
  <2>1. /\ 1 \in 1 .. Len(q) /\ 2 \in 1 .. Len(q) /\ 3 \in 1 .. Len(q) /\ 4 \in 1 .. Len(q)
    BY <1>1, <1>4
  <2>2. m[2 + 1] = q[1] /\ m[2 + 2] = q[2] /\ m[2 + 3] = q[3] /\ m[2 + 4] = q[4]
    BY <2>1, <1>5, <1>6
  <2>3. 2 + 1 = 3 /\ 2 + 2 = 4 /\ 2 + 3 = 5 /\ 2 + 4 = 6
    OBVIOUS
  <2> QED BY <2>2, <2>3, <1>4
<1>9. U16At(m, 3) = n /\ U16At(m, 5) = id
  <2>1. 3 \in 1 .. Len(m) - 1 /\ 5 \in 1 .. Len(m) - 1
    BY <1>1, <1>7
  <2>2. 3 + 1 = 4 /\ 5 + 1 = 6
    OBVIOUS
  <2>3. m \in Seq(Byte)
    BY <1>6
  <2>4. U16At(m, 3) = n
    BY <2>1, <2>2, <2>3, <1>1, <1>8, U16Read
  <2>5. U16At(m, 5) = id
    BY <2>1, <2>2, <2>3, <1>8, U16Read
  <2> QED BY <2>4, <2>5
<1>10. ASSUME NEW i \in 1 .. Len(p) PROVE m[6 + i] = p[i]
  <2>1. 4 + i \in 1 .. Len(q) /\ 6 + i = 2 + (4 + i)
    BY <1>1, <1>4
  <2>2. m[2 + (4 + i)] = q[4 + i]
    BY <2>1, <1>5, <1>6
  <2> QED BY <2>1, <2>2, <1>4
<1> QED
  BY <1>3, <1>6, <1>7, <1>9, <1>10 DEF n

(* A message is found at the beginning of what was received, whatever is   *)
(* behind it, by its id and with its parameters.                           *)
LEMMA Framed ==
  ASSUME NEW id \in U16s, NEW p \in Seq(Byte), Len(p) + 6 \in U16s, NEW x \in Seq(Byte)
  PROVE  LET d == Message(id, p) \o x
         IN  /\ d \in Seq(Byte) /\ Len(d) = Len(p) + 6 + Len(x)
             /\ IsControl(d) /\ U16At(d, 3) = Len(p) + 6 /\ MessageId(d) = id
             /\ Contents(d) = p /\ LinkMessageId(d) = {id}
             /\ \A i \in 1 .. Len(p) : d[6 + i] = p[i]
<1> DEFINE m == Message(id, p)
           d == m \o x
           n == Len(p) + 6
<1>1. /\ m \in Seq(Byte) /\ Len(m) = n
      /\ m[1] = 64 /\ m[2] = 64 /\ U16At(m, 3) = n /\ U16At(m, 5) = id
      /\ \A i \in 1 .. Len(p) : m[6 + i] = p[i]
  BY MessageBytes
<1>2. n \in Nat /\ n >= 6 /\ Len(p) = n - 6 /\ Len(p) \in Nat
  OBVIOUS
<1> HIDE DEF m
<1>3. /\ d \in Seq(Byte) /\ Len(d) = Len(m) + Len(x) /\ Len(x) \in Nat
      /\ \A i \in 1 .. Len(m) : d[i] = m[i]
  <2>1. m \in Seq(Byte) /\ x \in Seq(Byte)
    BY <1>1
  <2>2. /\ d \in Seq(Byte) /\ Len(d) = Len(m) + Len(x)
        /\ \A i \in 1 .. Len(m) : d[i] = m[i]
    BY <2>1, Joint
  <2> QED BY <2>1, <2>2
<1> HIDE DEF d, n
<1>4. /\ Len(d) = n + Len(x)
      /\ d[1] = 64 /\ d[2] = 64 /\ d[3] = m[3] /\ d[4] = m[4] /\ d[5] = m[5] /\ d[6] = m[6]
  BY <1>1, <1>2, <1>3
<1>5. U16At(d, 3) = n /\ U16At(d, 5) = id
  <2>1. 3 + 1 = 4 /\ 5 + 1 = 6
    OBVIOUS
  <2> QED BY <2>1, <1>1, <1>4 DEF U16At
<1>6. ASSUME NEW i \in 1 .. Len(p) PROVE d[6 + i] = p[i]
  <2>1. 6 + i \in 1 .. Len(m)
    BY <1>1, <1>2
  <2> QED BY <2>1, <1>1, <1>3
<1>7. Contents(d) = p
  <2> DEFINE c == SubSeq(d, 7, n)
  <2>1. c \in Seq(Byte) /\ Len(c) = n - 7 + 1 /\ \A i \in 1 .. n - 7 + 1 : c[i] = d[7 + i - 1]
    <3>1. 7 \in 1 .. Len(d) + 1 /\ n \in 7 - 1 .. Len(d)
      BY <1>2, <1>3, <1>4
    <3> QED BY <3>1, <1>3, PieceType
  <2> HIDE DEF c
  <2>2. Len(c) = Len(p)
    BY <2>1, <1>2
  <2>3. ASSUME NEW i \in 1 .. Len(c) PROVE c[i] = p[i]
    <3>1. i \in 1 .. n - 7 + 1 /\ i \in 1 .. Len(p) /\ 7 + i - 1 = 6 + i
      BY <2>1, <2>2, <1>2
    <3> QED BY <3>1, <2>1, <1>6
  <2>4. c = p
    BY <2>1, <2>2, <2>3, SameSeq
  <2> QED BY <2>4, <1>5 DEF Contents, c
<1>8. StartsWith(d, <<64, 64>>)
  <2> DEFINE s == <<64, 64>>
             h == SubSeq(d, 1, 2)
  <2>1. s \in Seq(Byte) /\ Len(s) = 2 /\ s[1] = 64 /\ s[2] = 64
    BY SyncBytes
  <2>2. h \in Seq(Byte) /\ Len(h) = 2 /\ h[1] = d[1] /\ h[2] = d[2]
    BY <1>2, <1>3, <1>4
  <2> HIDE DEF s, h
  <2>3. h = s
    <3>1. \A i \in 1 .. Len(h) : h[i] = s[i]
      BY <2>1, <2>2, <1>4
    <3> QED BY <3>1, <2>1, <2>2, SameSeq
  <2>4. Len(d) >= Len(s)
    BY <2>1, <1>2, <1>4, <1>3
  <2>5. SubSeq(d, 1, Len(s)) = s
    BY <2>1, <2>3 DEF h
  <2> QED BY <2>4, <2>5 DEF StartsWith, s
<1>9. IsControl(d)
  <2>1. Len(d) >= 6 /\ n \in 6 .. Len(d)
    BY <1>2, <1>3, <1>4
  <2> QED BY <2>1, <1>5, <1>8 DEF IsControl
<1>10. LinkMessageId(d) = {id} /\ MessageId(d) = id
  <2>1. Len(d) >= 6
    BY <1>2, <1>3, <1>4
  <2> QED BY <2>1, <1>5, <1>8 DEF LinkMessageId, MessageId
<1> QED
  BY <1>3, <1>4, <1>5, <1>6, <1>7, <1>9, <1>10 DEF d, m, n

(* Where the payload of a parameter is. *)
LEMMA HeadBytes ==
  ASSUME NEW id \in U16s, NEW p \in Seq(Byte), Len(p) + 4 \in U16s, NEW r \in Seq(Byte)
  PROVE  LET d == Parameter(id, p) \o r
         IN  /\ d \in Seq(Byte) /\ Len(d) = Len(p) + 4 + Len(r) /\ Len(r) \in Nat
             /\ U16At(d, 1) = Len(p) + 4 /\ U16At(d, 3) = id
             /\ \A i \in 1 .. Len(p) : d[4 + i] = p[i]
             /\ SubSeq(d, 5, 4 + Len(p)) = p
<1> DEFINE n == Len(p) + 4
           e == Sized(n, id, p)
           d == e \o r
<1>1. n \in U16s /\ n \in Nat /\ id \in Nat /\ n = Len(p) + 4 /\ Len(p) \in Nat
  BY DEF U16s
<1> HIDE DEF n
<1>2. Parameter(id, p) = e
  BY DEF Parameter, n
<1>3. /\ e \in Seq(Byte) /\ Len(e) = 4 + Len(p)
      /\ e[1] = U16(n)[1] /\ e[2] = U16(n)[2]
      /\ e[3] = U16(id)[1] /\ e[4] = U16(id)[2]
      /\ \A i \in 1 .. Len(p) : e[4 + i] = p[i]
  BY <1>1, SizedBytes
<1> HIDE DEF e
<1>4. /\ d \in Seq(Byte) /\ Len(d) = n + Len(r) /\ Len(r) \in Nat
      /\ \A i \in 1 .. n : d[i] = e[i]
  <2>0. e \in Seq(Byte) /\ r \in Seq(Byte)
    BY <1>3
  <2>1. /\ d \in Seq(Byte) /\ Len(d) = Len(e) + Len(r)
        /\ \A i \in 1 .. Len(e) : d[i] = e[i]
    BY <2>0, Joint
  <2> HIDE DEF d
  <2> QED BY <2>1, <1>1, <1>3
<1> HIDE DEF d
<1>5. U16At(d, 1) = n /\ U16At(d, 3) = id
  <2>1. 1 \in 1 .. Len(d) - 1 /\ 3 \in 1 .. Len(d) - 1
    BY <1>1, <1>4
  <2>2. d[1] = U16(n)[1] /\ d[2] = U16(n)[2] /\ d[3] = U16(id)[1] /\ d[4] = U16(id)[2]
    BY <1>1, <1>3, <1>4
  <2>3. 1 + 1 = 2 /\ 3 + 1 = 4 /\ d \in Seq(Byte)
    BY <1>4
  <2>4. U16At(d, 1) = n
    BY <2>1, <2>2, <2>3, <1>1, U16Read
  <2>5. U16At(d, 3) = id
    BY <2>1, <2>2, <2>3, U16Read
  <2> QED BY <2>4, <2>5
<1>6. ASSUME NEW i \in 1 .. Len(p) PROVE d[4 + i] = p[i]
  <2>1. 4 + i \in 1 .. n
    BY <1>1
  <2> QED BY <2>1, <1>3, <1>4
<1>7. SubSeq(d, 5, 4 + Len(p)) = p
  <2> DEFINE b == 4 + Len(p)
             q == SubSeq(d, 5, b)
  <2>1. 5 \in 1 .. Len(d) + 1 /\ b \in 5 - 1 .. Len(d) /\ b - 5 + 1 = Len(p)
    BY <1>1, <1>4
  <2> HIDE DEF b
  <2>2. q \in Seq(Byte) /\ Len(q) = Len(p) /\ \A i \in 1 .. Len(p) : q[i] = d[5 + i - 1]
    BY <2>1, <1>4, PieceType
  <2> HIDE DEF q
  <2>3. ASSUME NEW i \in 1 .. Len(q) PROVE q[i] = p[i]
    <3>1. 5 + i - 1 = 4 + i /\ i \in 1 .. Len(p)
      BY <2>2, <1>1
    <3> QED BY <3>1, <2>2, <1>6
  <2>4. q = p
    BY <2>2, <2>3, SameSeq
  <2> QED BY <2>4 DEF q, b
<1> QED
  BY <1>1, <1>2, <1>4, <1>5, <1>6, <1>7 DEF d, n

-----------------------------------------------------------------------------
(* What the device says                                                    *)

LEMMA Limits ==
  /\ ChallengeSize \in Nat /\ ChallengeSize >= 1 /\ ChallengeSize <= 60000
  /\ Sessions \subseteq Byte
  /\ \A c \in Secrets :
       c \in Seq(Byte) /\ Len(c) = ChallengeSize /\ \E i \in DOMAIN c : c[i] # 0
BY ControlExchangeAssumption

LEMMA DressedIs ==
  ASSUME NEW id \in U16s, NEW p \in Seq(Byte), Len(p) <= 60100, NEW b \in Behind
  PROVE  LET d == Dressed(id, p, b)
         IN  /\ d \in Seq(Byte) /\ IsControl(d) /\ MessageId(d) = id
             /\ b[1] \in Tails /\ b[1] \in Seq(Byte)
             /\ Contents(d) = p \o b[1]
             /\ Len(d) >= 6 + Len(p)
             /\ \A i \in 1 .. Len(p) : d[6 + i] = p[i]
<1> DEFINE t == b[1]
           q == p \o t
           x == IF b[2] THEN <<64, 64, 0, 6>> ELSE <<>>
           d == Message(id, q) \o x
<1>1. b[1] \in Tails
  BY DEF Behind
<1>2. t \in Seq(Byte) /\ Len(t) <= 5000 /\ Len(t) \in Nat
  BY <1>1, TailsAssumption
<1>3. x \in Seq(Byte)
  <2>1. 64 \in Byte /\ 0 \in Byte /\ 6 \in Byte
    BY DEF Byte
  <2>2. <<64, 64, 0, 6>> \in Seq(Byte) /\ <<>> \in Seq(Byte)
    BY <2>1
  <2> QED BY <2>2
<1> HIDE DEF t, x
<1>4. /\ q \in Seq(Byte) /\ Len(q) = Len(p) + Len(t) /\ Len(p) \in Nat
      /\ \A i \in 1 .. Len(p) : q[i] = p[i]
  <2>1. p \in Seq(Byte) /\ t \in Seq(Byte)
    BY <1>2
  <2>2. /\ q \in Seq(Byte) /\ Len(q) = Len(p) + Len(t)
        /\ \A i \in 1 .. Len(p) : q[i] = p[i]
    BY <2>1, Joint
  <2> QED BY <2>2
<1> HIDE DEF q
<1>5. Len(q) + 6 \in U16s
  BY <1>2, <1>4 DEF U16s
<1>6. /\ d \in Seq(Byte) /\ Len(d) = Len(q) + 6 + Len(x)
      /\ IsControl(d) /\ MessageId(d) = id /\ Contents(d) = q
      /\ \A i \in 1 .. Len(q) : d[6 + i] = q[i]
  <2>1. q \in Seq(Byte) /\ x \in Seq(Byte)
    BY <1>3, <1>4
  <2> QED BY <2>1, <1>5, Framed, SMTT(40)
<1>7. Dressed(id, p, b) = d
  BY DEF Dressed, d, q, x, t
<1> HIDE DEF d
<1>8. Len(d) >= 6 + Len(p) /\ \A i \in 1 .. Len(p) : d[6 + i] = p[i]
  <2>1. Len(x) \in Nat
    BY <1>3
  <2>2. \A i \in 1 .. Len(p) : i \in 1 .. Len(q)
    BY <1>2, <1>4
  <2> QED BY <2>1, <2>2, <1>2, <1>4, <1>6
<1> QED
  BY <1>1, <1>2, <1>6, <1>7, <1>8 DEF t, q

LEMMA ParameterBytes ==
  ASSUME NEW id \in U16s, NEW p \in Seq(Byte), Len(p) + 4 \in U16s
  PROVE  LET d == Parameter(id, p)
         IN  d \in Seq(Byte) /\ Len(d) = 4 + Len(p) /\ \A i \in 1 .. Len(p) : d[4 + i] = p[i]
<1> DEFINE n == Len(p) + 4
<1>1. n \in Nat /\ id \in Nat
  BY DEF U16s
<1> HIDE DEF n
<1> DEFINE d == Sized(n, id, p)
<1>2. Parameter(id, p) = d
  BY DEF Parameter, n
<1>3. d \in Seq(Byte) /\ Len(d) = 4 + Len(p) /\ \A i \in 1 .. Len(p) : d[4 + i] = p[i]
  BY <1>1, SizedBytes
<1> HIDE DEF d
<1> QED
  BY <1>2, <1>3

LEMMA SmallNumber ==
  ASSUME NEW n \in Nat, n <= 65535
  PROVE  n \in U16s
BY DEF U16s

(* A message with one byte in its first parameter. *)
LEMMA ByteSaid ==
  ASSUME NEW id \in U16s, NEW z \in U16s, NEW s \in Byte, NEW b \in Behind
  PROVE  LET d == Dressed(id, Parameter(z, <<s>>), b)
         IN  /\ d \in Seq(Byte) /\ IsControl(d) /\ MessageId(d) = id
             /\ Len(Contents(d)) >= 5 /\ U16At(Contents(d), 3) = z /\ Contents(d)[5] = s
             /\ Len(d) >= 11 /\ d[11] = s
<1> DEFINE u == <<s>>
           p == Parameter(z, u)
           t == b[1]
           q == p \o t
           d == Dressed(id, p, b)
<1>1. u \in Seq(Byte) /\ Len(u) = 1 /\ u[1] = s /\ Len(u) + 4 \in U16s
  <2>1. u \in Seq(Byte) /\ Len(u) = 1 /\ u[1] = s
    OBVIOUS
  <2> HIDE DEF u
  <2>2. Len(u) + 4 \in Nat /\ Len(u) + 4 <= 65535
    BY <2>1, SMT
  <2> QED BY <2>1, <2>2, SmallNumber
<1> HIDE DEF u
<1>2. p \in Seq(Byte) /\ Len(p) = 4 + Len(u) /\ \A i \in 1 .. Len(u) : p[4 + i] = u[i]
  BY <1>1, ParameterBytes
<1>3. ASSUME NEW r \in Seq(Byte)
      PROVE  /\ Len(p \o r) = Len(u) + 4 + Len(r) /\ Len(r) \in Nat
             /\ U16At(p \o r, 3) = z
             /\ \A i \in 1 .. Len(u) : (p \o r)[4 + i] = u[i]
  <2> DEFINE h == Parameter(z, u) \o r
  <2>1. /\ Len(h) = Len(u) + 4 + Len(r) /\ Len(r) \in Nat /\ U16At(h, 3) = z
        /\ \A i \in 1 .. Len(u) : h[4 + i] = u[i]
    BY <1>1, HeadBytes, Zenon
  <2> QED BY <2>1
<1> HIDE DEF p
<1>4. Len(p) = 5 /\ p[5] = s
  <2>1. 4 + 1 = 5 /\ 1 \in 1 .. Len(u)
    BY <1>1
  <2> QED BY <2>1, <1>1, <1>2
<1>5. /\ d \in Seq(Byte) /\ IsControl(d) /\ MessageId(d) = id /\ t \in Seq(Byte)
      /\ Contents(d) = q /\ Len(d) >= 6 + Len(p)
      /\ \A i \in 1 .. Len(p) : d[6 + i] = p[i]
  <2>1. Len(p) <= 60100
    BY <1>4, SMT
  <2>2. p \in Seq(Byte)
    BY <1>2
  <2> QED BY <2>1, <2>2, DressedIs
<1> HIDE DEF t, d
<1>6. /\ Len(q) = Len(u) + 4 + Len(t) /\ Len(t) \in Nat
      /\ U16At(q, 3) = z /\ q[4 + 1] = s
  <2>1. 1 \in 1 .. Len(u)
    BY <1>1
  <2> QED BY <2>1, <1>1, <1>3, <1>5
<1> HIDE DEF q
<1>7. Len(q) >= 5 /\ U16At(q, 3) = z /\ q[5] = s
  <2>1. 4 + 1 = 5
    OBVIOUS
  <2> QED BY <2>1, <1>1, <1>6
<1>8. Len(d) >= 11 /\ d[11] = s
  <2>1. 5 \in 1 .. Len(p) /\ 6 + 5 = 11
    BY <1>4
  <2> QED BY <2>1, <1>4, <1>5
<1> QED
  BY <1>5, <1>7, <1>8 DEF d, p, u

Thing(k, a) == [kind |-> k, arg |-> a]

LEMMA StartUnderstood ==
  ASSUME NEW s \in Sessions, NEW b \in Behind
  PROVE  LET d == Dressed(59904, Parameter(0, <<s>>), b)
         IN  d \in Seq(Byte) /\ Understood(d) = {Thing("EaSessionStarted", s)}
<1> DEFINE id == 59904
           z == 0
           d == Dressed(id, Parameter(z, <<s>>), b)
<1>1. id \in U16s /\ z \in U16s
  BY SMT, SmallNumber
<1>2. s \in Byte
  BY Limits
<1>3. id = 59904 /\ z = 0
  BY SMT
<1> HIDE DEF id, z
<1>4. /\ d \in Seq(Byte) /\ IsControl(d) /\ MessageId(d) = id
      /\ Len(Contents(d)) >= 5 /\ U16At(Contents(d), 3) = z /\ Contents(d)[5] = s
  BY <1>1, <1>2, ByteSaid
<1> HIDE DEF d
<1>5. StartedSession(d) = {s}
  BY <1>3, <1>4, SMT DEF StartedSession
<1>6. Understood(d) = {[kind |-> "EaSessionStarted", arg |-> a] : a \in {s}}
  BY <1>3, <1>4, <1>5, SMT DEF Understood
<1>7. Understood(d) = {Thing("EaSessionStarted", s)}
  BY <1>6, SMT DEF Thing
<1> QED
  BY <1>3, <1>4, <1>7, SMT DEF d

LEMMA StopUnderstood ==
  ASSUME NEW s \in Sessions, NEW b \in Behind
  PROVE  LET d == Dressed(59905, Parameter(0, <<s>>), b)
         IN  d \in Seq(Byte) /\ Understood(d) = {Thing("EaSessionStopped", s)}
<1> DEFINE id == 59905
           z == 0
           d == Dressed(id, Parameter(z, <<s>>), b)
<1>1. id \in U16s /\ z \in U16s
  BY SMT, SmallNumber
<1>2. s \in Byte
  BY Limits
<1>3. id = 59905 /\ z = 0
  BY SMT
<1> HIDE DEF id, z
<1>4. /\ d \in Seq(Byte) /\ IsControl(d) /\ MessageId(d) = id /\ Len(d) >= 11 /\ d[11] = s
  BY <1>1, <1>2, ByteSaid
<1> HIDE DEF d
<1>5. StoppedSession(d) = {s}
  BY <1>3, <1>4, SMT DEF StoppedSession
<1>6. Understood(d) = {[kind |-> "EaSessionStopped", arg |-> a] : a \in {s}}
  BY <1>3, <1>4, <1>5, SMT DEF Understood
<1>7. Understood(d) = {Thing("EaSessionStopped", s)}
  BY <1>6, SMT DEF Thing
<1> QED
  BY <1>3, <1>4, <1>7, SMT DEF d

LEMMA ChallengeUnderstood ==
  ASSUME NEW c \in Secrets, NEW b \in Behind
  PROVE  LET d == Dressed(43522, Parameter(0, c), b)
         IN  d \in Seq(Byte) /\ Understood(d) = {Thing("Challenge", c)}
<1> DEFINE id == 43522
           z == 0
           p == Parameter(z, c)
           t == b[1]
           d == Dressed(id, p, b)
           q == p \o t
<1>0. /\ c \in Seq(Byte) /\ Len(c) = ChallengeSize /\ ~ (\A i \in DOMAIN c : c[i] = 0)
      /\ ChallengeSize \in Nat /\ ChallengeSize <= 60000
  BY Limits, SMT
<1>1. id \in U16s /\ z \in U16s
  BY SMT, SmallNumber
<1>2. id = 43522 /\ z = 0
  BY SMT
<1> HIDE DEF id, z
<1>3. Len(c) + 4 \in U16s /\ c \in Seq(Byte)
  <2>1. Len(c) + 4 \in Nat /\ Len(c) + 4 <= 65535
    BY <1>0, SMT
  <2> QED BY <2>1, <1>0, SmallNumber, SMT
<1>4. p \in Seq(Byte) /\ Len(p) = 4 + Len(c)
  BY <1>1, <1>3, ParameterBytes
<1>5. ASSUME NEW r \in Seq(Byte)
      PROVE  /\ Len(p \o r) = Len(c) + 4 + Len(r) /\ Len(r) \in Nat
             /\ U16At(p \o r, 1) = Len(c) + 4
             /\ SubSeq(p \o r, 5, 4 + Len(c)) = c
  BY <1>1, <1>3, HeadBytes, SMTT(40)
<1> HIDE DEF p
<1>6. /\ d \in Seq(Byte) /\ IsControl(d) /\ MessageId(d) = id /\ t \in Seq(Byte)
      /\ Contents(d) = q
  <2>1. Len(p) <= 60100 /\ p \in Seq(Byte)
    BY <1>0, <1>4, SMT
  <2> QED BY <2>1, <1>1, DressedIs
<1> HIDE DEF t, d
<1>7. /\ Len(q) = Len(c) + 4 + Len(t) /\ Len(t) \in Nat /\ U16At(q, 1) = Len(c) + 4
      /\ SubSeq(q, 5, 4 + Len(c)) = c
  BY <1>5, <1>6
<1> HIDE DEF q
<1>8. ChallengeIn(d) = {c}
  <2>1. ~ (Len(q) < 4 + ChallengeSize) /\ ~ (U16At(q, 1) > Len(q))
    BY <1>0, <1>7, SMT
  <2>2. SubSeq(q, 5, 4 + ChallengeSize) = c
    BY <1>0, <1>7, SMT
  <2> DEFINE e == SubSeq(q, 5, 4 + ChallengeSize)
  <2>3. e = c
    BY <2>2
  <2> HIDE DEF e
  <2>4. ~ (\A i \in DOMAIN e : e[i] = 0)
    <3>1. ~ (\A i \in DOMAIN c : c[i] = 0)
      BY <1>0
    <3> QED BY <2>3, <3>1
  <2>5. ChallengeIn(d) =
          IF \/ Len(q) < 4 + ChallengeSize \/ U16At(q, 1) > Len(q)
             \/ \A i \in DOMAIN e : e[i] = 0
          THEN {} ELSE {e}
    BY <1>6, Zenon DEF ChallengeIn, e
  <2> QED BY <2>1, <2>3, <2>4, <2>5, Zenon
<1>9. Understood(d) = {[kind |-> "Challenge", arg |-> a] : a \in {c}}
  BY <1>2, <1>6, <1>8, SMT DEF Understood
<1>10. Understood(d) = {Thing("Challenge", c)}
  <2>1. \A a : [kind |-> "Challenge", arg |-> a] = Thing("Challenge", a)
    BY DEF Thing
  <2> QED BY <1>9, <2>1, Zenon
<1> QED
  BY <1>2, <1>6, <1>10, SMT DEF d, p

-----------------------------------------------------------------------------
(* What a group of an update is read as                                    *)

(* A part is not longer than the whole. *)
LEMMA FlattenLonger ==
  ASSUME NEW A, NEW b \in Seq(Seq(A)), NEW k \in 1 .. Len(b)
  PROVE  Len(b[k]) <= Len(FlattenSeq(b)) /\ Len(b[k]) \in Nat /\ Len(FlattenSeq(b)) \in Nat
<1> DEFINE S == Seq(A)
           P(n) == SubSeq(b, 1, n)
           F(n) == FlattenSeq(P(n))
           T == {n \in 0 .. Len(b) : n >= k /\ ~ (Len(b[k]) <= Len(F(n)))}
<1>0. b \in Seq(S) /\ Len(b) \in Nat /\ k \in Nat /\ k >= 1
  OBVIOUS
<1>4. b[k] \in Seq(A) /\ Len(b[k]) \in Nat
  <2>1. b[k] \in S
    <3> HIDE DEF S
    <3> QED BY <1>0
  <2> QED BY <2>1
<1>5. FlattenSeq(b) \in Seq(A)
  BY FlattenType
<1>1. T = {}
  <2> SUFFICES ASSUME T # {} PROVE FALSE
    OBVIOUS
  <2>1. T \in SUBSET Nat
    OBVIOUS
  <2>2. PICK n \in T : \A l \in T : n <= l
    <3> HIDE DEF T
    <3> QED BY <2>1, LeastNat
  <2>3. n \in 0 .. Len(b) /\ n >= k /\ ~ (Len(b[k]) <= Len(F(n)))
    OBVIOUS
  <2> DEFINE u == P(n - 1)
             e == b[n]
             w == FlattenSeq(u)
             m == w \o e
  <2>4. n \in 1 .. Len(b) /\ n - 1 \in 0 .. Len(b) /\ ~ (n <= n - 1)
    BY <2>3, <1>0
  <2>5. P(n) = Append(u, e) /\ e \in S /\ u \in Seq(S)
    <3> HIDE DEF S
    <3> QED BY <2>4, <1>0, PieceBefore
  <2> HIDE DEF u
  <2>6. F(n) = m /\ w \in Seq(A)
    <3>1. FlattenSeq(Append(u, e)) = w \o e /\ w \in Seq(A)
      BY <2>5, FlattenAppend, FlattenType
    <3> QED BY <2>5, <3>1
  <2> HIDE DEF P, w, F
  <2>7. Len(m) = Len(w) + Len(e) /\ Len(w) \in Nat /\ Len(e) \in Nat
    <3>1. w \in Seq(A) /\ e \in Seq(A)
      BY <2>5, <2>6
    <3> HIDE DEF e
    <3> QED BY <3>1, Joined
  <2> HIDE DEF m
  <2>8. CASE n = k
    <3>1. Len(b[k]) = Len(e)
      BY <2>8
    <3> HIDE DEF e
    <3> QED BY <2>3, <2>6, <2>7, <3>1
  <2>9. CASE n # k
    <3>1. n - 1 \notin T
      <4> HIDE DEF T
      <4> QED BY <2>2, <2>4
    <3>2. Len(b[k]) <= Len(F(n - 1))
      <4>1. n - 1 >= k
        BY <2>9, <2>3, <2>4, <1>0
      <4> QED BY <4>1, <3>1, <2>4
    <3>3. F(n - 1) = w
      BY DEF F, w, u
    <3> HIDE DEF e
    <3> QED BY <2>3, <2>6, <2>7, <3>2, <3>3, <1>4, SMTT(40)
  <2> QED BY <2>8, <2>9
<1>2. P(Len(b)) = b
  BY WholePiece
<1>3. Len(b) \notin T /\ Len(b) \in 0 .. Len(b) /\ Len(b) >= k
  <2> HIDE DEF T
  <2> QED BY <1>0, <1>1
<1>6. Len(b[k]) <= Len(F(Len(b)))
  <2> HIDE DEF F, P
  <2> QED BY <1>3
<1>7. F(Len(b)) = FlattenSeq(b)
  <2> HIDE DEF P
  <2> QED BY <1>2
<1>8. Len(FlattenSeq(b)) \in Nat
  BY <1>5
<1> HIDE DEF F
<1> QED
  BY <1>4, <1>6, <1>7, <1>8

(* A set as a sequence has each element at one place. *)
LEMMA InSomeOrder ==
  ASSUME NEW S, IsFiniteSet(S)
  PROVE  LET o == SetToSeq(S)
         IN  /\ o \in Seq(S) /\ DOMAIN o = 1 .. Len(o) /\ Len(o) \in Nat
             /\ \A a, b \in 1 .. Len(o) : o[a] = o[b] => a = b
             /\ \A x \in S : \E a \in 1 .. Len(o) : o[a] = x
<1> DEFINE n == Cardinality(S)
           Good(f) == f \in [1 .. n -> S] /\ IsInjective(f)
           o == CHOOSE f \in [1 .. n -> S] : IsInjective(f)
<1>1. n \in Nat /\ ExistsBijection(1 .. n, S)
  BY FS_CardinalityType
<1>2. \E f \in [1 .. n -> S] : IsInjective(f)
  BY <1>1 DEF ExistsBijection, Bijection, Injection
<1>3. SetToSeq(S) = o
  BY Zenon DEF SetToSeq
<1>4. o \in [1 .. n -> S] /\ IsInjective(o)
  BY <1>2
<1> HIDE DEF o
<1>5. o \in Seq(S) /\ Len(o) = n /\ DOMAIN o = 1 .. n
  <2> HIDE DEF n
  <2> QED BY <1>1, <1>4
<1>6. o \in Surjection(1 .. n, S)
  <2>1. IsFiniteSet(1 .. n) /\ Cardinality(1 .. n) = n
    <3> HIDE DEF n
    <3>1. IsFiniteSet(1 .. n) /\ Cardinality(1 .. n) = IF 1 > n THEN 0 ELSE n - 1 + 1
      BY <1>1, FS_Interval
    <3> QED BY <3>1, <1>1
  <2>2. o \in Injection(1 .. n, S)
    BY <1>4 DEF Injection
  <2>3. \A x \in S : \E a \in 1 .. n : o[a] = x
    <3> DEFINE R == {o[a] : a \in 1 .. n}
    <3>1. R \subseteq S
      BY <1>4
    <3>2. o \in Bijection(1 .. n, R)
      BY <1>4 DEF Bijection, Injection, Surjection, IsInjective
    <3>3. ExistsBijection(1 .. n, R)
      BY <3>2 DEF ExistsBijection
    <3>4. Cardinality(R) = n
      <4> HIDE DEF n, R
      <4> QED BY <1>1, <3>3, FS_CountingElements
    <3>5. R = S
      <4> HIDE DEF R
      <4> QED BY <3>1, <3>4, FS_Subset
    <3> QED BY <3>5
  <2> QED BY <2>3, <1>4 DEF Surjection
<1>7. \A x \in S : \E a \in 1 .. n : o[a] = x
  BY <1>6 DEF Surjection
<1>8. \A a, b \in 1 .. n : o[a] = o[b] => a = b
  BY <1>4, <1>5 DEF IsInjective
<1> HIDE DEF n
<1> QED
  BY <1>1, <1>3, <1>5, <1>7, <1>8

LEMMA MaxOne ==
  ASSUME NEW k \in Nat
  PROVE  Max({k}) = k
BY DEF Max


-----------------------------------------------------------------------------
(* What the values of an update are read as                                *)

Kinds ==
  [title |-> "text", artist |-> "text", album |-> "text", app |-> "text",
   duration |-> "u32", elapsed |-> "u32",
   status |-> "status", shuffle |-> "shuffle", repeat |-> "repeat"]

Names == DOMAIN Kinds

Groups == {MediaGroup, PlaybackGroup}

LEMMA GroupFacts ==
  ASSUME NEW group \in Groups
  PROVE  /\ DOMAIN group \subseteq 0 .. 26
         /\ \A i \in DOMAIN group : group[i][1] \in Names /\ group[i][2] = Kinds[group[i][1]]
         /\ \A i, j \in DOMAIN group : group[i][1] = group[j][1] => i = j
<1>1. CASE group = MediaGroup
  <2>1. DOMAIN group = {1, 4, 12, 26}
    BY <1>1 DEF MediaGroup
  <2>2. /\ group[1] = <<"title", "text">> /\ group[4] = <<"duration", "u32">>
        /\ group[12] = <<"artist", "text">> /\ group[26] = <<"album", "text">>
    BY <1>1 DEF MediaGroup
  <2> QED BY <2>1, <2>2 DEF Names, Kinds
<1>2. CASE group = PlaybackGroup
  <2>1. DOMAIN group = {0, 1, 5, 6, 7}
    BY <1>2 DEF PlaybackGroup
  <2>2. /\ group[0] = <<"status", "status">> /\ group[1] = <<"elapsed", "u32">>
        /\ group[5] = <<"shuffle", "shuffle">> /\ group[6] = <<"repeat", "repeat">>
        /\ group[7] = <<"app", "text">>
    BY <1>2 DEF PlaybackGroup
  <2> QED BY <2>1, <2>2 DEF Names, Kinds
<1> QED
  BY <1>1, <1>2 DEF Groups

LEMMA ElementsIn ==
  ASSUME NEW S, NEW s \in Seq(S)
  PROVE  Len(s) \in Nat /\ DOMAIN s = 1 .. Len(s) /\ \A i \in 1 .. Len(s) : s[i] \in S
OBVIOUS

LEMMA FunctionSeq ==
  ASSUME NEW S, NEW n \in Nat, NEW f \in [1 .. n -> S]
  PROVE  f \in Seq(S) /\ Len(f) = n
OBVIOUS

LEMMA MinOne ==
  ASSUME NEW T \in SUBSET Nat, NEW k \in T, \A j \in T : k <= j
  PROVE  Min(T) = k
<1>1. \E x \in T : \A y \in T : x =< y
  OBVIOUS
<1>2. Min(T) \in T /\ \A y \in T : Min(T) =< y
  BY <1>1 DEF Min
<1>3. Min(T) \in Nat /\ k \in Nat /\ Min(T) <= k /\ k <= Min(T)
  BY <1>2
<1> QED
  BY <1>3

(* A text that can be read comes back as it was, unless it is blank. *)
LEMMA ReadText ==
  ASSUME NEW v \in Seq(1 .. 127)
  PROVE  TextIn(Append(v, 0)) = IF Blank(v) THEN {} ELSE {v}
<1> DEFINE p == Append(v, 0)
           I == {i \in 1 .. Len(p) : p[i] = 0}
           n == Len(v)
           text(t) == [i \in DOMAIN t |-> IF t[i] < 128 THEN t[i] ELSE Replacement]
<1>0. n \in Nat /\ \A i \in 1 .. n : v[i] \in Nat /\ v[i] >= 1 /\ v[i] <= 127
  <2>1. n \in Nat /\ \A i \in 1 .. n : v[i] \in 1 .. 127
    BY ElementsIn
  <2>2. \A x \in 1 .. 127 : x \in Nat /\ x >= 1 /\ x <= 127
    BY SMT
  <2> QED BY <2>1, <2>2, Zenon
<1>9. v \in Seq(Nat)
  BY <1>0
<1>1. /\ p \in Seq(Nat) /\ Len(p) = n + 1 /\ p[n + 1] = 0
      /\ \A i \in 1 .. n : p[i] = v[i]
  <2> QED BY <1>9
<1> HIDE DEF p
<1>2. n + 1 \in I /\ \A j \in I : n + 1 <= j
  BY <1>0, <1>1
<1>3. Min(I) = n + 1
  <2>1. I \in SUBSET Nat
    OBVIOUS
  <2> HIDE DEF I
  <2> QED BY <1>2, <2>1, MinOne
<1>4. SelectInSeq(p, LAMBDA b : b = 0) = n + 1
  <2>1. SelectInSeq(p, LAMBDA b : b = 0) = IF I # {} THEN Min(I) ELSE 0
    BY Zenon DEF SelectInSeq
  <2> HIDE DEF I
  <2> QED BY <1>2, <1>3, <2>1
<1>5. SubSeq(p, 1, n) = v
  <2> DEFINE q == SubSeq(p, 1, n)
  <2>1. q \in Seq(Nat) /\ Len(q) = n /\ \A i \in 1 .. n : q[i] = p[i]
    BY <1>0, <1>1
  <2> HIDE DEF q
  <2>2. v \in Seq(Nat) /\ Len(v) = n /\ \A i \in 1 .. Len(q) : q[i] = v[i]
    <3>1. Len(q) = n /\ \A i \in 1 .. Len(q) : q[i] = v[i]
      BY <1>0, <1>1, <2>1
    <3> QED BY <3>1, <1>9
  <2>3. q = v
    BY <2>1, <2>2, SameSeq
  <2> QED BY <2>3 DEF q
<1>6. text(v) = v
  BY <1>0
<1>7. TextIn(p) = IF \E c \in {Whitespace, {Replacement}} : \A i \in DOMAIN v : v[i] \in c
                  THEN {} ELSE {v}
  <2> DEFINE nul == SelectInSeq(p, LAMBDA b : b = 0)
             t == IF nul = 0 THEN p ELSE SubSeq(p, 1, nul - 1)
  <2>1. nul = n + 1
    BY <1>4
  <2> HIDE DEF nul
  <2>2. t = v
    BY <2>1, <1>0, <1>5
  <2>3. TextIn(p) = IF \E c \in {Whitespace, {Replacement}} : \A i \in DOMAIN text(t) : text(t)[i] \in c
                    THEN {} ELSE {text(t)}
    BY Zenon DEF TextIn, nul
  <2> HIDE DEF t, text
  <2> QED BY <2>2, <2>3, <1>6
<1>8. (\E c \in {Whitespace, {Replacement}} : \A i \in DOMAIN v : v[i] \in c) <=> Blank(v)
  <2>1. DOMAIN v = 1 .. n
    OBVIOUS
  <2>2. ASSUME NEW c \in {{255}, {Replacement}}, \A i \in DOMAIN v : v[i] \in c
        PROVE  \A i \in DOMAIN v : v[i] \in Whitespace
    BY <2>1, <2>2, <1>0, SMT DEF Replacement
  <2> QED BY <2>2, SMT DEF Blank
<1> QED
  BY <1>7, <1>8 DEF p

(* One that cannot comes back as none. *)
LEMMA ReadNoText ==
  ASSUME NEW v \in Seq({255})
  PROVE  TextIn(Append(v, 0)) = {} /\ Blank(v)
<1> DEFINE p == Append(v, 0)
           I == {i \in 1 .. Len(p) : p[i] = 0}
           n == Len(v)
           text(t) == [i \in DOMAIN t |-> IF t[i] < 128 THEN t[i] ELSE Replacement]
<1>0. n \in Nat /\ \A i \in 1 .. n : v[i] = 255
  OBVIOUS
<1>1. /\ p \in Seq(Nat) /\ Len(p) = n + 1 /\ p[n + 1] = 0
      /\ \A i \in 1 .. n : p[i] = v[i]
  <2>1. v \in Seq(Nat)
    BY <1>0, SMT
  <2> QED BY <2>1
<1> HIDE DEF p
<1>2. n + 1 \in I /\ \A j \in I : n + 1 <= j
  BY <1>0, <1>1, SMT
<1>3. Min(I) = n + 1
  <2>1. I \in SUBSET Nat
    OBVIOUS
  <2> HIDE DEF I
  <2> QED BY <1>2, <2>1, MinOne
<1>4. SelectInSeq(p, LAMBDA b : b = 0) = n + 1
  <2>1. SelectInSeq(p, LAMBDA b : b = 0) = IF I # {} THEN Min(I) ELSE 0
    BY Zenon DEF SelectInSeq
  <2> HIDE DEF I
  <2> QED BY <1>2, <1>3, <2>1
<1>5. SubSeq(p, 1, n) = v
  <2> DEFINE q == SubSeq(p, 1, n)
  <2>1. q \in Seq(Nat) /\ Len(q) = n /\ \A i \in 1 .. n : q[i] = p[i]
    BY <1>0, <1>1, SMT
  <2> HIDE DEF q
  <2>2. v \in Seq(Nat) /\ Len(v) = n /\ \A i \in 1 .. Len(q) : q[i] = v[i]
    BY <1>0, <1>1, <2>1, SMT
  <2>3. q = v
    BY <2>1, <2>2, SameSeq
  <2> QED BY <2>3 DEF q
<1>6. \A i \in DOMAIN text(v) : text(v)[i] = Replacement
  BY <1>0, SMT
<1>7. TextIn(p) = {}
  <2> DEFINE nul == SelectInSeq(p, LAMBDA b : b = 0)
             t == IF nul = 0 THEN p ELSE SubSeq(p, 1, nul - 1)
  <2>1. nul = n + 1
    BY <1>4
  <2> HIDE DEF nul
  <2>2. t = v
    BY <2>1, <1>0, <1>5, SMT
  <2>3. TextIn(p) = IF \E c \in {Whitespace, {Replacement}} : \A i \in DOMAIN text(t) : text(t)[i] \in c
                    THEN {} ELSE {text(t)}
    BY Zenon DEF TextIn, nul
  <2> HIDE DEF t, text
  <2> QED BY <2>2, <2>3, <1>6
<1>8. Blank(v)
  BY <1>0, SMT DEF Blank
<1> QED
  BY <1>7, <1>8 DEF p


LEMMA NamesFound ==
  ASSUME NEW names, NEW n \in Nat, DOMAIN names = 1 .. n, NEW v \in Range(names)
  PROVE  LET i == PositionIn(names, v)
         IN  i \in 1 .. n /\ FirstIn(<<i - 1>>, names) = {v}
<1> DEFINE i == PositionIn(names, v)
<1>1. \E j \in DOMAIN names : names[j] = v
  BY DEF Range
<1>2. i \in DOMAIN names /\ names[i] = v
  BY <1>1 DEF PositionIn
<1> HIDE DEF i
<1>3. i \in 1 .. n
  BY <1>2
<1>4. (i - 1) + 1 = i
  BY <1>3
<1> DEFINE p == <<i - 1>>
<1>5. p # <<>> /\ p[1] = i - 1
  OBVIOUS
<1>6. Named(names, i - 1) = v
  BY <1>2, <1>4 DEF Named
<1> HIDE DEF p
<1>7. FirstIn(p, names) = {v}
  BY <1>5, <1>6 DEF FirstIn
<1> QED
  BY <1>3, <1>7 DEF i, p

(* What is written for a value of an attribute is read as that value; a    *)
(* blank text is read as none.                                             *)
LEMMA ValueRead ==
  ASSUME NEW a \in Names, NEW v \in Values[Kinds[a]]
  PROVE  /\ BytesOf(a, v) \in Seq(Byte)
         /\ ValueIn(Kinds[a], BytesOf(a, v)) = IF HasValue(a, v) THEN {v} ELSE {}
<1> DEFINE p == BytesOf(a, v)
<1>1. CASE a \in {"title", "artist", "album", "app"}
  <2>1. Kinds[a] = "text" /\ p = Append(v, 0)
    BY <1>1 DEF Kinds, BytesOf, Text
  <2>2. v \in Seq(1 .. 127) \cup Seq({255})
    BY <2>1 DEF Values
  <2>3. HasValue(a, v) <=> ~ Blank(v)
    BY <1>1 DEF HasValue
  <2>4. v \in Seq(Byte)
    <3>1. \A x \in (1 .. 127) \cup {255} : x \in Byte
      BY SMT DEF Byte
    <3> DEFINE S == 1 .. 127
               R == {255}
    <3>2. \A x \in S \cup R : x \in Byte
      BY <3>1
    <3>3. v \in Seq(S) \/ v \in Seq(R)
      BY <2>2
    <3> HIDE DEF S, R
    <3> QED BY <3>2, <3>3
  <2>5. p \in Seq(Byte)
    <3>1. 0 \in Byte
      BY SMT DEF Byte
    <3> QED BY <2>1, <2>4, <3>1
  <2>6. ValueIn(Kinds[a], p) = TextIn(p)
    BY <2>1 DEF ValueIn
  <2> HIDE DEF p
  <2>7. TextIn(p) = IF Blank(v) THEN {} ELSE {v}
    BY <2>1, <2>2, ReadText, ReadNoText
  <2> QED BY <2>3, <2>5, <2>6, <2>7 DEF p
<1>2. CASE a \in {"duration", "elapsed"}
  <2>1. Kinds[a] = "u32" /\ p = v
    BY <1>2 DEF Kinds, BytesOf
  <2>2. v \in [1 .. 4 -> Byte]
    BY <2>1 DEF Values
  <2>3. v \in Seq(Byte) /\ Len(v) = 4
    <3> DEFINE n == 4
    <3>1. n \in Nat /\ v \in [1 .. n -> Byte]
      BY <2>2
    <3> HIDE DEF n
    <3>2. v \in Seq(Byte) /\ Len(v) = n
      BY <3>1, FunctionSeq
    <3> QED BY <3>2 DEF n
  <2>4. HasValue(a, v)
    BY <1>2 DEF HasValue
  <2>5. SubSeq(v, 1, 4) = v
    BY <2>3
  <2>6. ValueIn(Kinds[a], p) = IF Len(v) < 4 THEN {} ELSE {SubSeq(v, 1, 4)}
    BY <2>1 DEF ValueIn
  <2> HIDE DEF p
  <2>7. ValueIn(Kinds[a], p) = {v}
    BY <2>3, <2>5, <2>6
  <2> QED BY <2>1, <2>3, <2>4, <2>7 DEF p
<1>3. CASE a \in {"status", "shuffle", "repeat"}
  <2> DEFINE names == CASE a = "status" -> Status [] a = "shuffle" -> Shuffle [] OTHER -> Repeat
             i == PositionIn(names, v)
  <2>1. HasValue(a, v)
    BY <1>3 DEF HasValue
  <2>2. v \in Range(names) /\ ValueIn(Kinds[a], p) = FirstIn(p, names) /\ p = <<i - 1>>
    BY <1>3 DEF Kinds, BytesOf, Values, ValueIn
  <2>3. \E n \in Nat : n <= 5 /\ DOMAIN names = 1 .. n
    <3>1. DOMAIN Status = 1 .. 5
      BY DEF Status
    <3>2. DOMAIN Shuffle = 1 .. 3
      BY DEF Shuffle
    <3>3. DOMAIN Repeat = 1 .. 3
      BY DEF Repeat
    <3>4. names = Status \/ names = Shuffle \/ names = Repeat
      BY <1>3
    <3> HIDE DEF names
    <3>5. DOMAIN names = 1 .. 5 \/ DOMAIN names = 1 .. 3
      BY <3>1, <3>2, <3>3, <3>4
    <3>6. 5 \in Nat /\ 5 <= 5 /\ 3 \in Nat /\ 3 <= 5
      OBVIOUS
    <3> QED BY <3>5, <3>6, Zenon
  <2> HIDE DEF names
  <2>4. PICK n \in Nat : n <= 5 /\ DOMAIN names = 1 .. n
    BY <2>3
  <2>5. i \in 1 .. n /\ FirstIn(<<i - 1>>, names) = {v}
    BY <2>2, <2>4, NamesFound
  <2> HIDE DEF i
  <2>6. i - 1 \in Byte
    <3>1. i \in {1, 2, 3, 4, 5}
      BY <2>4, <2>5
    <3>2. 0 \in Byte /\ 1 \in Byte /\ 2 \in Byte /\ 3 \in Byte /\ 4 \in Byte
      BY DEF Byte
    <3> QED BY <3>1, <3>2
  <2> HIDE DEF p
  <2>7. p \in Seq(Byte)
    BY <2>2, <2>6
  <2> QED BY <2>1, <2>2, <2>5, <2>7 DEF p
<1>4. a \in {"title", "artist", "album", "app"} \cup {"duration", "elapsed"}
            \cup {"status", "shuffle", "repeat"}
  BY DEF Names, Kinds
<1> QED
  BY <1>1, <1>2, <1>3, <1>4


Room == 60000

(* The attributes of a change that a group has. *)
Members(group, change) == {i \in DOMAIN group : group[i][1] \in DOMAIN change}

BytesFor(group, change, i) == BytesOf(group[i][1], change[group[i][1]])

(* What is read of them. *)
GroupHeard(group, change) ==
  [a \in {x \in DOMAIN Heard(change) : \E i \in DOMAIN group : group[i][1] = x} |-> change[a]]

ValuesFit(group, change) ==
  \A i \in Members(group, change) : change[group[i][1]] \in Values[Kinds[group[i][1]]]

LEMMA GroupParameters ==
  ASSUME NEW group \in Groups, NEW change, ValuesFit(group, change), NEW id \in U16s,
         Members(group, change) # {}, Len(GroupOf(id, group, change)) <= Room
  PROVE  \E flat \in Seq(Byte), ps \in Seq(Param) :
           /\ GroupOf(id, group, change) = Parameter(id, flat)
           /\ Len(flat) + 4 \in U16s /\ ParseParameters(flat) = ps
           /\ \A k \in 1 .. Len(ps) :
                /\ ps[k].id \in Members(group, change)
                /\ ps[k].payload = BytesFor(group, change, ps[k].id)
           /\ \A k, l \in 1 .. Len(ps) : ps[k].id = ps[l].id => k = l
           /\ \A i \in Members(group, change) : \E k \in 1 .. Len(ps) : ps[k].id = i
<1> DEFINE members == Members(group, change)
           o == SetToSeq(members)
           said(i) == BytesFor(group, change, i)
           value(i) == Parameter(i, said(i))
           b == [k \in DOMAIN o |-> value(o[k])]
           ps == [k \in DOMAIN o |-> [id |-> o[k], payload |-> said(o[k])]]
           flat == FlattenSeq(b)
<1>1. /\ \A i \in members : i \in 0 .. 26
      /\ \A i \in members : group[i][1] \in Names
  BY GroupFacts DEF Members
<1>19. \A i \in members : i \in Nat /\ i <= 26
  <2>1. \A i \in 0 .. 26 : i \in Nat /\ i <= 26
    BY SMT
  <2> HIDE DEF members
  <2> QED BY <1>1, <2>1
<1>2. IsFiniteSet(members)
  <2>1. members \in SUBSET Nat /\ \A i \in members : i <= 26
    BY <1>19
  <2> HIDE DEF members
  <2> QED BY <2>1, FS_BoundedSetOfNaturals
<1>3. \A i \in members : i \in U16s /\ i \in Nat
  <2>1. \A i \in members : i \in Nat /\ i <= 65535
    <3> HIDE DEF members
    <3> QED BY <1>19, SMT
  <2> QED BY <2>1 DEF U16s
<1>4. \A i \in members : said(i) \in Seq(Byte)
  <2> SUFFICES ASSUME NEW i \in members PROVE said(i) \in Seq(Byte)
    OBVIOUS
  <2> DEFINE a == group[i][1]
             v == change[a]
  <2>1. a \in Names /\ v \in Values[Kinds[a]]
    BY <1>1 DEF ValuesFit
  <2> HIDE DEF a, v
  <2>2. BytesOf(a, v) \in Seq(Byte)
    BY <2>1, ValueRead
  <2> QED BY <2>2 DEF BytesFor, a, v
<1>5. /\ o \in Seq(members) /\ DOMAIN o = 1 .. Len(o) /\ Len(o) \in Nat
      /\ \A k, l \in 1 .. Len(o) : o[k] = o[l] => k = l
      /\ \A x \in members : \E k \in 1 .. Len(o) : o[k] = x
  <2> HIDE DEF members
  <2> QED BY <1>2, InSomeOrder
<1>6. GroupOf(id, group, change) = Parameter(id, flat)
  <2>1. GroupOf(id, group, change) = IF members = {} THEN <<>> ELSE Parameter(id, flat)
    BY Zenon DEF GroupOf, Members, BytesFor
  <2> QED BY <2>1
<1> HIDE DEF members, o, said
<1>7. \A k \in 1 .. Len(o) : o[k] \in members
  BY <1>5
<1>8. \A i \in members : value(i) \in Seq(Byte) /\ Len(value(i)) = 4 + Len(said(i))
  <2> SUFFICES ASSUME NEW i \in members
               PROVE  value(i) \in Seq(Byte) /\ Len(value(i)) = 4 + Len(said(i))
    OBVIOUS
  <2> DEFINE p == said(i)
             n == Len(p) + 4
  <2>1. p \in Seq(Byte) /\ i \in Nat /\ n \in Nat
    BY <1>3, <1>4
  <2> HIDE DEF p
  <2>2. Parameter(i, p) = Sized(n, i, p)
    BY DEF Parameter
  <2> HIDE DEF n
  <2>3. Sized(n, i, p) \in Seq(Byte) /\ Len(Sized(n, i, p)) = 4 + Len(p)
    BY <2>1, SizedBytes
  <2> QED BY <2>2, <2>3 DEF p
<1>9. /\ b \in Seq(Seq(Byte)) /\ Len(b) = Len(o)
      /\ \A k \in 1 .. Len(o) : b[k] = value(o[k])
  <2> HIDE DEF value
  <2>1. b \in [1 .. Len(o) -> Seq(Byte)]
    BY <1>5, <1>7, <1>8
  <2>2. b \in Seq(Seq(Byte)) /\ Len(b) = Len(o)
    <3> HIDE DEF b
    <3> QED BY <2>1, <1>5, FunctionSeq
  <2> QED BY <2>2, <1>5
<1> HIDE DEF b
<1>10. flat \in Seq(Byte)
  BY <1>9, FlattenType
<1> HIDE DEF flat
<1>11. Len(flat) + 4 \in U16s
  <2> DEFINE n == Len(flat) + 4
  <2>1. n \in Nat /\ n = Len(flat) + 4
    BY <1>10
  <2>2. Parameter(id, flat) = Sized(n, id, flat)
    BY DEF Parameter
  <2> HIDE DEF n
  <2>3. Len(Sized(n, id, flat)) = 4 + Len(flat)
    <3>1. id \in Nat
      BY DEF U16s
    <3> QED BY <3>1, <2>1, <1>10, SizedBytes
  <2>4. n <= 60000
    BY <2>1, <2>2, <2>3, <1>6, <1>10, SMT DEF Room
  <2>5. n <= 65535
    BY <2>1, <2>4, SMT
  <2> QED BY <2>1, <2>5, SmallNumber
<1>12. \A i \in members : Len(said(i)) + 4 \in U16s
  <2> SUFFICES ASSUME NEW i \in members PROVE Len(said(i)) + 4 \in U16s
    OBVIOUS
  <2>1. PICK k \in 1 .. Len(o) : o[k] = i
    BY <1>5
  <2>2. b[k] = value(i) /\ k \in 1 .. Len(b)
    BY <2>1, <1>9
  <2>3. Len(b[k]) <= Len(flat) /\ Len(flat) \in Nat /\ Len(b[k]) \in Nat
    <3>1. Len(b[k]) <= Len(FlattenSeq(b)) /\ Len(FlattenSeq(b)) \in Nat /\ Len(b[k]) \in Nat
      BY <2>2, <1>9, FlattenLonger
    <3> QED BY <3>1 DEF flat
  <2>4. Len(value(i)) = 4 + Len(said(i)) /\ Len(said(i)) \in Nat
    <3>1. said(i) \in Seq(Byte)
      BY <1>4
    <3> QED BY <3>1, <1>8
  <2> HIDE DEF value
  <2>5. Len(said(i)) + 4 <= Len(flat)
    BY <2>2, <2>3, <2>4
  <2>6. Len(flat) + 4 \in Nat /\ Len(flat) + 4 <= 65535
    BY <1>11 DEF U16s
  <2>7. Len(said(i)) + 4 \in Nat /\ Len(said(i)) + 4 <= 65535
    BY <2>3, <2>4, <2>5, <2>6, SMT
  <2> QED BY <2>7, SmallNumber
<1>13. /\ ps \in Seq(Param) /\ Len(ps) = Len(o)
       /\ \A k \in 1 .. Len(o) : ps[k].id = o[k] /\ ps[k].payload = said(o[k])
  <2> DEFINE q(i) == [id |-> i, payload |-> said(i)]
  <2>1. \A i \in members : q(i) \in Param
    BY <1>3, <1>4 DEF Param
  <2>2. ps = [k \in 1 .. Len(o) |-> q(o[k])]
    BY <1>5
  <2>3. \A i \in members : q(i).id = i /\ q(i).payload = said(i)
    OBVIOUS
  <2> HIDE DEF q, ps
  <2>4. ps \in [1 .. Len(o) -> Param]
    BY <2>1, <2>2, <1>7
  <2>5. ps \in Seq(Param) /\ Len(ps) = Len(o)
    BY <2>4, <1>5, FunctionSeq
  <2>6. \A k \in 1 .. Len(o) : ps[k] = q(o[k])
    BY <2>2
  <2> QED BY <2>3, <2>5, <2>6, <1>7
<1> HIDE DEF ps
<1>14. Reads(flat, ps)
  <2>1. ASSUME NEW k \in 1 .. Len(b)
        PROVE  /\ Len(ps[k].payload) + 4 \in U16s
               /\ b[k] = Parameter(ps[k].id, ps[k].payload)
    <3>1. k \in 1 .. Len(o) /\ o[k] \in members
      BY <1>7, <1>9
    <3>2. ps[k].id = o[k] /\ ps[k].payload = said(o[k]) /\ b[k] = value(o[k])
      BY <3>1, <1>9, <1>13
    <3> QED BY <3>1, <3>2, <1>12
  <2>2. b \in Seq(Seq(Byte)) /\ ps \in Seq(Param) /\ Len(b) = Len(ps)
    BY <1>9, <1>13
  <2> QED BY <2>1, <2>2, ReadsMany DEF flat
<1>15. ParseParameters(flat) = ps
  BY <1>14, ReadsIs
<1>16. \A k \in 1 .. Len(ps) : ps[k].id \in members /\ ps[k].payload = said(ps[k].id)
  BY <1>7, <1>13
<1>17. \A k, l \in 1 .. Len(ps) : ps[k].id = ps[l].id => k = l
  BY <1>5, <1>13
<1>18. \A i \in members : \E k \in 1 .. Len(ps) : ps[k].id = i
  BY <1>5, <1>13
<1> QED
  BY <1>6, <1>10, <1>11, <1>13, <1>15, <1>16, <1>17, <1>18 DEF members, said


(* ParseGroup, of the parameters. *)
GroupFrom(group, ps) ==
  LET name(i) == group[ps[i].id][1]
      value(i) == ValueIn(group[ps[i].id][2], ps[i].payload)
      valued == {i \in DOMAIN ps : ps[i].id \in DOMAIN group /\ value(i) # {}}
      last(a) == Max({i \in valued : name(i) = a})
  IN  [a \in {name(i) : i \in valued} |-> CHOOSE v \in value(last(a)) : TRUE]

(* A group is read as the values of its attributes, whatever their order.  *)
LEMMA GroupParsed ==
  ASSUME NEW group \in Groups, NEW change, ValuesFit(group, change),
         NEW d, NEW ps \in Seq(Param), ParseParameters(d) = ps,
         \A k \in 1 .. Len(ps) : /\ ps[k].id \in Members(group, change)
                                 /\ ps[k].payload = BytesFor(group, change, ps[k].id),
         \A k, l \in 1 .. Len(ps) : ps[k].id = ps[l].id => k = l,
         \A i \in Members(group, change) : \E k \in 1 .. Len(ps) : ps[k].id = i
  PROVE  ParseGroup(group, d) = GroupHeard(group, change)
<1> DEFINE name(i) == group[ps[i].id][1]
           value(i) == ValueIn(group[ps[i].id][2], ps[i].payload)
           valued == {i \in DOMAIN ps : ps[i].id \in DOMAIN group /\ value(i) # {}}
           last(a) == Max({i \in valued : name(i) = a})
           g == GroupHeard(group, change)
           members == Members(group, change)
<1>1. ParseGroup(group, d) =
        [a \in {name(i) : i \in valued} |-> CHOOSE v \in value(last(a)) : TRUE]
  <2>1. ParseGroup(group, d) = GroupFrom(group, ParseParameters(d))
    BY Zenon DEF ParseGroup, GroupFrom
  <2>2. ParseGroup(group, d) = GroupFrom(group, ps)
    BY <2>1
  <2>3. GroupFrom(group, ps) =
          [a \in {name(i) : i \in valued} |-> CHOOSE v \in value(last(a)) : TRUE]
    BY Zenon DEF GroupFrom
  <2> HIDE DEF name, value, valued, last
  <2> QED BY <2>2, <2>3
<1>2. DOMAIN ps = 1 .. Len(ps) /\ Len(ps) \in Nat
  OBVIOUS
<1>3. ASSUME NEW k \in 1 .. Len(ps)
      PROVE  /\ ps[k].id \in members /\ ps[k].id \in DOMAIN group
             /\ name(k) \in DOMAIN change
             /\ value(k) = IF HasValue(name(k), change[name(k)]) THEN {change[name(k)]} ELSE {}
  <2> DEFINE i == ps[k].id
             a == group[i][1]
             v == change[a]
  <2>1. i \in members /\ ps[k].payload = BytesFor(group, change, i)
    OBVIOUS
  <2> HIDE DEF i
  <2>2. i \in DOMAIN group /\ a \in DOMAIN change /\ v \in Values[Kinds[a]]
    BY <2>1 DEF Members, ValuesFit
  <2>3. a \in Names /\ group[i][2] = Kinds[a]
    BY <2>2, GroupFacts
  <2>4. ps[k].payload = BytesOf(a, v)
    BY <2>1 DEF BytesFor
  <2> HIDE DEF a, v
  <2>5. ValueIn(Kinds[a], BytesOf(a, v)) = IF HasValue(a, v) THEN {v} ELSE {}
    BY <2>2, <2>3, ValueRead
  <2>6. value(k) = IF HasValue(a, v) THEN {v} ELSE {}
    BY <2>3, <2>4, <2>5 DEF i
  <2>7. name(k) = a
    BY DEF a, i
  <2>8. change[name(k)] = v
    BY <2>7 DEF v
  <2> HIDE DEF name, value
  <2> QED BY <2>1, <2>2, <2>6, <2>7, <2>8 DEF i
<1>4. ASSUME NEW k \in 1 .. Len(ps), NEW l \in 1 .. Len(ps), name(k) = name(l)
      PROVE  k = l
  <2>1. ps[k].id \in DOMAIN group /\ ps[l].id \in DOMAIN group
    BY <1>3
  <2>2. ps[k].id = ps[l].id
    BY <2>1, <1>4, GroupFacts
  <2> QED BY <2>2
<1>5. \A i \in members : \E k \in 1 .. Len(ps) : name(k) = group[i][1]
  OBVIOUS
<1>6. valued = {k \in 1 .. Len(ps) : HasValue(name(k), change[name(k)])}
  <2>1. \A k \in 1 .. Len(ps) :
          /\ ps[k].id \in DOMAIN group
          /\ value(k) # {} <=> HasValue(name(k), change[name(k)])
    <3> TAKE k \in 1 .. Len(ps)
    <3>1. /\ ps[k].id \in DOMAIN group
          /\ value(k) = IF HasValue(name(k), change[name(k)]) THEN {change[name(k)]} ELSE {}
      BY <1>3
    <3> HIDE DEF name, value
    <3> QED BY <3>1
  <2>2. DOMAIN ps = 1 .. Len(ps)
    BY <1>2
  <2> HIDE DEF name, value
  <2> QED BY <2>1, <2>2, SMTT(40)
<1>7. DOMAIN g = {x \in DOMAIN change :
                    HasValue(x, change[x]) /\ \E i \in DOMAIN group : group[i][1] = x}
      /\ \A x \in DOMAIN g : g[x] = change[x]
  BY DEF GroupHeard, Heard
<1>8. {name(i) : i \in valued} = DOMAIN g
  <2>1. ASSUME NEW k \in valued PROVE name(k) \in DOMAIN g
    <3>1. k \in 1 .. Len(ps) /\ HasValue(name(k), change[name(k)])
      BY <1>6
    <3>2. name(k) \in DOMAIN change /\ \E i \in DOMAIN group : group[i][1] = name(k)
      BY <3>1, <1>3
    <3> HIDE DEF name
    <3> QED BY <3>1, <3>2, <1>7
  <2>2. ASSUME NEW x \in DOMAIN g PROVE \E k \in valued : name(k) = x
    <3>1. x \in DOMAIN change /\ HasValue(x, change[x])
      BY <1>7
    <3>2. PICK i \in DOMAIN group : group[i][1] = x
      BY <1>7
    <3>3. i \in members
      BY <3>1, <3>2 DEF Members
    <3>4. PICK k \in 1 .. Len(ps) : name(k) = x
      BY <3>2, <3>3, <1>5
    <3> HIDE DEF name
    <3> QED BY <3>1, <3>4, <1>6
  <2> DEFINE R == {name(i) : i \in valued}
             D == DOMAIN g
  <2>3. \A x : x \in R <=> \E i \in valued : x = name(i)
    OBVIOUS
  <2> HIDE DEF name, valued, g, R
  <2>4. \A x \in R : x \in D
    BY <2>1, <2>3
  <2>5. \A x \in D : x \in R
    BY <2>2, <2>3
  <2> HIDE DEF D
  <2>6. R = D
    BY <2>4, <2>5
  <2> QED BY <2>6 DEF R, D
<1>9. ASSUME NEW x \in DOMAIN g
      PROVE  (CHOOSE v \in value(last(x)) : TRUE) = g[x]
  <2>1. PICK k \in valued : name(k) = x
    BY <1>8
  <2>2. k \in 1 .. Len(ps)
    BY <1>6
  <2>3. {i \in valued : name(i) = x} = {k}
    <3>1. ASSUME NEW i \in valued, name(i) = x PROVE i = k
      <4>1. i \in 1 .. Len(ps)
        BY <1>6
      <4> QED BY <4>1, <3>1, <2>1, <2>2, <1>4
    <3> HIDE DEF name, valued
    <3> QED BY <3>1, <2>1
  <2>4. last(x) = k
    <3>1. k \in Nat
      BY <2>2
    <3> QED BY <2>3, <3>1, MaxOne
  <2>5. value(k) = {change[x]}
    <3> HIDE DEF value
    <3>1. HasValue(name(k), change[name(k)])
      BY <2>1, <1>6
    <3> HIDE DEF name
    <3> QED BY <3>1, <2>1, <2>2, <1>3
  <2> HIDE DEF value, last, name, valued
  <2>6. (CHOOSE v \in {change[x]} : TRUE) = change[x]
    OBVIOUS
  <2> QED BY <2>4, <2>5, <2>6, <1>7
<1>10. g = [x \in DOMAIN g |-> g[x]]
  BY DEF GroupHeard
<1> HIDE DEF name, valued, value, last, g
<1>11. [a \in {name(i) : i \in valued} |-> CHOOSE v \in value(last(a)) : TRUE] = [x \in DOMAIN g |-> g[x]]
  BY <1>8, <1>9
<1> QED
  BY <1>1, <1>10, <1>11 DEF g


LEMMA LastOfNone ==
  ASSUME NEW group
  PROVE  LastGroup(group, <<>>) = Nothing
BY DEF LastGroup

LEMMA LastOfOne ==
  ASSUME NEW group, NEW p
  PROVE  LET g == ParseGroup(group, p)
         IN  LastGroup(group, <<p>>) = IF DOMAIN g = {} THEN Nothing ELSE g
<1> DEFINE s == <<p>>
           valued(t) == {i \in DOMAIN t : DOMAIN ParseGroup(group, t[i]) # {}}
           g == ParseGroup(group, p)
<1>1. LastGroup(group, s) =
        IF valued(s) = {} THEN Nothing ELSE ParseGroup(group, s[Max(valued(s))])
  BY Zenon DEF LastGroup
<1>2. DOMAIN s = {1} /\ s[1] = p
  OBVIOUS
<1> HIDE DEF s
<1>3. valued(s) = IF DOMAIN g = {} THEN {} ELSE {1}
  BY <1>2
<1>4. Max({1}) = 1
  BY MaxOne
<1> HIDE DEF valued
<1>5. LastGroup(group, s) = IF DOMAIN g = {} THEN Nothing ELSE g
  BY <1>1, <1>2, <1>3, <1>4
<1> QED
  BY <1>5 DEF s

(* A group on its own: its parameters have its number, and its values are  *)
(* those of the change.                                                    *)
LEMMA GroupSaid ==
  ASSUME NEW group \in Groups, NEW change, ValuesFit(group, change), NEW id \in U16s,
         Len(GroupOf(id, group, change)) <= Room
  PROVE  \E ps \in Seq(Param) :
           /\ Reads(GroupOf(id, group, change), ps)
           /\ \A k \in 1 .. Len(ps) : ps[k].id = id
           /\ LET l == LastGroup(group, Those(ps, id))
              IN  /\ DOMAIN l = DOMAIN GroupHeard(group, change)
                  /\ \A a \in DOMAIN l : l[a] = change[a]
<1> DEFINE members == Members(group, change)
           g == GroupHeard(group, change)
<1>0. \A a \in DOMAIN g : g[a] = change[a]
  BY DEF GroupHeard
<1>1. CASE members = {}
  <2>1. GroupOf(id, group, change) = <<>>
    BY <1>1, Zenon DEF GroupOf, Members
  <2>2. Reads(<<>>, <<>>) /\ <<>> \in Seq(Param) /\ Len(<<>>) = 0
    BY ReadsNone
  <2>3. DOMAIN g = {}
    BY <1>1 DEF GroupHeard, Heard, Members
  <2>4. Those(<<>>, id) = <<>>
    <3>1. \A i \in 1 .. Len(<<>>) : <<>>[i].id # id
      OBVIOUS
    <3> QED BY <2>2, <3>1, ThoseNone
  <2>5. LastGroup(group, <<>>) = Nothing /\ DOMAIN Nothing = {}
    BY LastOfNone DEF Nothing
  <2> DEFINE l == LastGroup(group, Those(<<>>, id))
  <2>6. DOMAIN l = DOMAIN g /\ \A a \in DOMAIN l : l[a] = change[a]
    BY <2>3, <2>4, <2>5
  <2>7. \A k \in 1 .. Len(<<>>) : <<>>[k].id = id
    OBVIOUS
  <2> HIDE DEF l, g
  <2> DEFINE e == <<>>
  <2>8. /\ e \in Seq(Param) /\ Reads(GroupOf(id, group, change), e)
        /\ \A k \in 1 .. Len(e) : e[k].id = id
        /\ l = LastGroup(group, Those(e, id))
    BY <2>1, <2>2, <2>7 DEF l
  <2> HIDE DEF e
  <2> QED BY <2>6, <2>8 DEF g
<1>2. CASE members # {}
  <2>1. PICK flat \in Seq(Byte), qs \in Seq(Param) :
           /\ GroupOf(id, group, change) = Parameter(id, flat)
           /\ Len(flat) + 4 \in U16s /\ ParseParameters(flat) = qs
           /\ \A k \in 1 .. Len(qs) :
                /\ qs[k].id \in Members(group, change)
                /\ qs[k].payload = BytesFor(group, change, qs[k].id)
           /\ \A k, l \in 1 .. Len(qs) : qs[k].id = qs[l].id => k = l
           /\ \A i \in Members(group, change) : \E k \in 1 .. Len(qs) : qs[k].id = i
    BY <1>2, GroupParameters
  <2>2. ParseGroup(group, flat) = g
    BY <2>1, GroupParsed
  <2> DEFINE p == [id |-> id, payload |-> flat]
             ps == <<p>>
  <2>3. p \in Param /\ p.id = id /\ p.payload = flat
    BY DEF Param
  <2>4. Reads(Parameter(id, flat), ps)
    BY <2>1, ReadsOne
  <2> HIDE DEF p
  <2>5. ps \in Seq(Param) /\ \A k \in 1 .. Len(ps) : ps[k].id = id
    BY <2>3
  <2>6. Those(ps, id) = <<flat>>
    BY <2>3, ThoseOne DEF PayloadIf
  <2> HIDE DEF ps
  <2> DEFINE l == LastGroup(group, Those(ps, id))
  <2>7. l = IF DOMAIN g = {} THEN Nothing ELSE g
    BY <2>2, <2>6, LastOfOne
  <2>8. DOMAIN Nothing = {}
    BY DEF Nothing
  <2> HIDE DEF g
  <2>9. DOMAIN l = DOMAIN g /\ \A a \in DOMAIN l : l[a] = change[a]
    <3> HIDE DEF l
    <3> QED BY <2>7, <2>8, <1>0
  <2>10. Reads(GroupOf(id, group, change), ps)
    BY <2>1, <2>4
  <2> QED BY <2>5, <2>9, <2>10 DEF g
<1> QED
  BY <1>1, <1>2

LEMMA GroupLength ==
  ASSUME NEW group \in Groups, NEW change, NEW id \in U16s, ValuesFit(group, change)
  PROVE  GroupOf(id, group, change) \in Seq(Byte) /\ Len(GroupOf(id, group, change)) \in Nat
<1> DEFINE members == Members(group, change)
           o == SetToSeq(members)
           value(i) == Parameter(i, BytesFor(group, change, i))
           b == [k \in DOMAIN o |-> value(o[k])]
           flat == FlattenSeq(b)
           g == GroupOf(id, group, change)
<1>1. g = IF members = {} THEN <<>> ELSE Parameter(id, flat)
  BY Zenon DEF GroupOf, Members, BytesFor
<1>2. \A i \in members : i \in Nat /\ i <= 26 /\ group[i][1] \in Names
  <2>1. \A i \in 0 .. 26 : i \in Nat /\ i <= 26
    BY SMT
  <2>2. \A i \in members : i \in 0 .. 26 /\ group[i][1] \in Names
    BY GroupFacts DEF Members
  <2> HIDE DEF members
  <2> QED BY <2>1, <2>2
<1>3. o \in Seq(members) /\ DOMAIN o = 1 .. Len(o) /\ Len(o) \in Nat
  <2>1. members \in SUBSET Nat /\ \A i \in members : i <= 26
    BY <1>2
  <2> HIDE DEF members
  <2>2. IsFiniteSet(members)
    BY <2>1, FS_BoundedSetOfNaturals
  <2> QED BY <2>2, InSomeOrder
<1>4. ASSUME NEW i \in members PROVE value(i) \in Seq(Byte)
  <2> DEFINE a == group[i][1]
             v == change[a]
             p == BytesFor(group, change, i)
             n == Len(p) + 4
  <2>1. a \in Names /\ v \in Values[Kinds[a]]
    BY <1>2 DEF ValuesFit
  <2> HIDE DEF a, v
  <2>2. BytesOf(a, v) \in Seq(Byte)
    BY <2>1, ValueRead
  <2>3. p \in Seq(Byte)
    BY <2>2 DEF BytesFor, a, v
  <2> HIDE DEF p
  <2>4. n \in Nat /\ i \in Nat
    BY <2>3, <1>2
  <2>5. Parameter(i, p) = Sized(n, i, p)
    BY DEF Parameter
  <2> HIDE DEF n
  <2>6. Sized(n, i, p) \in Seq(Byte)
    BY <2>3, <2>4, SizedBytes
  <2> QED BY <2>5, <2>6 DEF p
<1> HIDE DEF members, o, value
<1>5. b \in Seq(Seq(Byte))
  <2>1. \A k \in 1 .. Len(o) : o[k] \in members
    BY <1>3
  <2>2. b \in [1 .. Len(o) -> Seq(Byte)]
    BY <2>1, <1>3, <1>4
  <2> HIDE DEF b
  <2> QED BY <2>2, <1>3, FunctionSeq
<1> HIDE DEF b
<1>6. flat \in Seq(Byte)
  BY <1>5, FlattenType
<1> HIDE DEF flat, g
<1>7. Parameter(id, flat) \in Seq(Byte)
  <2> DEFINE n == Len(flat) + 4
  <2>1. n \in Nat /\ id \in Nat
    BY <1>6 DEF U16s
  <2>2. Parameter(id, flat) = Sized(n, id, flat)
    BY DEF Parameter
  <2> HIDE DEF n
  <2> QED BY <2>1, <2>2, <1>6, SizedBytes
<1>8. g \in Seq(Byte)
  <2>1. <<>> \in Seq(Byte)
    OBVIOUS
  <2> QED BY <2>1, <1>1, <1>7
<1>9. Len(g) \in Nat
  BY <1>8
<1> QED
  BY <1>8, <1>9 DEF g

LEMMA ChangeFits ==
  ASSUME NEW change \in Changes
  PROVE  /\ ValuesFit(MediaGroup, change) /\ ValuesFit(PlaybackGroup, change)
         /\ \A a \in DOMAIN change :
              \E group \in Groups : \E i \in DOMAIN group : group[i][1] = a
         /\ Len(GroupOf(0, MediaGroup, change)) + Len(GroupOf(1, PlaybackGroup, change)) <= Room
<1>1. \A a \in DOMAIN change :
        \E group \in Groups :
          \E i \in DOMAIN group : group[i][1] = a /\ change[a] \in Values[group[i][2]]
  BY ChangesAssumption, SMT DEF Groups
<1>2. Len(GroupOf(0, MediaGroup, change)) + Len(GroupOf(1, PlaybackGroup, change)) <= Room
  BY ChangesAssumption, SMT DEF Room
<1>3. ASSUME NEW group \in Groups PROVE ValuesFit(group, change)
  <2> SUFFICES ASSUME NEW i \in Members(group, change)
               PROVE  change[group[i][1]] \in Values[Kinds[group[i][1]]]
    BY DEF ValuesFit
  <2>1. group[i][1] \in DOMAIN change
    BY DEF Members
  <2>2. PICK other \in Groups : \E j \in DOMAIN other :
          other[j][1] = group[i][1] /\ change[group[i][1]] \in Values[other[j][2]]
    BY <1>1, <2>1
  <2>3. PICK j \in DOMAIN other :
          other[j][1] = group[i][1] /\ change[group[i][1]] \in Values[other[j][2]]
    BY <2>2
  <2>4. other[j][2] = Kinds[other[j][1]]
    BY GroupFacts
  <2> QED BY <2>3, <2>4
<1> QED
  BY <1>1, <1>2, <1>3 DEF Groups


LEMMA TailRead ==
  ASSUME NEW t \in Tails, NEW id \in {0, 1}
  PROVE  /\ t \in Seq(Byte) /\ ParseParameters(t) \in Seq(Param)
         /\ Those(ParseParameters(t), id) = <<>>
<1> DEFINE ps == ParseParameters(t)
<1>1. t \in Seq(Byte) /\ \A p \in Range(ps) : p.id \notin {0, 1}
  BY TailsAssumption, SMT
<1>2. ps \in Seq(Param)
  BY <1>1, ParseType
<1> HIDE DEF ps
<1>3. \A k \in 1 .. Len(ps) : ps[k].id # id
  BY <1>1, <1>2 DEF Range
<1>4. Those(ps, id) = <<>>
  BY <1>2, <1>3, ThoseNone
<1> QED
  BY <1>1, <1>2, <1>4 DEF ps

(* Of the parameters of two groups with something behind, those of a       *)
(* number are the group's.                                                 *)
LEMMA ThoseOfThree ==
  ASSUME NEW ps \in Seq(Param), NEW qs \in Seq(Param), NEW rs \in Seq(Param), NEW id
  PROVE  /\ Those(qs, id) = <<>> /\ Those(rs, id) = <<>>
              => Those((ps \o qs) \o rs, id) = Those(ps, id)
         /\ Those(ps, id) = <<>> /\ Those(rs, id) = <<>>
              => Those((ps \o qs) \o rs, id) = Those(qs, id)
<1> DEFINE S == Seq(Byte)
           both == ps \o qs
<1>1. both \in Seq(Param)
  BY Joined
<1>2. Those(both, id) = Those(ps, id) \o Those(qs, id)
  BY ThoseBoth
<1> HIDE DEF both
<1>3. Those(both \o rs, id) = Those(both, id) \o Those(rs, id)
  BY <1>1, ThoseBoth, SMTT(40)
<1>4. Those(ps, id) \in Seq(S) /\ Those(qs, id) \in Seq(S) /\ Those(both, id) \in Seq(S)
  BY <1>1, ThoseType
<1> HIDE DEF S
<1>5. ASSUME Those(qs, id) = <<>>, Those(rs, id) = <<>>
      PROVE  Those(both \o rs, id) = Those(ps, id)
  <2>1. Those(both, id) = Those(ps, id)
    BY <1>2, <1>4, <1>5, NoneJoined
  <2>2. Those(both \o rs, id) = Those(both, id)
    BY <1>3, <1>4, <1>5, NoneJoined
  <2> QED BY <2>1, <2>2
<1>6. ASSUME Those(ps, id) = <<>>, Those(rs, id) = <<>>
      PROVE  Those(both \o rs, id) = Those(qs, id)
  <2>1. Those(both, id) = Those(qs, id)
    BY <1>2, <1>4, <1>6, NoneJoined
  <2>2. Those(both \o rs, id) = Those(both, id)
    BY <1>3, <1>4, <1>6, NoneJoined
  <2> QED BY <2>1, <2>2
<1> QED
  BY <1>5, <1>6 DEF both

(* An update is read as what changed, without blank texts, whatever is     *)
(* behind its groups.                                                      *)
LEMMA UpdateRead ==
  ASSUME NEW change \in Changes, NEW t \in Tails
  PROVE  LET c == (GroupOf(0, MediaGroup, change) \o GroupOf(1, PlaybackGroup, change)) \o t
         IN  ParseUpdate(c) = Heard(change)
<1> DEFINE G == GroupOf(0, MediaGroup, change)
           H == GroupOf(1, PlaybackGroup, change)
           c == (G \o H) \o t
           rs == ParseParameters(t)
<1>1. 0 \in U16s /\ 1 \in U16s /\ MediaGroup \in Groups /\ PlaybackGroup \in Groups
  <2>1. 0 \in Nat /\ 0 <= 65535 /\ 1 \in Nat /\ 1 <= 65535
    BY SMT
  <2>2. 0 \in U16s /\ 1 \in U16s
    BY <2>1, SmallNumber
  <2> QED BY <2>2 DEF Groups
<1>2. /\ ValuesFit(MediaGroup, change) /\ ValuesFit(PlaybackGroup, change)
      /\ \A a \in DOMAIN change : \E group \in Groups : \E i \in DOMAIN group : group[i][1] = a
  BY ChangeFits
<1>3. Len(G) <= Room /\ Len(H) <= Room
  <2>1. Len(G) + Len(H) <= Room
    BY ChangeFits
  <2>2. Len(G) \in Nat /\ Len(H) \in Nat
    BY GroupLength
  <2> HIDE DEF G, H
  <2> QED BY <2>1, <2>2, SMT DEF Room
<1>4. PICK ps \in Seq(Param) :
        /\ Reads(G, ps) /\ \A k \in 1 .. Len(ps) : ps[k].id = 0
        /\ LET l == LastGroup(MediaGroup, Those(ps, 0))
           IN  /\ DOMAIN l = DOMAIN GroupHeard(MediaGroup, change)
               /\ \A a \in DOMAIN l : l[a] = change[a]
  BY <1>1, <1>2, <1>3, GroupSaid
<1>5. PICK qs \in Seq(Param) :
        /\ Reads(H, qs) /\ \A k \in 1 .. Len(qs) : qs[k].id = 1
        /\ LET l == LastGroup(PlaybackGroup, Those(qs, 1))
           IN  /\ DOMAIN l = DOMAIN GroupHeard(PlaybackGroup, change)
               /\ \A a \in DOMAIN l : l[a] = change[a]
  BY <1>1, <1>2, <1>3, GroupSaid
<1> HIDE DEF G, H
<1>6. t \in Seq(Byte) /\ rs \in Seq(Param) /\ Those(rs, 0) = <<>> /\ Those(rs, 1) = <<>>
  BY TailRead
<1> HIDE DEF rs
<1>7. ParseParameters(c) = (ps \o qs) \o rs
  <2>1. Reads(G \o H, ps \o qs)
    BY <1>4, <1>5, ReadsBoth
  <2> DEFINE both == G \o H
  <2>2. \A e \in Seq(Byte) : ParseParameters(both \o e) = (ps \o qs) \o ParseParameters(e)
    BY <2>1 DEF Reads
  <2> HIDE DEF both
  <2>3. ParseParameters(both \o t) = (ps \o qs) \o ParseParameters(t)
    BY <2>2, <1>6
  <2> QED BY <2>3 DEF both, rs
<1>8. Those(ps, 1) = <<>> /\ Those(qs, 0) = <<>>
  <2>1. \A k \in 1 .. Len(ps) : ps[k].id # 1
    BY <1>4
  <2>2. \A k \in 1 .. Len(qs) : qs[k].id # 0
    BY <1>5
  <2> QED BY <2>1, <2>2, ThoseNone
<1> HIDE DEF c
<1>9. Payloads(c, 0) = Those(ps, 0) /\ Payloads(c, 1) = Those(qs, 1)
  <2> DEFINE all == (ps \o qs) \o rs
  <2>1. Those(all, 0) = Those(ps, 0)
    BY <1>6, <1>8, ThoseOfThree
  <2>2. Those(all, 1) = Those(qs, 1)
    BY <1>6, <1>8, ThoseOfThree
  <2> HIDE DEF all
  <2>3. Payloads(c, 0) = Those(ParseParameters(c), 0) /\ Payloads(c, 1) = Those(ParseParameters(c), 1)
    BY PayloadsAre
  <2>4. ParseParameters(c) = all
    BY <1>7 DEF all
  <2> QED BY <2>1, <2>2, <2>3, <2>4
<1> DEFINE l == LastGroup(MediaGroup, Those(ps, 0))
           m == LastGroup(PlaybackGroup, Those(qs, 1))
<1>10. ParseUpdate(c) = [a \in DOMAIN l \cup DOMAIN m |-> IF a \in DOMAIN m THEN m[a] ELSE l[a]]
  BY <1>9 DEF ParseUpdate, Overlay
<1>11. /\ DOMAIN l = DOMAIN GroupHeard(MediaGroup, change)
       /\ DOMAIN m = DOMAIN GroupHeard(PlaybackGroup, change)
       /\ \A a \in DOMAIN l : l[a] = change[a]
       /\ \A a \in DOMAIN m : m[a] = change[a]
  BY <1>4, <1>5
<1> HIDE DEF l, m
<1>12. DOMAIN l \cup DOMAIN m = DOMAIN Heard(change)
  <2>1. \A a \in DOMAIN Heard(change) : a \in DOMAIN change
    BY DEF Heard
  <2> DEFINE hl == GroupHeard(MediaGroup, change)
             hm == GroupHeard(PlaybackGroup, change)
             h == Heard(change)
  <2>2. \A a : a \in DOMAIN hl <=>
               a \in DOMAIN change /\ HasValue(a, change[a])
               /\ \E i \in DOMAIN MediaGroup : MediaGroup[i][1] = a
    BY DEF GroupHeard, Heard
  <2>3. \A a : a \in DOMAIN hm <=>
               a \in DOMAIN change /\ HasValue(a, change[a])
               /\ \E i \in DOMAIN PlaybackGroup : PlaybackGroup[i][1] = a
    BY DEF GroupHeard, Heard
  <2>4. \A a : a \in DOMAIN h <=> a \in DOMAIN change /\ HasValue(a, change[a])
    BY DEF Heard
  <2>5. \A a \in DOMAIN change :
          \/ \E i \in DOMAIN MediaGroup : MediaGroup[i][1] = a
          \/ \E i \in DOMAIN PlaybackGroup : PlaybackGroup[i][1] = a
    BY <1>2 DEF Groups
  <2>6. DOMAIN l = DOMAIN hl /\ DOMAIN m = DOMAIN hm
    BY <1>11
  <2> HIDE DEF hl, hm, h
  <2>7. \A a : a \in DOMAIN l \cup DOMAIN m <=> a \in DOMAIN h
    BY <2>2, <2>3, <2>4, <2>5, <2>6
  <2> QED BY <2>7 DEF h
<1>13. Heard(change) = [a \in DOMAIN Heard(change) |-> change[a]]
  BY DEF Heard
<1>14. ParseUpdate(c) = [a \in DOMAIN Heard(change) |-> change[a]]
  BY <1>10, <1>11, <1>12
<1> QED
  BY <1>13, <1>14 DEF c, G, H


LEMMA UpdateUnderstood ==
  ASSUME NEW change \in Changes, NEW b \in Behind
  PROVE  LET d == Dressed(20481, GroupOf(0, MediaGroup, change)
                                   \o GroupOf(1, PlaybackGroup, change), b)
         IN  /\ d \in Seq(Byte)
             /\ Understood(d) = IF DOMAIN Heard(change) = {} THEN {}
                                ELSE {Thing("NowPlayingUpdate", Heard(change))}
<1> DEFINE id == 20481
           G == GroupOf(0, MediaGroup, change)
           H == GroupOf(1, PlaybackGroup, change)
           p == G \o H
           t == b[1]
           h == Heard(change)
           d == Dressed(id, p, b)
           update == ParseUpdate(Contents(d))
<1>1. id \in U16s
  BY SMT, SmallNumber
<1>2. id = 20481
  BY SMT
<1> HIDE DEF id
<1>3. G \in Seq(Byte) /\ Len(G) \in Nat /\ H \in Seq(Byte) /\ Len(H) \in Nat
  <2>1. 0 \in U16s /\ 1 \in U16s
    BY SMT, SmallNumber
  <2>2. MediaGroup \in Groups /\ PlaybackGroup \in Groups
    BY DEF Groups
  <2> QED BY <2>1, <2>2, ChangeFits, GroupLength
<1>4. Len(G) + Len(H) <= Room
  BY ChangeFits
<1>5. b[1] \in Tails
  BY DEF Behind
<1>6. ParseUpdate(p \o t) = h
  BY <1>5, UpdateRead
<1> HIDE DEF G, H
<1>7. p \in Seq(Byte) /\ Len(p) = Len(G) + Len(H)
  BY <1>3, Joint
<1> HIDE DEF p, t, h
<1>8. /\ d \in Seq(Byte) /\ IsControl(d) /\ MessageId(d) = id
      /\ Contents(d) = p \o t
  <2>1. Len(p) <= 60100
    BY <1>3, <1>4, <1>7, SMT DEF Room
  <2> QED BY <2>1, <1>1, <1>7, DressedIs DEF t
<1>9. update = h
  BY <1>6, <1>8
<1> HIDE DEF d, update
<1>10. Understood(d) = {[kind |-> "NowPlayingUpdate", arg |-> a] :
                          a \in IF DOMAIN update = {} THEN {} ELSE {update}}
  BY <1>2, <1>8, SMT DEF Understood, update
<1>11. Understood(d) = IF DOMAIN h = {} THEN {} ELSE {Thing("NowPlayingUpdate", h)}
  <2>1. \A a : [kind |-> "NowPlayingUpdate", arg |-> a] = Thing("NowPlayingUpdate", a)
    BY DEF Thing
  <2> QED BY <1>9, <1>10, <2>1, Zenon
<1> QED
  BY <1>2, <1>8, <1>11, SMT DEF d, p, h, G, H

-----------------------------------------------------------------------------
(* What the device says, and what the accessory makes of it                *)

(* What the device may say. *)
Told ==
  {Thing("EaSessionStarted", s) : s \in Sessions}
    \cup {Thing("EaSessionStopped", s) : s \in Sessions}
    \cup {Thing("Challenge", c) : c \in Secrets}
    \cup {Thing("NowPlayingUpdate", change) : change \in Changes}

(* What the accessory may understand. *)
Things ==
  {Thing("EaSessionStarted", s) : s \in Sessions}
    \cup {Thing("EaSessionStopped", s) : s \in Sessions}
    \cup {Thing("Challenge", c) : c \in Secrets}
    \cup {Thing("NowPlayingUpdate", Heard(change)) : change \in Changes}

LEMMA MeaningIs ==
  /\ \A s : /\ Meaning(Thing("EaSessionStarted", s)) = <<Thing("EaSessionStarted", s)>>
            /\ Meaning(Thing("EaSessionStopped", s)) = <<Thing("EaSessionStopped", s)>>
            /\ Meaning(Thing("Challenge", s)) = <<Thing("Challenge", s)>>
  /\ \A change : Meaning(Thing("NowPlayingUpdate", change)) =
                   IF DOMAIN Heard(change) = {} THEN <<>>
                   ELSE <<Thing("NowPlayingUpdate", Heard(change))>>
<1>1. \A k, a : Thing(k, a).kind = k /\ Thing(k, a).arg = a
  BY DEF Thing
<1>2. \A k, a, x : [Thing(k, a) EXCEPT !.arg = x] = Thing(k, x)
  BY DEF Thing
<1>3. ASSUME NEW k, NEW a, k # "NowPlayingUpdate" PROVE Meaning(Thing(k, a)) = <<Thing(k, a)>>
  BY <1>1, <1>3 DEF Meaning
<1>4. ASSUME NEW a
      PROVE  Meaning(Thing("NowPlayingUpdate", a)) =
               IF DOMAIN Heard(a) = {} THEN <<>> ELSE <<Thing("NowPlayingUpdate", Heard(a))>>
  <2> DEFINE t == Thing("NowPlayingUpdate", a)
  <2>1. t.kind = "NowPlayingUpdate" /\ t.arg = a
    BY <1>1
  <2>2. [t EXCEPT !.arg = Heard(@)] = Thing("NowPlayingUpdate", Heard(a))
    BY <2>1, <1>2 DEF Thing
  <2> HIDE DEF t
  <2>3. Meaning(t) = IF DOMAIN Heard(a) = {} THEN <<>> ELSE <<Thing("NowPlayingUpdate", Heard(a))>>
    BY <2>1, <2>2 DEF Meaning
  <2> QED BY <2>3 DEF t
<1> QED
  BY <1>3, <1>4

Meant(said) == FlattenSeq([i \in DOMAIN said |-> Meaning(said[i])])

LEMMA MeaningType ==
  ASSUME NEW t \in Told
  PROVE  Meaning(t) \in Seq(Things)
<1> DEFINE A == Things
<1>1. \/ t \in A /\ Meaning(t) = <<t>>
      \/ Meaning(t) = <<>>
      \/ \E x \in A : Meaning(t) = <<x>>
  BY MeaningIs DEF Told, Things
<1> HIDE DEF A
<1>2. Meaning(t) \in Seq(A)
  <2>1. <<>> \in Seq(A) /\ \A x \in A : <<x>> \in Seq(A)
    OBVIOUS
  <2> QED BY <2>1, <1>1, Zenon
<1> QED
  BY <1>2 DEF A

LEMMA MeantMore ==
  ASSUME NEW said \in Seq(Told), NEW t \in Told
  PROVE  /\ Meant(said) \in Seq(Things) /\ Append(said, t) \in Seq(Told)
         /\ Meant(Append(said, t)) = Meant(said) \o Meaning(t)
<1> DEFINE n == Len(said)
           more == Append(said, t)
           a == [i \in DOMAIN said |-> Meaning(said[i])]
           b == [i \in DOMAIN more |-> Meaning(more[i])]
           c == Append(a, Meaning(t))
           S == Seq(Things)
<1>0. \A x \in Told : Meaning(x) \in S
  BY MeaningType
<1> HIDE DEF S
<1>1. /\ more \in Seq(Told) /\ Len(more) = n + 1 /\ more[n + 1] = t /\ n \in Nat
      /\ \A i \in 1 .. n : more[i] = said[i]
      /\ DOMAIN more = 1 .. n + 1 /\ DOMAIN said = 1 .. n
  BY ElementsIn
<1> HIDE DEF more
<1>2. a \in Seq(S) /\ Len(a) = n /\ \A i \in 1 .. n : a[i] = Meaning(said[i])
  <2>1. a = [i \in 1 .. n |-> Meaning(said[i])]
    BY <1>1
  <2>2. \A i \in 1 .. n : said[i] \in Told
    BY ElementsIn
  <2> HIDE DEF a
  <2>3. a \in [1 .. n -> S]
    BY <2>1, <2>2, <1>0
  <2> QED BY <2>1, <2>3, <1>1, FunctionSeq
<1>3. b \in Seq(S) /\ Len(b) = n + 1 /\ \A i \in 1 .. n + 1 : b[i] = Meaning(more[i])
  <2>1. b = [i \in 1 .. n + 1 |-> Meaning(more[i])]
    BY <1>1
  <2>2. \A i \in 1 .. n + 1 : more[i] \in Told
    BY <1>1, ElementsIn
  <2> HIDE DEF b
  <2>3. b \in [1 .. n + 1 -> S] /\ n + 1 \in Nat
    BY <2>1, <2>2, <1>0, <1>1
  <2> QED BY <2>1, <2>3, FunctionSeq
<1> HIDE DEF a, b, n
<1>4. /\ c \in Seq(S) /\ Len(c) = n + 1 /\ c[n + 1] = Meaning(t)
      /\ \A i \in 1 .. n : c[i] = a[i]
  BY <1>0, <1>2
<1> HIDE DEF c
<1>5. b = c
  <2>1. ASSUME NEW i \in 1 .. Len(b) PROVE b[i] = c[i]
    <3>1. CASE i = n + 1
      BY <3>1, <1>1, <1>3, <1>4
    <3>2. CASE i # n + 1
      <4>1. i \in 1 .. n /\ i \in 1 .. n + 1
        BY <3>2, <1>1, <1>3
      <4> QED BY <4>1, <1>1, <1>2, <1>3, <1>4
    <3> QED BY <3>1, <3>2
  <2>2. Len(b) = Len(c)
    BY <1>3, <1>4
  <2> QED BY <2>1, <2>2, <1>3, <1>4, SameSeq
<1>6. a \in Seq(Seq(Things)) /\ Meaning(t) \in Seq(Things)
  BY <1>0, <1>2 DEF S
<1>7. FlattenSeq(Append(a, Meaning(t))) = FlattenSeq(a) \o Meaning(t)
  BY <1>6, FlattenAppend
<1>8. FlattenSeq(a) \in Seq(Things)
  BY <1>6, FlattenType
<1> QED
  BY <1>1, <1>5, <1>7, <1>8 DEF Meant, a, b, c, more, n


LEMMA MeantNothing == Meant(<<>>) = <<>>
<1>1. [i \in DOMAIN <<>> |-> Meaning(<<>>[i])] = <<>>
  OBVIOUS
<1> QED
  BY <1>1, FlattenNone DEF Meant

LEMMA PrefixJoined ==
  ASSUME NEW S, NEW s \in Seq(S), NEW r \in Seq(S)
  PROVE  IsPrefix(s, s \o r)
<1> DEFINE t == s \o r
           a == SubSeq(s, 1, Len(s))
           b == SubSeq(t, 1, Len(s))
<1>1. /\ t \in Seq(S) /\ Len(t) = Len(s) + Len(r) /\ Len(s) \in Nat /\ Len(r) \in Nat
      /\ \A i \in 1 .. Len(s) : t[i] = s[i]
  <2>1. Len(s) \in Nat /\ Len(r) \in Nat
    OBVIOUS
  <2> QED BY <2>1, Joined
<1> HIDE DEF t
<1>2. a = s
  BY WholePiece
<1>3. b \in Seq(S) /\ Len(b) = Len(s) /\ \A i \in 1 .. Len(s) : b[i] = t[i]
  BY <1>1
<1> HIDE DEF b, a
<1>4. b = s
  BY <1>1, <1>3, SameSeq
<1>5. Len(s) <= Len(t)
  BY <1>1
<1> QED
  BY <1>2, <1>4, <1>5 DEF IsPrefix, t, a, b

(* What a payload on its way will add to what has been understood. *)
Carries(d, rest) ==
  \/ Understood(d) = {} /\ rest = <<>>
  \/ \E x : Understood(d) = {x} /\ rest = <<x>>

Waiting(rest) ==
  \/ toAcc = {} /\ rest = <<>>
  \/ \E d \in Seq(Byte) : toAcc = {d} /\ Carries(d, rest)

(* What will be shown when it has been read. *)
Soon(s, rest) ==
  IF rest # <<>> /\ rest[1].kind = "NowPlayingUpdate" THEN Overlay(s, rest[1].arg) ELSE s

(* What is shown is what is played, where there is anything to be read.    *)
Current(s) ==
  /\ DOMAIN s \subseteq DOMAIN playing
  /\ \A a \in DOMAIN playing :
       HasValue(a, playing[a]) => a \in DOMAIN s /\ s[a] = playing[a]

(* What was said is what was understood and what is on its way. *)
Told_Heard(rest) == Waiting(rest) /\ Meant(told) = heard \o rest /\ Current(Soon(shown, rest))

Understanding ==
  /\ told \in Seq(Told) /\ heard \in Seq(Things)
  /\ \E rest \in Seq(Things) : Told_Heard(rest)

(* What carries a thing. *)
StartBytes(s, b) == Dressed(59904, Parameter(0, <<s>>), b)

StopBytes(s, b) == Dressed(59905, Parameter(0, <<s>>), b)

ChallengeBytes(c, b) == Dressed(43522, Parameter(0, c), b)

UpdateBytes(change, b) ==
  Dressed(20481, GroupOf(0, MediaGroup, change) \o GroupOf(1, PlaybackGroup, change), b)

(* Of what is said, what is understood is what it means. *)
LEMMA SaidCarries ==
  ASSUME NEW k, NEW a, NEW bytes, Says(k, a, bytes), NEW x,
         \/ Meaning(Thing(k, a)) = <<>> /\ Understood(bytes) = {}
         \/ Meaning(Thing(k, a)) = <<x>> /\ Understood(bytes) = {x},
         bytes \in Seq(Byte), Thing(k, a) \in Told, Understanding
  PROVE  /\ told' \in Seq(Told) /\ heard' \in Seq(Things) /\ shown' = shown
         /\ LET m == Meaning(Thing(k, a))
            IN  m \in Seq(Things) /\ Waiting(m)' /\ Meant(told') = heard' \o m
         /\ Current(shown)
<1> DEFINE t == Thing(k, a)
           m == Meaning(t)
<1>1. /\ toAcc = {} /\ toAcc' = {bytes} /\ told' = Append(told, t)
      /\ heard' = heard /\ shown' = shown
  BY DEF Says, Thing
<1>2. told \in Seq(Told) /\ heard \in Seq(Things) /\ heard' \in Seq(Things)
  BY <1>1 DEF Understanding
<1>3. PICK rest \in Seq(Things) : Told_Heard(rest)
  BY DEF Understanding
<1>4. rest = <<>>
  BY <1>1, <1>3 DEF Told_Heard, Waiting
<1>5. Current(shown)
  BY <1>3, <1>4 DEF Told_Heard, Soon
<1>6. m \in Seq(Things)
  BY MeaningType
<1>7. Meant(told) = heard
  BY <1>2, <1>3, <1>4, NoneJoined DEF Told_Heard
<1>8. told' \in Seq(Told) /\ Meant(told') = heard \o m
  <2>1. Append(told, t) \in Seq(Told) /\ Meant(Append(told, t)) = Meant(told) \o Meaning(t)
    BY <1>2, MeantMore
  <2> QED BY <2>1, <1>1, <1>7
<1>9. Carries(bytes, m)
  BY DEF Carries
<1> HIDE DEF m, t
<1>10. Waiting(m)'
  BY <1>1, <1>9 DEF Waiting
<1> QED
  BY <1>1, <1>2, <1>5, <1>6, <1>8, <1>10 DEF m, t


LEMMA UnderstandingStarts ==
  ASSUME Init
  PROVE  Understanding
<1>1. toAcc = {} /\ told = <<>> /\ heard = <<>> /\ playing = <<>> /\ shown = <<>>
  BY DEF Init, Nothing
<1>2. told \in Seq(Told) /\ heard \in Seq(Things)
  BY <1>1
<1>3. Waiting(<<>>)
  BY <1>1 DEF Waiting
<1>4. Soon(shown, <<>>) = <<>>
  BY <1>1 DEF Soon
<1>5. Current(<<>>)
  BY <1>1 DEF Current
<1>6. Meant(told) = heard \o <<>>
  BY <1>1, MeantNothing
<1>7. <<>> \in Seq(Things)
  OBVIOUS
<1> QED
  BY <1>2, <1>3, <1>4, <1>5, <1>6, <1>7 DEF Understanding, Told_Heard

(* Something other than an update is said: what is played and shown does   *)
(* not change.                                                             *)
LEMMA OtherSaid ==
  ASSUME NEW k, NEW a, NEW bytes, Says(k, a, bytes), k # "NowPlayingUpdate",
         Meaning(Thing(k, a)) = <<Thing(k, a)>>, Understood(bytes) = {Thing(k, a)},
         bytes \in Seq(Byte), Thing(k, a) \in Told, Understanding, UNCHANGED playing
  PROVE  Understanding'
<1> DEFINE t == Thing(k, a)
           m == <<t>>
<1>1. t.kind = k
  BY DEF Thing
<1>2. /\ told' \in Seq(Told) /\ heard' \in Seq(Things) /\ shown' = shown
      /\ m \in Seq(Things) /\ Waiting(m)' /\ Meant(told') = heard' \o m
      /\ Current(shown)
  BY SaidCarries
<1> HIDE DEF t
<1>3. Soon(shown', m) = shown
  BY <1>1, <1>2 DEF Soon
<1> HIDE DEF m
<1>4. Current(Soon(shown, m))'
  BY <1>2, <1>3 DEF Current
<1>5. Told_Heard(m)'
  BY <1>2, <1>4 DEF Told_Heard
<1> QED
  BY <1>2, <1>5 DEF Understanding

LEMMA UpdateSaid ==
  ASSUME DevPlays, Understanding
  PROVE  Understanding'
<1>1. PICK change \in Changes, b \in Behind :
        /\ playing' = Overlay(playing, change)
        /\ Says("NowPlayingUpdate", change, UpdateBytes(change, b))
  BY SMT DEF DevPlays, UpdateBytes
<1> DEFINE bytes == UpdateBytes(change, b)
           h == Heard(change)
           t == Thing("NowPlayingUpdate", change)
           x == Thing("NowPlayingUpdate", h)
           m == Meaning(t)
<1>2. bytes \in Seq(Byte) /\ Understood(bytes) = IF DOMAIN h = {} THEN {} ELSE {x}
  BY UpdateUnderstood, SMT DEF UpdateBytes
<1>3. Says("NowPlayingUpdate", change, bytes)
  BY <1>1, Zenon
<1> HIDE DEF bytes
<1>4. m = IF DOMAIN h = {} THEN <<>> ELSE <<x>>
  BY MeaningIs
<1>5. t \in Told
  BY DEF Told
<1>6. /\ told' \in Seq(Told) /\ heard' \in Seq(Things) /\ shown' = shown
      /\ m \in Seq(Things) /\ Waiting(m)' /\ Meant(told') = heard' \o m
      /\ Current(shown)
  <2>1. \/ m = <<>> /\ Understood(bytes) = {}
        \/ m = <<x>> /\ Understood(bytes) = {x}
    BY <1>2, <1>4
  <2> HIDE DEF x, h
  <2> QED BY <2>1, <1>2, <1>3, <1>5, SaidCarries
<1>7. Soon(shown', m) = IF DOMAIN h = {} THEN shown ELSE Overlay(shown, h)
  <2>1. x.kind = "NowPlayingUpdate" /\ x.arg = h
    BY DEF Thing
  <2> HIDE DEF x, m
  <2> QED BY <2>1, <1>4, <1>6 DEF Soon
<1>8. DOMAIN h = {a \in DOMAIN change : HasValue(a, change[a])} /\ \A a \in DOMAIN h : h[a] = change[a]
  BY DEF Heard
<1> DEFINE s == Soon(shown', m)
           over == Overlay(shown, h)
<1>9. /\ DOMAIN playing' = DOMAIN playing \cup DOMAIN change
      /\ \A a \in DOMAIN playing' :
           playing'[a] = IF a \in DOMAIN change THEN change[a] ELSE playing[a]
  BY <1>1 DEF Overlay
<1>10. /\ DOMAIN over = DOMAIN shown \cup DOMAIN h
       /\ \A a \in DOMAIN over : over[a] = IF a \in DOMAIN h THEN h[a] ELSE shown[a]
  BY DEF Overlay
<1>11. /\ DOMAIN shown \subseteq DOMAIN playing
       /\ \A a \in DOMAIN playing :
            HasValue(a, playing[a]) => a \in DOMAIN shown /\ shown[a] = playing[a]
  BY <1>6 DEF Current
<1> HIDE DEF h, over, m
<1>12. s = IF DOMAIN h = {} THEN shown ELSE over
  BY <1>7 DEF over
<1> HIDE DEF s
<1>13. DOMAIN s = DOMAIN shown \cup DOMAIN h
       /\ \A a \in DOMAIN s : s[a] = IF a \in DOMAIN h THEN h[a] ELSE shown[a]
  BY <1>10, <1>12
<1>14. DOMAIN s \subseteq DOMAIN playing'
  BY <1>8, <1>9, <1>11, <1>13
<1>15. ASSUME NEW a \in DOMAIN playing', HasValue(a, playing'[a])
       PROVE  a \in DOMAIN s /\ s[a] = playing'[a]
  <2>1. CASE a \in DOMAIN change
    <3>1. playing'[a] = change[a]
      BY <2>1, <1>9
    <3>2. a \in DOMAIN h /\ h[a] = change[a]
      BY <2>1, <3>1, <1>8, <1>15
    <3> QED BY <3>1, <3>2, <1>13
  <2>2. CASE a \notin DOMAIN change
    <3>1. a \in DOMAIN playing /\ playing'[a] = playing[a]
      BY <2>2, <1>9
    <3>2. a \notin DOMAIN h /\ a \in DOMAIN shown /\ shown[a] = playing[a]
      BY <2>2, <3>1, <1>8, <1>11, <1>15
    <3> QED BY <3>1, <3>2, <1>13
  <2> QED BY <2>1, <2>2
<1>16. Current(Soon(shown, m))'
  BY <1>14, <1>15 DEF Current, s
<1>17. Told_Heard(m)'
  BY <1>6, <1>16 DEF Told_Heard
<1> QED
  BY <1>6, <1>17 DEF Understanding

(* Nothing is understood of a payload that is no message, or of one that   *)
(* nobody reads.                                                           *)
LEMMA JunkIgnored ==
  ASSUME NEW j \in Seq(Byte), NoMessage(j) \/ Unread(j)
  PROVE  Understood(j) = {}
<1> DEFINE n == U16At(j, 3)
           p == Contents(j)
           update == ParseUpdate(p)
<1>1. CASE ~ IsControl(j)
  BY <1>1 DEF Understood
<1>2. CASE IsControl(j)
  <2>1. Len(j) >= 6 /\ n \in 6 .. Len(j) /\ n \in Nat /\ StartsWith(j, <<64, 64>>)
    BY <1>2 DEF IsControl
  <2>2. j[1] = 64 /\ j[2] = 64
    <3> DEFINE s == <<64, 64>>
    <3>1. SubSeq(j, 1, Len(s)) = s /\ Len(s) = 2
      BY <2>1 DEF StartsWith
    <3>2. 1 \in 1 .. Len(j) + 1 /\ 2 \in 1 - 1 .. Len(j)
      BY <2>1
    <3>3. \A i \in 1 .. 2 - 1 + 1 : SubSeq(j, 1, 2)[i] = j[1 + i - 1]
      BY <3>2, PieceType
    <3>4. SubSeq(j, 1, 2)[1] = j[1] /\ SubSeq(j, 1, 2)[2] = j[2]
      BY <3>3
    <3>5. s[1] = 64 /\ s[2] = 64
      OBVIOUS
    <3> QED BY <3>1, <3>4, <3>5
  <2>3. Unread(j)
    BY <2>1, <2>2 DEF NoMessage
  <2>4. p \in Seq(Byte) /\ Len(p) = n - 6 /\ \A i \in 1 .. n - 6 : p[i] = j[6 + i]
    <3>1. 7 \in 1 .. Len(j) + 1 /\ n \in 7 - 1 .. Len(j) /\ n - 7 + 1 = n - 6
      BY <2>1
    <3> HIDE DEF n
    <3>2. /\ SubSeq(j, 7, n) \in Seq(Byte) /\ Len(SubSeq(j, 7, n)) = n - 7 + 1
          /\ \A i \in 1 .. n - 7 + 1 : SubSeq(j, 7, n)[i] = j[7 + i - 1]
      BY <3>1, PieceType
    <3>3. \A i \in 1 .. n - 6 : 7 + i - 1 = 6 + i
      BY <3>1
    <3>4. p = SubSeq(j, 7, n)
      BY DEF Contents, n
    <3> HIDE DEF p
    <3> QED BY <3>1, <3>2, <3>3, <3>4
  <2> HIDE DEF n, p
  <2>5. CASE MessageId(j) \notin {59904, 59905, 43522, 20481}
    BY <2>5, SMT DEF Understood
  <2>6. CASE MessageId(j) = 59904 /\ (Len(j) < 11 \/ U16At(j, 9) # 0)
    <3>1. ~ (Len(p) >= 5 /\ U16At(p, 3) = 0)
      <4>1. ASSUME Len(p) >= 5 PROVE U16At(p, 3) = U16At(j, 9)
        <5>1. 3 \in 1 .. n - 6 /\ 4 \in 1 .. n - 6 /\ 6 + 3 = 9 /\ 6 + 4 = 9 + 1 /\ 3 + 1 = 4
          BY <4>1, <2>1, <2>4
        <5>2. p[3] = j[9] /\ p[3 + 1] = j[9 + 1]
          BY <5>1, <2>4
        <5> QED BY <5>2 DEF U16At
      <4>2. Len(p) >= 5 => ~ Len(j) < 11
        BY <2>1, <2>4
      <4> QED BY <4>1, <4>2, <2>6
    <3>2. StartedSession(j) = {}
      BY <3>1, SMT DEF StartedSession, p
    <3> QED BY <3>2, <2>6, SMT DEF Understood
  <2>7. CASE MessageId(j) = 59905 /\ Len(j) < 11
    <3>1. StoppedSession(j) = {}
      BY <2>7, <2>1, SMT DEF StoppedSession
    <3> QED BY <3>1, <2>7, SMT DEF Understood
  <2>8. CASE MessageId(j) = 20481 /\ \A q \in Range(ParseParameters(p)) : q.id \notin {0, 1}
    <3> DEFINE ps == ParseParameters(p)
    <3>1. ps \in Seq(Param)
      BY <2>4, ParseType
    <3>2. \A q \in Range(ps) : q.id \notin {0, 1}
      BY <2>8
    <3>3. Payloads(p, 0) = Those(ps, 0) /\ Payloads(p, 1) = Those(ps, 1)
      BY PayloadsAre
    <3> HIDE DEF ps
    <3>4. \A k \in 1 .. Len(ps) : ps[k].id # 0 /\ ps[k].id # 1
      BY <3>1, <3>2 DEF Range
    <3>5. Those(ps, 0) = <<>> /\ Those(ps, 1) = <<>>
      BY <3>1, <3>4, ThoseNone
    <3>6. LastGroup(MediaGroup, <<>>) = Nothing /\ LastGroup(PlaybackGroup, <<>>) = Nothing
      BY LastOfNone
    <3>7. update = Overlay(Nothing, Nothing)
      BY <3>3, <3>5, <3>6 DEF ParseUpdate
    <3>8. DOMAIN update = {}
      BY <3>7 DEF Overlay, Nothing
    <3> HIDE DEF update
    <3>9. Understood(j) = {[kind |-> "NowPlayingUpdate", arg |-> a] :
                             a \in IF DOMAIN update = {} THEN {} ELSE {update}}
      BY <1>2, <2>8, SMT DEF Understood, update, p
    <3> QED BY <3>8, <3>9, Zenon
  <2> QED BY <2>3, <2>5, <2>6, <2>7, <2>8, SMT DEF Unread, p
<1> QED
  BY <1>1, <1>2

LEMMA JunkSaid ==
  ASSUME DevSendsJunk, Understanding
  PROVE  Understanding'
<1>1. toAcc = {} /\ UNCHANGED <<told, heard, playing, shown>>
  BY DEF DevSendsJunk
<1>2. PICK j \in Junk : toAcc' = {j}
  BY DEF DevSendsJunk
<1>3. j \in Seq(Byte) /\ Understood(j) = {}
  BY JunkAssumption, JunkIgnored
<1>4. PICK rest \in Seq(Things) : Told_Heard(rest)
  BY DEF Understanding
<1>5. rest = <<>>
  BY <1>1, <1>4 DEF Told_Heard, Waiting
<1>6. Carries(j, rest)
  BY <1>3, <1>5 DEF Carries
<1>7. Waiting(rest)'
  BY <1>2, <1>3, <1>6 DEF Waiting
<1>8. Told_Heard(rest)'
  BY <1>1, <1>4, <1>7 DEF Told_Heard, Current
<1> QED
  BY <1>1, <1>4, <1>8 DEF Understanding

LEMMA ReadOnce ==
  ASSUME AccReads, Understanding
  PROVE  Understanding'
<1>1. PICK d \in toAcc :
        \/ Understood(d) = {} /\ UNCHANGED <<heard, shown>>
        \/ \E t \in Understood(d) :
             /\ heard' = Append(heard, t)
             /\ shown' = IF t.kind = "NowPlayingUpdate" THEN Overlay(shown, t.arg)
                         ELSE shown
  BY Zenon DEF AccReads
<1>2. toAcc' = {} /\ UNCHANGED <<told, playing>>
  BY DEF AccReads
<1>3. PICK rest \in Seq(Things) : Told_Heard(rest)
  BY DEF Understanding
<1>4. told \in Seq(Told) /\ heard \in Seq(Things)
  BY DEF Understanding
<1>5. Carries(d, rest)
  BY <1>1, <1>3 DEF Told_Heard, Waiting
<1>6. Waiting(<<>>)'
  BY <1>2 DEF Waiting
<1>7. heard' \in Seq(Things) /\ heard' = heard \o rest /\ shown' = Soon(shown, rest)
  <2>1. CASE Understood(d) = {} /\ rest = <<>>
    <3>1. heard' = heard /\ shown' = shown
      BY <2>1, <1>1
    <3> QED BY <2>1, <3>1, <1>4, NoneJoined DEF Soon
  <2>2. CASE \E x : Understood(d) = {x} /\ rest = <<x>>
    <3>1. PICK x : Understood(d) = {x} /\ rest = <<x>>
      BY <2>2
    <3>2. /\ heard' = Append(heard, x)
          /\ shown' = IF x.kind = "NowPlayingUpdate" THEN Overlay(shown, x.arg) ELSE shown
      BY <3>1, <1>1
    <3>3. x \in Things
      BY <3>1, <1>3
    <3>4. heard \o <<x>> = Append(heard, x) /\ Append(heard, x) \in Seq(Things)
      BY <3>3, <1>4
    <3>5. shown' = Soon(shown, rest)
      BY <3>1, <3>2 DEF Soon
    <3> QED BY <3>1, <3>2, <3>4, <3>5
  <2> QED BY <2>1, <2>2, <1>5 DEF Carries
<1>8. Soon(shown', <<>>) = Soon(shown, rest)
  BY <1>7 DEF Soon
<1>9. Current(Soon(shown, <<>>))'
  BY <1>2, <1>3, <1>8 DEF Current, Told_Heard
<1>10. Meant(told)' = heard' \o <<>>
  BY <1>2, <1>3, <1>7, NoneJoined DEF Told_Heard
<1>11. <<>> \in Seq(Things)
  OBVIOUS
<1>12. Told_Heard(<<>>)'
  BY <1>6, <1>9, <1>10 DEF Told_Heard
<1> QED
  BY <1>2, <1>4, <1>7, <1>11, <1>12 DEF Understanding

LEMMA UnderstandingKept ==
  ASSUME Understanding, [Next]_vars
  PROVE  Understanding'
<1>1. CASE UNCHANGED device
  <2>1. UNCHANGED <<toAcc, told, heard, playing, shown>>
    BY <1>1 DEF device
  <2> QED BY <2>1 DEF Understanding, Told_Heard, Waiting, Current
<1>2. CASE AccessorySends
  <2>1. UNCHANGED device
    BY <1>2, Zenon DEF AccessorySends, SendIdentification, SendEaSessionRequest,
         SendStartNowPlayingUpdates, SendStopNowPlayingUpdates, SendKeepalive,
         SendAppLaunchRequest, SendCertificate, SendResponse, SendStart, SendStop,
         SendReport, Sends
  <2> QED BY <2>1, <1>1
<1>3. CASE DevReads
  BY <1>3, <1>1 DEF DevReads
<1>4. CASE DevStartsSession
  <2>1. PICK s \in Sessions, b \in Behind :
          Says("EaSessionStarted", s, StartBytes(s, b))
    BY <1>4, SMT DEF DevStartsSession, StartBytes
  <2> DEFINE d == StartBytes(s, b)
  <2>2. d \in Seq(Byte) /\ Understood(d) = {Thing("EaSessionStarted", s)}
    BY StartUnderstood, SMT DEF StartBytes
  <2>3. Says("EaSessionStarted", s, d)
    BY <2>1, Zenon
  <2> HIDE DEF d
  <2>4. Thing("EaSessionStarted", s) \in Told
        /\ Meaning(Thing("EaSessionStarted", s)) = <<Thing("EaSessionStarted", s)>>
    BY MeaningIs DEF Told
  <2>5. UNCHANGED playing
    BY <1>4 DEF DevStartsSession
  <2> QED BY <2>2, <2>3, <2>4, <2>5, OtherSaid
<1>5. CASE DevStopsSession
  <2>1. PICK s \in Sessions, b \in Behind :
          Says("EaSessionStopped", s, StopBytes(s, b))
    BY <1>5, SMT DEF DevStopsSession, StopBytes
  <2> DEFINE d == StopBytes(s, b)
  <2>2. d \in Seq(Byte) /\ Understood(d) = {Thing("EaSessionStopped", s)}
    BY StopUnderstood, SMT DEF StopBytes
  <2>3. Says("EaSessionStopped", s, d)
    BY <2>1, Zenon
  <2> HIDE DEF d
  <2>4. Thing("EaSessionStopped", s) \in Told
        /\ Meaning(Thing("EaSessionStopped", s)) = <<Thing("EaSessionStopped", s)>>
    BY MeaningIs DEF Told
  <2>5. UNCHANGED playing
    BY <1>5 DEF DevStopsSession
  <2> QED BY <2>2, <2>3, <2>4, <2>5, OtherSaid
<1>6. CASE DevChallenges
  <2>1. PICK c \in Secrets, b \in Behind :
          Says("Challenge", c, ChallengeBytes(c, b))
    BY <1>6, SMT DEF DevChallenges, ChallengeBytes
  <2> DEFINE d == ChallengeBytes(c, b)
  <2>2. d \in Seq(Byte) /\ Understood(d) = {Thing("Challenge", c)}
    BY ChallengeUnderstood, SMT DEF ChallengeBytes
  <2>3. Says("Challenge", c, d)
    BY <2>1, Zenon
  <2> HIDE DEF d
  <2>4. Thing("Challenge", c) \in Told
        /\ Meaning(Thing("Challenge", c)) = <<Thing("Challenge", c)>>
    BY MeaningIs DEF Told
  <2>5. UNCHANGED playing
    BY <1>6 DEF DevChallenges
  <2> QED BY <2>2, <2>3, <2>4, <2>5, OtherSaid
<1> QED
  BY <1>1, <1>2, <1>3, <1>4, <1>5, <1>6, UpdateSaid, JunkSaid, ReadOnce
     DEF Next, DeviceSpeaks, vars

(* Of what the device has said, the accessory has understood each thing    *)
(* once, in order and as it was meant.                                     *)
THEOREM HeardAsTold == Spec => []HeardIsTold
<1>1. Init => Understanding
  BY UnderstandingStarts
<1>2. Understanding /\ [Next]_vars => Understanding'
  BY UnderstandingKept
<1>3. Understanding => HeardIsTold
  <2> SUFFICES ASSUME Understanding PROVE HeardIsTold
    OBVIOUS
  <2>1. PICK rest \in Seq(Things) : Told_Heard(rest)
    BY DEF Understanding
  <2>2. heard \in Seq(Things) /\ Meant(told) = heard \o rest
    BY <2>1 DEF Understanding, Told_Heard
  <2>3. IsPrefix(heard, Meant(told))
    BY <2>2, PrefixJoined
  <2>4. ASSUME toAcc = {} PROVE heard = Meant(told)
    <3>1. rest = <<>>
      BY <2>1, <2>4 DEF Told_Heard, Waiting
    <3> QED BY <3>1, <2>2, NoneJoined
  <2> QED BY <2>3, <2>4, Zenon DEF HeardIsTold, Meant
<1> QED
  BY <1>1, <1>2, <1>3, PTL DEF Spec

(* The application shows what the device plays.                            *)
THEOREM ShowsWhatPlays == Spec => []ShownIsCurrent
<1>1. Init => Understanding
  BY UnderstandingStarts
<1>2. Understanding /\ [Next]_vars => Understanding'
  BY UnderstandingKept
<1>3. Understanding => ShownIsCurrent
  <2> SUFFICES ASSUME Understanding, toAcc = {}
               PROVE  \A a \in DOMAIN playing :
                        HasValue(a, playing[a]) => a \in DOMAIN shown /\ shown[a] = playing[a]
    BY DEF ShownIsCurrent
  <2>1. PICK rest \in Seq(Things) : Told_Heard(rest)
    BY DEF Understanding
  <2>2. rest = <<>>
    BY <2>1 DEF Told_Heard, Waiting
  <2> QED BY <2>1, <2>2 DEF Told_Heard, Current, Soon
<1> QED
  BY <1>1, <1>2, <1>3, PTL DEF Spec


-----------------------------------------------------------------------------
(* Parameters by number                                                    *)

Ids(ps) == {ps[k].id : k \in 1 .. Len(ps)}

One(id, p) == <<[id |-> id, payload |-> p]>>

Indexed(ps) == [id \in Ids(ps) |-> Those(ps, id)]

LEMMA ThoseNot ==
  ASSUME NEW ps \in Seq(Param), NEW id, id \notin Ids(ps)
  PROVE  Those(ps, id) = <<>>
BY ThoseNone DEF Ids

LEMMA OneIs ==
  ASSUME NEW id \in U16s, NEW p \in Seq(Byte)
  PROVE  /\ One(id, p) \in Seq(Param) /\ Ids(One(id, p)) = {id}
         /\ Those(One(id, p), id) = <<p>>
<1> DEFINE x == [id |-> id, payload |-> p]
           ps == <<x>>
<1>1. x \in Param /\ x.id = id /\ x.payload = p
  BY DEF Param
<1> HIDE DEF x
<1>2. ps \in Seq(Param) /\ Len(ps) = 1 /\ ps[1] = x
  BY <1>1
<1>3. Those(ps, id) = <<p>>
  BY <1>1, ThoseOne DEF PayloadIf
<1> HIDE DEF ps
<1>4. Ids(ps) = {id}
  BY <1>1, <1>2 DEF Ids
<1> QED
  BY <1>2, <1>3, <1>4 DEF One, ps, x

LEMMA BothAre ==
  ASSUME NEW ps \in Seq(Param), NEW qs \in Seq(Param)
  PROVE  /\ ps \o qs \in Seq(Param) /\ Ids(ps \o qs) = Ids(ps) \cup Ids(qs)
         /\ \A id : id \notin Ids(qs) => Those(ps \o qs, id) = Those(ps, id)
         /\ \A id : id \notin Ids(ps) => Those(ps \o qs, id) = Those(qs, id)
<1> DEFINE rs == ps \o qs
           S == Seq(Byte)
<1>1. /\ rs \in Seq(Param) /\ Len(rs) = Len(ps) + Len(qs)
      /\ Len(ps) \in Nat /\ Len(qs) \in Nat
      /\ \A i \in 1 .. Len(ps) : rs[i] = ps[i]
      /\ \A i \in 1 .. Len(qs) : rs[Len(ps) + i] = qs[i]
  <2>1. Len(ps) \in Nat /\ Len(qs) \in Nat
    OBVIOUS
  <2> QED BY <2>1, Joined
<1>2. ASSUME NEW id
      PROVE  /\ Those(rs, id) = Those(ps, id) \o Those(qs, id)
             /\ Those(ps, id) \in Seq(S) /\ Those(qs, id) \in Seq(S)
  BY ThoseBoth, ThoseType
<1> HIDE DEF S, rs
<1>3. Ids(rs) = Ids(ps) \cup Ids(qs)
  <2>1. ASSUME NEW k \in 1 .. Len(rs)
        PROVE  rs[k].id \in Ids(ps) \cup Ids(qs)
    <3>1. CASE k <= Len(ps)
      BY <3>1, <1>1 DEF Ids
    <3>2. CASE ~ (k <= Len(ps))
      <4>1. k - Len(ps) \in 1 .. Len(qs) /\ Len(ps) + (k - Len(ps)) = k
        BY <3>2, <1>1
      <4>2. rs[k] = qs[k - Len(ps)]
        BY <4>1, <1>1
      <4> QED BY <4>1, <4>2 DEF Ids
    <3> QED BY <3>1, <3>2
  <2>2. ASSUME NEW k \in 1 .. Len(ps) PROVE ps[k].id \in Ids(rs)
    <3>1. k \in 1 .. Len(rs) /\ rs[k] = ps[k]
      BY <1>1
    <3> QED BY <3>1 DEF Ids
  <2>3. ASSUME NEW k \in 1 .. Len(qs) PROVE qs[k].id \in Ids(rs)
    <3>1. Len(ps) + k \in 1 .. Len(rs) /\ rs[Len(ps) + k] = qs[k]
      BY <1>1
    <3> QED BY <3>1 DEF Ids
  <2> QED BY <2>1, <2>2, <2>3 DEF Ids
<1>4. ASSUME NEW id, id \notin Ids(qs) PROVE Those(rs, id) = Those(ps, id)
  <2>1. Those(qs, id) = <<>>
    BY <1>4, ThoseNot
  <2> QED BY <2>1, <1>2, NoneJoined
<1>5. ASSUME NEW id, id \notin Ids(ps) PROVE Those(rs, id) = Those(qs, id)
  <2>1. Those(ps, id) = <<>>
    BY <1>5, ThoseNot
  <2> QED BY <2>1, <1>2, NoneJoined
<1> QED
  BY <1>1, <1>3, <1>4, <1>5 DEF rs

LEMMA NoneAre == Ids(<<>>) = {} /\ <<>> \in Seq(Param)
BY DEF Ids

(* What a device makes of a message. *)
ReadAs(b) == [id |-> MessageId(b), params |-> ByNumber(Contents(b))]

WellFramed(b) ==
  /\ b \in Seq(Byte) /\ IsControl(b) /\ U16At(b, 3) = Len(b)
  /\ LinkMessageId(b) = {MessageId(b)}

LEMMA ByNumberIs ==
  ASSUME NEW d, NEW ps, Reads(d, ps)
  PROVE  ByNumber(d) = Indexed(ps)
<1>1. ParseParameters(d) = ps /\ ps \in Seq(Param)
  BY ReadsIs DEF Reads
<1>2. \A id : Payloads(d, id) = Those(ps, id)
  BY <1>1, PayloadsAre
<1>3. {p.id : p \in Range(ps)} = Ids(ps)
  BY <1>1 DEF Range, Ids
<1> QED
  BY <1>1, <1>2, <1>3 DEF ByNumber, Indexed

Space == 61000

LEMMA MessageFramed ==
  ASSUME NEW id \in U16s, NEW d \in Seq(Byte), Len(d) <= Space
  PROVE  LET m == Message(id, d)
         IN  WellFramed(m) /\ ReadAs(m) = [id |-> id, params |-> ByNumber(d)]
<1> DEFINE m == Message(id, d)
           x == <<>>
           y == m \o x
<1>1. d \in Seq(Byte)
  OBVIOUS
<1>2. Len(d) + 6 \in U16s
  <2>1. Len(d) \in Nat
    BY <1>1
  <2>2. Len(d) + 6 \in Nat /\ Len(d) + 6 <= 65535
    BY <2>1, SMT DEF Space
  <2> QED BY <2>2, SmallNumber
<1>3. x \in Seq(Byte) /\ Len(x) = 0
  OBVIOUS
<1> HIDE DEF x
<1>4. /\ y \in Seq(Byte) /\ Len(y) = Len(d) + 6 + Len(x)
      /\ IsControl(y) /\ U16At(y, 3) = Len(d) + 6 /\ MessageId(y) = id
      /\ Contents(y) = d /\ LinkMessageId(y) = {id}
  BY <1>1, <1>2, <1>3, Framed
<1>5. m \in Seq(Byte)
  BY <1>1, <1>2, MessageBytes
<1> HIDE DEF m
<1>6. y = m
  BY <1>5, NoneJoined DEF x
<1> HIDE DEF y
<1>7. Len(d) \in Nat
  BY <1>1
<1>8. WellFramed(m)
  BY <1>3, <1>4, <1>6, <1>7 DEF WellFramed
<1>9. ReadAs(m) = [id |-> id, params |-> ByNumber(d)]
  BY <1>4, <1>6 DEF ReadAs
<1> QED
  BY <1>8, <1>9 DEF m

LEMMA MessageRead ==
  ASSUME NEW id \in U16s, NEW d, NEW ps, Reads(d, ps), Len(d) <= Space
  PROVE  LET m == Message(id, d)
         IN  WellFramed(m) /\ ReadAs(m) = [id |-> id, params |-> Indexed(ps)]
<1>1. d \in Seq(Byte)
  BY DEF Reads
<1>2. ByNumber(d) = Indexed(ps)
  BY ByNumberIs
<1> QED
  BY <1>1, <1>2, MessageFramed

LEMMA IndexedAt ==
  ASSUME NEW ps \in Seq(Param), NEW id
  PROVE  At(Indexed(ps), id) = Those(ps, id)
BY ThoseNot DEF At, Indexed


-----------------------------------------------------------------------------
(* Configurations                                                          *)

Third == 30000

(* What is configured fits, and what is written by hand can be told apart. *)
Fitting(c) ==
  /\ Len(Described(c)) <= Third /\ Len(c.rawParams) <= Third /\ Len(c.bundle) <= Third
  /\ Len(c.certificate) <= Third /\ Len(c.response) <= Third /\ Len(c.descriptor) <= Third
  /\ Len(Attributes(0, c.mediaAttributes)) <= Third
  /\ Len(Attributes(1, c.playbackAttributes)) <= Third
  /\ c.raw \in {<<>>, c.rawParams, U16(Identification) \o c.rawParams,
                Message(Identification, c.rawParams)}
  /\ ~ StartsWith(c.rawParams, <<64, 64>>)
  /\ ~ StartsWith(c.rawParams, U16(Identification))

Known(c) == c \in Configurations /\ Fitting(c)

LEMMA ScenarioKnown ==
  ASSUME NEW s \in Scenarios
  PROVE  Known(s.config)
<1>1. s.config \in Configurations
  BY ControlExchangeAssumption, SMT
<1>2. Fitting(s.config)
  BY ConfigurationAssumption, SMTT(40) DEF Fitting, Third
<1> QED
  BY <1>1, <1>2 DEF Known

LEMMA Fields ==
  ASSUME NEW c \in Configurations
  PROVE  /\ c.raw \in Seq(Byte) /\ c.rawParams \in Seq(Byte) /\ c.texts \in [1 .. 6 -> Seq(Byte)]
         /\ c.messagesSent \in Seq(Word) /\ c.messagesReceived \in Seq(Word)
         /\ c.powerSource \in Byte /\ c.maxCurrent \in Word
         /\ c.protocolName \in Seq(Byte) /\ c.protocolId \in Byte
         /\ c.bundleSeed \in Optionals /\ c.language \in Seq(Byte)
         /\ c.languages \in Seq(Seq(Byte)) /\ c.components \in Seq(Components)
         /\ c.mediaAttributes \in Seq(Word) /\ c.playbackAttributes \in Seq(Word)
         /\ c.bundle \in Seq(Byte) /\ c.certificate \in Seq(Byte) /\ c.response \in Seq(Byte)
         /\ c.hidComponent \in Word /\ c.vendor \in Word /\ c.product \in Word
         /\ c.descriptor \in Seq(Byte) /\ c.command \in DOMAIN Bit
BY DEF Configurations

LEMMA WordIs ==
  ASSUME NEW n \in Word
  PROVE  n \in U16s /\ U16(n) \in Seq(Byte) /\ Len(U16(n)) = 2
<1>1. n \in Nat /\ n <= 65535
  BY DEF Word
<1>2. n \in U16s
  BY <1>1, SmallNumber
<1> QED
  BY <1>1, <1>2, U16Type

LEMMA ShiftedByte ==
  ASSUME NEW n \in 0 .. 7
  PROVE  Shifted(n) \in Byte
<1> DEFINE Eq(f) == f = [i \in 0 .. 8 |-> IF i = 0 THEN 1 ELSE 2 * f[i - 1]]
           g == CHOOSE f : Eq(f)
           w == [i \in 0 .. 8 |->
                   CASE i = 0 -> 1 [] i = 1 -> 2 [] i = 2 -> 4 [] i = 3 -> 8 [] i = 4 -> 16
                     [] i = 5 -> 32 [] i = 6 -> 64 [] i = 7 -> 128 [] OTHER -> 256]
<1>1. Eq(w)
  <2> DEFINE v == [i \in 0 .. 8 |-> IF i = 0 THEN 1 ELSE 2 * w[i - 1]]
  <2>1. ASSUME NEW i \in 0 .. 8 PROVE w[i] = IF i = 0 THEN 1 ELSE 2 * w[i - 1]
    <3>1. i \in {0, 1, 2, 3, 4, 5, 6, 7, 8}
      BY SMT
    <3> QED BY <3>1, SMT
  <2>2. w = [i \in 0 .. 8 |-> w[i]]
    BY SMT
  <2> HIDE DEF w
  <2> QED BY <2>1, <2>2, SMT
<1>2. Eq(g)
  <2>1. \E f : Eq(f)
    <3> HIDE DEF w
    <3> QED BY <1>1, Zenon
  <2> HIDE DEF Eq
  <2> QED BY <2>1, Zenon
<1>3. Shifted(n) = g[n]
  BY Zenon DEF Shifted
<1> HIDE DEF g, w
<1>4. /\ g[0] = 1 /\ g[1] = 2 /\ g[2] = 4 /\ g[3] = 8 /\ g[4] = 16
      /\ g[5] = 32 /\ g[6] = 64 /\ g[7] = 128
  <2>1. \A i \in 0 .. 8 : g[i] = IF i = 0 THEN 1 ELSE 2 * g[i - 1]
    BY <1>2, SMT
  <2> HIDE DEF Eq
  <2>2. g[0] = 1 /\ g[1] = 2 * g[0] /\ g[2] = 2 * g[1] /\ g[3] = 2 * g[2] /\ g[4] = 2 * g[3]
        /\ g[5] = 2 * g[4] /\ g[6] = 2 * g[5] /\ g[7] = 2 * g[6]
    BY <2>1, SMT
  <2> QED BY <2>2, SMT
<1>5. n \in {0, 1, 2, 3, 4, 5, 6, 7}
  BY SMT
<1>6. g[n] \in {1, 2, 4, 8, 16, 32, 64, 128}
  BY <1>4, <1>5, SMT
<1>7. \A x \in {1, 2, 4, 8, 16, 32, 64, 128} : x \in Byte
  BY SMT DEF Byte
<1> HIDE DEF Eq
<1> QED
  BY <1>3, <1>6, <1>7, SMT

-----------------------------------------------------------------------------
(* The messages the accessory sends                                        *)

(* One parameter, which may be followed by others. *)
LEMMA ParamRead ==
  ASSUME NEW id \in U16s, NEW p \in Seq(Byte), Len(p) <= Space
  PROVE  /\ Reads(Parameter(id, p), One(id, p)) /\ Len(Parameter(id, p)) = 4 + Len(p)
         /\ Len(p) \in Nat
<1>1. Len(p) + 4 \in U16s /\ Len(p) \in Nat
  <2>1. Len(p) + 4 \in Nat /\ Len(p) + 4 <= 65535 /\ Len(p) \in Nat
    BY SMT DEF Space
  <2> QED BY <2>1, SmallNumber
<1> QED
  BY <1>1, ReadsOne, ParameterBytes DEF One

LEMMA NoneSent ==
  ASSUME NEW id \in U16s
  PROVE  LET m == Message(id, <<>>)
         IN  WellFramed(m) /\ ReadAs(m).id = id /\ DOMAIN ReadAs(m).params = {}
<1> DEFINE x == <<>>
           f == Indexed(x)
           m == Message(id, x)
<1>1. Reads(x, x) /\ Len(x) <= Space /\ DOMAIN f = {}
  <2>1. Len(x) <= Space
    BY SMT DEF Space
  <2> QED BY <2>1, ReadsNone, NoneAre DEF Indexed
<1> HIDE DEF x, f
<1>2. WellFramed(m) /\ ReadAs(m) = [id |-> id, params |-> f]
  BY <1>1, MessageRead DEF f
<1> HIDE DEF m
<1>3. ReadAs(m).id = id /\ ReadAs(m).params = f
  BY <1>2
<1> QED
  BY <1>1, <1>2, <1>3 DEF m, x

LEMMA OneSent ==
  ASSUME NEW id \in U16s, NEW i \in U16s, NEW p \in Seq(Byte), Len(p) <= Third
  PROVE  LET m == Message(id, Parameter(i, p))
             f == ReadAs(m).params
         IN  WellFramed(m) /\ ReadAs(m).id = id /\ DOMAIN f = {i} /\ f[i] = <<p>>
<1> DEFINE d == Parameter(i, p)
           ps == One(i, p)
           f == Indexed(ps)
           m == Message(id, d)
<1>1. Len(p) <= Space
  BY SMT DEF Third, Space
<1>2. Reads(d, ps) /\ Len(d) = 4 + Len(p) /\ Len(p) \in Nat
  BY <1>1, ParamRead
<1>3. Len(d) <= Space
  <2> HIDE DEF d
  <2> QED BY <1>2, SMT DEF Third, Space
<1>4. DOMAIN f = {i} /\ f[i] = <<p>>
  BY OneIs DEF Indexed
<1> HIDE DEF d, ps, f
<1>5. WellFramed(m) /\ ReadAs(m) = [id |-> id, params |-> f]
  BY <1>2, <1>3, MessageRead DEF f
<1> HIDE DEF m
<1>6. ReadAs(m).id = id /\ ReadAs(m).params = f
  BY <1>5
<1> QED
  BY <1>4, <1>5, <1>6 DEF m, d

LEMMA TwoSent ==
  ASSUME NEW id \in U16s, NEW i \in U16s, NEW p \in Seq(Byte), Len(p) <= Third + 1,
         NEW j \in U16s, NEW q \in Seq(Byte), Len(q) <= Third + 1, i # j
  PROVE  LET m == Message(id, Parameter(i, p) \o Parameter(j, q))
             f == ReadAs(m).params
         IN  WellFramed(m) /\ ReadAs(m).id = id /\ DOMAIN f = {i, j} /\ f[i] = <<p>> /\ f[j] = <<q>>
<1> DEFINE d == Parameter(i, p)
           e == Parameter(j, q)
           ps == One(i, p)
           qs == One(j, q)
           both == d \o e
           all == ps \o qs
           f == Indexed(all)
           m == Message(id, both)
<1>1. Len(p) <= Space /\ Len(q) <= Space
  BY SMT DEF Third, Space
<1>2. /\ Reads(d, ps) /\ Len(d) = 4 + Len(p) /\ Len(p) \in Nat
      /\ Reads(e, qs) /\ Len(e) = 4 + Len(q) /\ Len(q) \in Nat
  BY <1>1, ParamRead
<1>3. /\ ps \in Seq(Param) /\ Ids(ps) = {i} /\ Those(ps, i) = <<p>>
      /\ qs \in Seq(Param) /\ Ids(qs) = {j} /\ Those(qs, j) = <<q>>
  BY OneIs
<1> HIDE DEF d, e, ps, qs
<1>4. d \in Seq(Byte) /\ e \in Seq(Byte)
  BY <1>2 DEF Reads
<1>5. Len(both) <= Space
  <2>1. Len(both) = Len(d) + Len(e)
    BY <1>4, Joint
  <2> HIDE DEF both
  <2> QED BY <2>1, <1>2, SMT DEF Third, Space
<1>6. Reads(both, all)
  BY <1>2, ReadsBoth
<1>7. Ids(all) = {i, j} /\ Those(all, i) = <<p>> /\ Those(all, j) = <<q>>
  <2>1. /\ Ids(all) = Ids(ps) \cup Ids(qs)
        /\ \A k : k \notin Ids(qs) => Those(all, k) = Those(ps, k)
        /\ \A k : k \notin Ids(ps) => Those(all, k) = Those(qs, k)
    BY <1>3, BothAre
  <2> HIDE DEF all
  <2> QED BY <2>1, <1>3
<1> HIDE DEF both, all
<1>8. DOMAIN f = {i, j} /\ f[i] = <<p>> /\ f[j] = <<q>>
  BY <1>7 DEF Indexed
<1> HIDE DEF f
<1>9. WellFramed(m) /\ ReadAs(m) = [id |-> id, params |-> f]
  BY <1>5, <1>6, MessageRead DEF f
<1> HIDE DEF m
<1>10. ReadAs(m).id = id /\ ReadAs(m).params = f
  BY <1>9
<1> QED
  BY <1>8, <1>9, <1>10 DEF m, both, d, e


-----------------------------------------------------------------------------
(* Lists of parameters                                                     *)

(* One that is not empty. *)
LEMMA FlattenOnly ==
  ASSUME NEW A, NEW b \in Seq(Seq(A)), NEW k \in 1 .. Len(b),
         \A i \in 1 .. Len(b) : i # k => b[i] = <<>>
  PROVE  FlattenSeq(b) = b[k]
<1> DEFINE S == Seq(A)
           P(n) == SubSeq(b, 1, n)
           F(n) == FlattenSeq(P(n))
           Right(n) == F(n) = IF n < k THEN <<>> ELSE b[k]
           T == {n \in 0 .. Len(b) : ~ Right(n)}
<1>0. b \in Seq(S) /\ Len(b) \in Nat /\ k \in Nat /\ k >= 1 /\ k <= Len(b)
  OBVIOUS
<1>4. b[k] \in Seq(A)
  <2>1. b[k] \in S
    <3> HIDE DEF S
    <3> QED BY <1>0
  <2> QED BY <2>1
<1>1. T = {}
  <2> SUFFICES ASSUME T # {} PROVE FALSE
    OBVIOUS
  <2>1. T \in SUBSET Nat
    OBVIOUS
  <2>2. PICK n \in T : \A l \in T : n <= l
    <3> HIDE DEF T
    <3> QED BY <2>1, LeastNat
  <2>3. n \in 0 .. Len(b) /\ ~ Right(n)
    OBVIOUS
  <2>4. CASE n = 0
    <3>1. P(n) = <<>>
      BY <2>4, <1>0
    <3> HIDE DEF P, S
    <3>2. F(n) = <<>>
      BY <3>1, FlattenNone
    <3> QED BY <2>3, <2>4, <3>2, <1>0
  <2>5. CASE n > 0
    <3> DEFINE u == P(n - 1)
               e == b[n]
               w == FlattenSeq(u)
    <3>1. n \in 1 .. Len(b) /\ n - 1 \in 0 .. Len(b) /\ ~ (n <= n - 1)
      BY <2>3, <2>5, <1>0
    <3>2. P(n) = Append(u, e) /\ e \in S /\ u \in Seq(S)
      <4> HIDE DEF S
      <4> QED BY <3>1, <1>0, PieceBefore
    <3>3. Right(n - 1)
      <4>1. n - 1 \notin T
        <5> HIDE DEF T
        <5> QED BY <3>1, <2>2
      <4> HIDE DEF Right
      <4> QED BY <4>1, <3>1
    <3> HIDE DEF u
    <3>4. F(n) = w \o e /\ w \in Seq(A) /\ e \in Seq(A)
      <4>1. FlattenSeq(Append(u, e)) = w \o e /\ w \in Seq(A)
        BY <3>2, FlattenAppend, FlattenType
      <4> QED BY <3>2, <4>1
    <3>5. w = F(n - 1)
      BY DEF u
    <3> HIDE DEF w, F, P, S
    <3>6. CASE n < k
      <4>1. w = <<>> /\ e = <<>>
        BY <3>6, <3>1, <3>3, <3>5, <1>0
      <4>2. F(n) = <<>>
        BY <4>1, <3>4, NoneJoined
      <4> QED BY <4>2, <3>6, <2>3
    <3>7. CASE n = k
      <4>1. w = <<>> /\ e = b[k]
        BY <3>7, <3>1, <3>3, <3>5, <1>0
      <4> HIDE DEF e
      <4>2. F(n) = e
        BY <4>1, <3>4, NoneJoined
      <4> QED BY <4>1, <4>2, <3>7, <2>3, <1>0
    <3>8. CASE n > k
      <4>1. w = b[k] /\ e = <<>>
        BY <3>8, <3>1, <3>3, <3>5, <1>0
      <4> HIDE DEF e
      <4>2. F(n) = w
        BY <4>1, <3>4, NoneJoined
      <4> QED BY <4>1, <4>2, <3>8, <3>1, <2>3, <1>0
    <3> QED BY <3>6, <3>7, <3>8, <3>1, <1>0
  <2> QED BY <2>3, <2>4, <2>5
<1>2. P(Len(b)) = b
  BY WholePiece
<1>3. Len(b) \notin T /\ Len(b) \in 0 .. Len(b)
  <2> HIDE DEF T
  <2> QED BY <1>0, <1>1
<1>5. Right(Len(b))
  <2> HIDE DEF Right
  <2> QED BY <1>3
<1>6. F(Len(b)) = FlattenSeq(b)
  <2> HIDE DEF P
  <2> QED BY <1>2
<1> HIDE DEF F
<1> QED
  BY <1>0, <1>5, <1>6

(* Each one item. *)
LEMMA FlattenSingles ==
  ASSUME NEW A, NEW s \in Seq(A), NEW b \in Seq(Seq(A)), Len(b) = Len(s),
         \A i \in 1 .. Len(s) : b[i] = <<s[i]>>
  PROVE  FlattenSeq(b) = s
<1> DEFINE S == Seq(A)
           P(n) == SubSeq(b, 1, n)
           Q(n) == SubSeq(s, 1, n)
           T == {n \in 0 .. Len(b) : FlattenSeq(P(n)) # Q(n)}
<1>0. b \in Seq(S) /\ Len(b) \in Nat
  OBVIOUS
<1>1. T = {}
  <2> SUFFICES ASSUME T # {} PROVE FALSE
    OBVIOUS
  <2>1. T \in SUBSET Nat
    OBVIOUS
  <2>2. PICK n \in T : \A l \in T : n <= l
    <3> HIDE DEF T
    <3> QED BY <2>1, LeastNat
  <2>3. n \in 0 .. Len(b) /\ FlattenSeq(P(n)) # Q(n)
    OBVIOUS
  <2>4. CASE n = 0
    <3>1. P(n) = <<>> /\ Q(n) = <<>>
      BY <2>4, <1>0
    <3> HIDE DEF P, Q, S
    <3> QED BY <2>3, <3>1, FlattenNone
  <2>5. CASE n > 0
    <3> DEFINE u == P(n - 1)
               v == Q(n - 1)
               x == s[n]
    <3>1. n \in 1 .. Len(b) /\ n - 1 \in 0 .. Len(b) /\ ~ (n <= n - 1) /\ n \in 1 .. Len(s)
      BY <2>3, <2>5, <1>0
    <3>2. P(n) = Append(u, b[n]) /\ b[n] \in S /\ u \in Seq(S)
      <4> HIDE DEF S
      <4> QED BY <3>1, <1>0, PieceBefore
    <3>3. Q(n) = Append(v, x) /\ x \in A /\ v \in Seq(A)
      BY <3>1, PieceBefore
    <3>4. FlattenSeq(u) = v
      <4>1. n - 1 \notin T
        <5> HIDE DEF T
        <5> QED BY <3>1, <2>2
      <4> QED BY <4>1, <3>1
    <3> HIDE DEF u, v, P, Q, T
    <3>5. FlattenSeq(Append(u, b[n])) = FlattenSeq(u) \o b[n]
      BY <3>2, FlattenAppend
    <3>6. b[n] = <<x>>
      BY <3>1
    <3> HIDE DEF x
    <3>7. v \o <<x>> = Append(v, x)
      BY <3>3
    <3> QED BY <2>3, <3>2, <3>3, <3>4, <3>5, <3>6, <3>7, Zenon
  <2> QED BY <2>3, <2>4, <2>5
<1>2. P(Len(b)) = b /\ Q(Len(b)) = s
  BY WholePiece
<1>3. Len(b) \notin T /\ Len(b) \in 0 .. Len(b)
  <2> HIDE DEF T
  <2> QED BY <1>0, <1>1
<1> QED
  BY <1>2, <1>3

LEMMA ThoseAt ==
  ASSUME NEW qs \in Seq(Param), NEW k \in 1 .. Len(qs),
         \A l \in 1 .. Len(qs) : l # k => qs[l].id # qs[k].id
  PROVE  Those(qs, qs[k].id) = <<qs[k].payload>>
<1> DEFINE id == qs[k].id
           b == [i \in DOMAIN qs |-> PayloadIf(qs[i], id)]
<1>1. /\ b \in Seq(Seq(Seq(Byte))) /\ Len(b) = Len(qs)
      /\ \A i \in 1 .. Len(qs) : b[i] = PayloadIf(qs[i], id)
  BY IfType
<1> HIDE DEF b
<1>2. \A i \in 1 .. Len(b) : i # k => b[i] = <<>>
  BY <1>1 DEF PayloadIf
<1>3. b[k] = <<qs[k].payload>> /\ k \in 1 .. Len(b)
  BY <1>1 DEF PayloadIf
<1>4. FlattenSeq(b) = b[k]
  BY <1>1, <1>2, <1>3, FlattenOnly
<1> QED
  BY <1>3, <1>4 DEF Those, b

LEMMA ThoseAll ==
  ASSUME NEW qs \in Seq(Param), NEW id, \A l \in 1 .. Len(qs) : qs[l].id = id
  PROVE  Those(qs, id) = [l \in 1 .. Len(qs) |-> qs[l].payload]
<1> DEFINE b == [i \in DOMAIN qs |-> PayloadIf(qs[i], id)]
           s == [l \in 1 .. Len(qs) |-> qs[l].payload]
           A == Seq(Byte)
<1>1. /\ b \in Seq(Seq(A)) /\ Len(b) = Len(qs)
      /\ \A i \in 1 .. Len(qs) : b[i] = PayloadIf(qs[i], id)
  BY IfType
<1> HIDE DEF b
<1>2. s \in Seq(A) /\ Len(s) = Len(qs) /\ \A i \in 1 .. Len(qs) : s[i] = qs[i].payload
  <2>1. \A i \in 1 .. Len(qs) : qs[i].payload \in A
    <3>1. \A i \in 1 .. Len(qs) : qs[i] \in Param
      BY ElementsIn
    <3>2. \A p \in Param : p.payload \in A
      BY DEF Param
    <3> QED BY <3>1, <3>2
  <2>2. s \in [1 .. Len(qs) -> A]
    <3> HIDE DEF A
    <3> QED BY <2>1
  <2>3. \A i \in 1 .. Len(qs) : s[i] = qs[i].payload
    OBVIOUS
  <2>4. Len(qs) \in Nat
    OBVIOUS
  <2> HIDE DEF s, A
  <2> QED BY <2>2, <2>3, <2>4, FunctionSeq
<1> HIDE DEF s, A
<1>3. \A i \in 1 .. Len(s) : b[i] = <<s[i]>>
  BY <1>1, <1>2 DEF PayloadIf
<1>4. FlattenSeq(b) = s
  BY <1>1, <1>2, <1>3, FlattenSingles
<1> QED
  BY <1>4 DEF Those, b, s

(* A list of parameters, one behind the other. *)
LEMMA ListRead ==
  ASSUME NEW qs \in Seq(Param), NEW w,
         w = FlattenSeq([k \in DOMAIN qs |-> Parameter(qs[k].id, qs[k].payload)]),
         Len(w) <= Space
  PROVE  Reads(w, qs)
<1> DEFINE b == [k \in DOMAIN qs |-> Parameter(qs[k].id, qs[k].payload)]
           n == Len(qs)
<1>1. n \in Nat /\ DOMAIN qs = 1 .. n /\ \A k \in 1 .. n : qs[k] \in Param
  BY ElementsIn
<1>2. ASSUME NEW k \in 1 .. n
      PROVE  /\ Parameter(qs[k].id, qs[k].payload) \in Seq(Byte)
             /\ Len(Parameter(qs[k].id, qs[k].payload)) = 4 + Len(qs[k].payload)
             /\ Len(qs[k].payload) \in Nat
  <2> DEFINE id == qs[k].id
             p == qs[k].payload
             m == Len(p) + 4
  <2>1. id \in U16s /\ p \in Seq(Byte)
    BY <1>1 DEF Param
  <2> HIDE DEF id, p
  <2>2. id \in Nat /\ m \in Nat /\ Len(p) \in Nat
    BY <2>1 DEF U16s
  <2>3. Parameter(id, p) = Sized(m, id, p)
    BY DEF Parameter
  <2> HIDE DEF m
  <2>4. Sized(m, id, p) \in Seq(Byte) /\ Len(Sized(m, id, p)) = 4 + Len(p)
    BY <2>1, <2>2, SizedBytes
  <2> QED BY <2>2, <2>3, <2>4 DEF id, p
<1>3. b \in Seq(Seq(Byte)) /\ Len(b) = n
      /\ \A k \in 1 .. n : b[k] = Parameter(qs[k].id, qs[k].payload)
  <2>1. b = [k \in 1 .. n |-> Parameter(qs[k].id, qs[k].payload)]
    BY <1>1
  <2> HIDE DEF b, n
  <2>2. b \in [1 .. n -> Seq(Byte)]
    BY <2>1, <1>2
  <2>3. b \in Seq(Seq(Byte)) /\ Len(b) = n
    BY <2>2, <1>1, FunctionSeq
  <2> QED BY <2>1, <2>3
<1>4. w = FlattenSeq(b)
  OBVIOUS
<1> HIDE DEF b
<1>5. ASSUME NEW k \in 1 .. n PROVE Len(qs[k].payload) + 4 \in U16s
  <2>1. Len(b[k]) <= Len(FlattenSeq(b)) /\ Len(FlattenSeq(b)) \in Nat
    BY <1>3, FlattenLonger
  <2>2. Len(b[k]) = 4 + Len(qs[k].payload) /\ Len(qs[k].payload) \in Nat
    BY <1>2, <1>3
  <2>3. Len(qs[k].payload) + 4 \in Nat /\ Len(qs[k].payload) + 4 <= 65535
    BY <2>1, <2>2, <1>4, SMT DEF Space
  <2> QED BY <2>3, SmallNumber
<1>6. Reads(FlattenSeq(b), qs)
  <2>1. \A k \in 1 .. Len(b) : /\ Len(qs[k].payload) + 4 \in U16s
                               /\ b[k] = Parameter(qs[k].id, qs[k].payload)
    BY <1>3, <1>5
  <2>2. b \in Seq(Seq(Byte)) /\ Len(b) = Len(qs)
    BY <1>3
  <2> QED BY <2>1, <2>2, ReadsMany
<1> QED
  BY <1>4, <1>6

-----------------------------------------------------------------------------
(* What the messages of the accessory teach a device                        *)

(* The numbers of the parameters in a group. *)
NumbersIn(group) ==
  LET ps == ParseParameters(group)
  IN  [i \in DOMAIN ps |-> ps[i].id]

LEMMA AskedIs ==
  ASSUME NEW ps \in Seq(Param), NEW id
  PROVE  Asked(Indexed(ps), id) = NumbersIn(FlattenSeq(Those(ps, id)))
<1>1. At(Indexed(ps), id) = Those(ps, id)
  BY IndexedAt
<1> QED
  BY <1>1 DEF Asked, NumbersIn

LEMMA WordsAre ==
  ASSUME NEW list \in Seq(Word)
  PROVE  list \in Seq(U16s) /\ Len(list) \in Nat /\ DOMAIN list = 1 .. Len(list)
         /\ \A i \in 1 .. Len(list) : list[i] \in Word
<1>1. \A i \in 1 .. Len(list) : list[i] \in Word
  BY ElementsIn
<1>2. \A i \in 1 .. Len(list) : list[i] \in U16s
  BY <1>1, WordIs
<1>3. Len(list) \in Nat /\ DOMAIN list = 1 .. Len(list)
  BY ElementsIn
<1>4. list \in [1 .. Len(list) -> U16s]
  BY <1>2, <1>3
<1> QED
  BY <1>1, <1>3, <1>4, FunctionSeq

(* What a group of attributes asks for is read as what it asks for. *)
LEMMA AttributesRead ==
  ASSUME NEW id \in U16s, NEW list \in Seq(Word), Len(Attributes(id, list)) <= Third
  PROVE  \E ps : /\ Reads(Attributes(id, list), ps) /\ Ids(ps) \subseteq {id}
                 /\ NumbersIn(FlattenSeq(Those(ps, id))) = list
<1>1. CASE list = <<>>
  <2>1. Attributes(id, list) = <<>>
    BY <1>1 DEF Attributes
  <2>2. Reads(<<>>, <<>>) /\ Ids(<<>>) = {} /\ <<>> \in Seq(Param)
        /\ ParseParameters(<<>>) = <<>>
    BY ReadsNone, NoneAre
  <2>3. Those(<<>>, id) = <<>>
    BY <2>2, ThoseNot
  <2>4. NumbersIn(<<>>) = list
    BY <2>2, <1>1 DEF NumbersIn
  <2>5. NumbersIn(FlattenSeq(Those(<<>>, id))) = list
    BY <2>3, <2>4, FlattenNone
  <2> QED BY <2>1, <2>2, <2>5
<1>2. CASE list # <<>>
  <2> DEFINE n == Len(list)
             qs == [k \in 1 .. n |-> [id |-> list[k], payload |-> <<>>]]
             f == [k \in DOMAIN qs |-> Parameter(qs[k].id, qs[k].payload)]
             g == [k \in DOMAIN list |-> Parameter(list[k], <<>>)]
             w == FlattenSeq(g)
             d == Parameter(id, w)
             ps == One(id, w)
  <2>1. /\ n \in Nat /\ DOMAIN list = 1 .. n
        /\ \A k \in 1 .. n : list[k] \in U16s
    BY WordsAre, ElementsIn
  <2>2. \A k \in 1 .. n : [id |-> list[k], payload |-> <<>>] \in Param
    BY <2>1 DEF Param
  <2>3. qs \in Seq(Param) /\ Len(qs) = n /\ DOMAIN qs = 1 .. n
        /\ \A k \in 1 .. n : qs[k].id = list[k] /\ qs[k].payload = <<>>
    <3>1. qs \in [1 .. n -> Param]
      BY <2>2
    <3>2. \A k \in 1 .. n : qs[k].id = list[k] /\ qs[k].payload = <<>>
      OBVIOUS
    <3> HIDE DEF qs, n
    <3>3. DOMAIN qs = 1 .. n
      BY <3>1
    <3> QED BY <3>1, <3>2, <3>3, <2>1, FunctionSeq
  <2> HIDE DEF qs, n
  <2>4. f = g
    BY <2>1, <2>3
  <2>5. Attributes(id, list) = d
    BY <1>2 DEF Attributes, Written
  <2>6. \A k \in 1 .. n : Parameter(list[k], <<>>) \in Seq(Byte)
    <3> TAKE k \in 1 .. n
    <3>1. Len(<<>>) <= Space /\ <<>> \in Seq(Byte)
      BY SMT DEF Space
    <3>2. Reads(Parameter(list[k], <<>>), One(list[k], <<>>))
      BY <2>1, <3>1, ParamRead
    <3> QED BY <3>2 DEF Reads
  <2>7. g \in Seq(Seq(Byte))
    <3>1. g \in [1 .. n -> Seq(Byte)]
      BY <2>1, <2>6
    <3> HIDE DEF g
    <3> QED BY <3>1, <2>1, FunctionSeq
  <2>8. w = FlattenSeq(f)
    BY <2>4
  <2> HIDE DEF f, g
  <2>9. w \in Seq(Byte)
    BY <2>7, FlattenType
  <2> HIDE DEF w
  <2>10. d \in Seq(Byte) /\ Len(d) = 4 + Len(w) /\ Len(w) \in Nat
    <3>1. Len(w) + 4 \in Nat /\ id \in Nat /\ Len(w) \in Nat
      BY <2>9 DEF U16s
    <3>2. d = Sized(Len(w) + 4, id, w)
      BY DEF Parameter
    <3> HIDE DEF d
    <3> QED BY <3>1, <3>2, <2>9, SizedBytes
  <2>11. Len(w) <= Space
    BY <2>5, <2>10, SMT DEF Third, Space
  <2>12. Reads(d, ps)
    BY <2>9, <2>11, ParamRead
  <2>13. Ids(ps) = {id} /\ Those(ps, id) = <<w>>
    BY <2>9, OneIs
  <2>14. ParseParameters(w) = qs
    <3>1. Reads(w, qs)
      BY <2>3, <2>8, <2>11, ListRead DEF f
    <3> QED BY <3>1, ReadsIs
  <2> HIDE DEF d, ps
  <2>15. FlattenSeq(<<w>>) = w
    BY <2>9, FlattenOne
  <2>16. NumbersIn(w) = list
    <3>1. NumbersIn(w) = [i \in 1 .. n |-> list[i]]
      BY <2>14, <2>3 DEF NumbersIn
    <3> QED BY <3>1, <2>1
  <2> QED BY <2>5, <2>12, <2>13, <2>15, <2>16
<1> QED
  BY <1>1, <1>2

LEMMA StartPlayingSent ==
  ASSUME NEW c, Known(c), NEW id \in U16s
  PROVE  LET m == Message(id, Attributes(0, c.mediaAttributes)
                                \o Attributes(1, c.playbackAttributes))
             f == ReadAs(m).params
         IN  /\ WellFramed(m) /\ ReadAs(m).id = id
             /\ Asked(f, 0) = c.mediaAttributes /\ Asked(f, 1) = c.playbackAttributes
<1> DEFINE z == 0
           o == 1
           d == Attributes(z, c.mediaAttributes)
           e == Attributes(o, c.playbackAttributes)
           both == d \o e
           m == Message(id, both)
<1>1. z \in U16s /\ o \in U16s /\ z # o
  BY SMT DEF U16s
<1>2. c.mediaAttributes \in Seq(Word) /\ c.playbackAttributes \in Seq(Word)
  BY Fields DEF Known
<1>3. Len(d) <= Third /\ Len(e) <= Third
  BY DEF Known, Fitting
<1> HIDE DEF z, o
<1>4. PICK ps : /\ Reads(d, ps) /\ Ids(ps) \subseteq {z}
                /\ NumbersIn(FlattenSeq(Those(ps, z))) = c.mediaAttributes
  BY <1>1, <1>2, <1>3, AttributesRead
<1>5. PICK qs : /\ Reads(e, qs) /\ Ids(qs) \subseteq {o}
                /\ NumbersIn(FlattenSeq(Those(qs, o))) = c.playbackAttributes
  BY <1>1, <1>2, <1>3, AttributesRead
<1> HIDE DEF d, e
<1> DEFINE all == ps \o qs
           f == Indexed(all)
<1>6. d \in Seq(Byte) /\ e \in Seq(Byte) /\ ps \in Seq(Param) /\ qs \in Seq(Param)
  BY <1>4, <1>5 DEF Reads
<1>7. Reads(both, all)
  BY <1>4, <1>5, ReadsBoth
<1>8. Len(both) <= Space
  <2>1. Len(both) = Len(d) + Len(e) /\ Len(d) \in Nat /\ Len(e) \in Nat
    BY <1>6, Joint
  <2> HIDE DEF both
  <2> QED BY <2>1, <1>3, SMT DEF Third, Space
<1>9. all \in Seq(Param) /\ Those(all, z) = Those(ps, z) /\ Those(all, o) = Those(qs, o)
  <2>1. /\ all \in Seq(Param)
        /\ \A k : k \notin Ids(qs) => Those(all, k) = Those(ps, k)
        /\ \A k : k \notin Ids(ps) => Those(all, k) = Those(qs, k)
    BY <1>6, BothAre
  <2> HIDE DEF all
  <2> QED BY <2>1, <1>1, <1>4, <1>5
<1> HIDE DEF all, both
<1>10. Asked(f, z) = c.mediaAttributes /\ Asked(f, o) = c.playbackAttributes
  BY <1>4, <1>5, <1>9, AskedIs
<1> HIDE DEF f
<1>11. WellFramed(m) /\ ReadAs(m) = [id |-> id, params |-> f]
  BY <1>7, <1>8, MessageRead DEF f
<1> HIDE DEF m
<1>12. ReadAs(m).id = id /\ ReadAs(m).params = f
  BY <1>11
<1> QED
  BY <1>10, <1>11, <1>12 DEF m, both, d, e, z, o

-----------------------------------------------------------------------------
(* Sections                                                                *)

Span(n, m) == {i \in Nat : n <= i /\ i < m}

(* d holds, of the parameters with numbers from n to m, those in F. *)
Section(d, F, n, m) ==
  \E qs : /\ Reads(d, qs) /\ Ids(qs) \subseteq Span(n, m)
          /\ \A id \in Span(n, m) : Those(qs, id) = F[id]

LEMMA SectionOne ==
  ASSUME NEW F, NEW n \in Nat, NEW m \in Nat, NEW id \in U16s, id \in Span(n, m),
         NEW p \in Seq(Byte), Len(p) <= Space, F[id] = <<p>>,
         \A i \in Span(n, m) : i # id => F[i] = <<>>
  PROVE  Section(Parameter(id, p), F, n, m)
<1> DEFINE qs == One(id, p)
<1>1. Reads(Parameter(id, p), qs)
  BY ParamRead
<1>2. qs \in Seq(Param) /\ Ids(qs) = {id} /\ Those(qs, id) = <<p>>
  BY OneIs
<1> HIDE DEF qs
<1>3. \A i \in Span(n, m) : Those(qs, i) = F[i]
  <2> TAKE i \in Span(n, m)
  <2>1. CASE i = id
    BY <2>1, <1>2
  <2>2. CASE i # id
    <3>1. i \notin Ids(qs)
      BY <2>2, <1>2
    <3> QED BY <3>1, <2>2, <1>2, ThoseNot
  <2> QED BY <2>1, <2>2
<1> QED
  BY <1>1, <1>2, <1>3 DEF Section

LEMMA SectionNone ==
  ASSUME NEW F, NEW n, NEW m, \A i \in Span(n, m) : F[i] = <<>>
  PROVE  Section(<<>>, F, n, m)
<1> DEFINE x == <<>>
<1>1. Reads(x, x) /\ Ids(x) = {} /\ x \in Seq(Param)
  BY ReadsNone, NoneAre
<1>2. \A i : Those(x, i) = <<>>
  BY <1>1, ThoseNot
<1> HIDE DEF x
<1>3. \A i \in Span(n, m) : Those(x, i) = F[i]
  BY <1>2
<1>4. Section(x, F, n, m)
  BY <1>1, <1>3 DEF Section
<1> QED
  BY <1>4 DEF x

LEMMA SectionBoth ==
  ASSUME NEW F, NEW n \in Nat, NEW l \in Nat, NEW m \in Nat, n <= l, l <= m,
         NEW d, NEW e, Section(d, F, n, l), Section(e, F, l, m)
  PROVE  Section(d \o e, F, n, m)
<1>1. PICK ps : /\ Reads(d, ps) /\ Ids(ps) \subseteq Span(n, l)
                /\ \A id \in Span(n, l) : Those(ps, id) = F[id]
  BY DEF Section
<1>2. PICK qs : /\ Reads(e, qs) /\ Ids(qs) \subseteq Span(l, m)
                /\ \A id \in Span(l, m) : Those(qs, id) = F[id]
  BY DEF Section
<1> DEFINE all == ps \o qs
           both == d \o e
<1>3. Reads(both, all)
  BY <1>1, <1>2, ReadsBoth
<1>4. ps \in Seq(Param) /\ qs \in Seq(Param)
  BY <1>1, <1>2 DEF Reads
<1>5. /\ Ids(all) = Ids(ps) \cup Ids(qs)
      /\ \A id : id \notin Ids(qs) => Those(all, id) = Those(ps, id)
      /\ \A id : id \notin Ids(ps) => Those(all, id) = Those(qs, id)
  BY <1>4, BothAre
<1>6. /\ \A id \in Span(n, l) : id \notin Span(l, m) /\ id \in Span(n, m)
      /\ \A id \in Span(l, m) : id \notin Span(n, l) /\ id \in Span(n, m)
      /\ \A id \in Span(n, m) : id \in Span(n, l) \/ id \in Span(l, m)
  BY DEF Span
<1> HIDE DEF all, both
<1>7. Ids(all) \subseteq Span(n, m)
  BY <1>1, <1>2, <1>5, <1>6
<1>8. \A id \in Span(n, m) : Those(all, id) = F[id]
  <2> TAKE id \in Span(n, m)
  <2>1. CASE id \in Span(n, l)
    <3>1. id \notin Ids(qs)
      BY <2>1, <1>2, <1>6
    <3> QED BY <3>1, <2>1, <1>1, <1>5
  <2>2. CASE id \in Span(l, m)
    <3>1. id \notin Ids(ps)
      BY <2>2, <1>1, <1>6
    <3> QED BY <3>1, <2>2, <1>2, <1>5
  <2> QED BY <2>1, <2>2, <1>6
<1>9. Section(both, F, n, m)
  BY <1>3, <1>7, <1>8 DEF Section
<1> QED
  BY <1>9 DEF both

LEMMA SectionType ==
  ASSUME NEW d, NEW F, NEW n, NEW m, Section(d, F, n, m)
  PROVE  d \in Seq(Byte)
BY DEF Section, Reads

(* By number, a device finds what the section holds. *)
LEMMA SectionRead ==
  ASSUME NEW d, NEW F, NEW n, NEW m, Section(d, F, n, m)
  PROVE  \A id \in Span(n, m) : At(ByNumber(d), id) = F[id]
<1>1. PICK qs : /\ Reads(d, qs)
                /\ \A id \in Span(n, m) : Those(qs, id) = F[id]
  BY DEF Section
<1>2. ByNumber(d) = Indexed(qs) /\ qs \in Seq(Param)
  BY <1>1, ByNumberIs DEF Reads
<1> QED
  BY <1>1, <1>2, IndexedAt

LEMMA SectionSent ==
  ASSUME NEW d, NEW F, NEW n, NEW m, Section(d, F, n, m), Len(d) <= Space, NEW id \in U16s
  PROVE  LET b == Message(id, d)
         IN  /\ WellFramed(b) /\ ReadAs(b).id = id
             /\ \A i \in Span(n, m) : At(ReadAs(b).params, i) = F[i]
<1> DEFINE b == Message(id, d)
<1>1. PICK qs : /\ Reads(d, qs)
                /\ \A i \in Span(n, m) : Those(qs, i) = F[i]
  BY DEF Section
<1> DEFINE f == Indexed(qs)
<1>2. qs \in Seq(Param)
  BY <1>1 DEF Reads
<1>3. \A i \in Span(n, m) : At(f, i) = F[i]
  BY <1>1, <1>2, IndexedAt
<1> HIDE DEF f
<1>4. WellFramed(b) /\ ReadAs(b) = [id |-> id, params |-> f]
  BY <1>1, MessageRead DEF f
<1> HIDE DEF b
<1>5. ReadAs(b).id = id /\ ReadAs(b).params = f
  BY <1>4
<1> QED
  BY <1>3, <1>4, <1>5 DEF b

LEMMA ParameterType ==
  ASSUME NEW id \in Nat, NEW p \in Seq(Byte)
  PROVE  Parameter(id, p) \in Seq(Byte) /\ Len(Parameter(id, p)) = 4 + Len(p) /\ Len(p) \in Nat
<1> DEFINE n == Len(p) + 4
<1>1. n \in Nat /\ Len(p) \in Nat
  OBVIOUS
<1>2. Parameter(id, p) = Sized(n, id, p)
  BY DEF Parameter
<1> HIDE DEF n
<1> QED
  BY <1>1, <1>2, SizedBytes

LEMMA Parts ==
  ASSUME NEW S, NEW a \in Seq(S), NEW b \in Seq(S), NEW n \in Nat, Len(a \o b) <= n
  PROVE  Len(a) <= n /\ Len(b) <= n /\ Len(a \o b) = Len(a) + Len(b) /\ a \o b \in Seq(S)
<1>1. Len(a \o b) = Len(a) + Len(b) /\ Len(a) \in Nat /\ Len(b) \in Nat /\ a \o b \in Seq(S)
  BY Joint
<1> QED
  BY <1>1

-----------------------------------------------------------------------------
(* The messages of the HID remote                                          *)

LEMMA WordFits ==
  ASSUME NEW n \in Word
  PROVE  U16(n) \in Seq(Byte) /\ Len(U16(n)) = 2 /\ Len(U16(n)) <= Space /\ Len(U16(n)) <= Third
<1>1. U16(n) \in Seq(Byte) /\ Len(U16(n)) = 2
  BY WordIs
<1> HIDE DEF U16
<1> QED
  BY <1>1, SMT DEF Space, Third

LEMMA StartHidSent ==
  ASSUME NEW c, Known(c), NEW id \in U16s
  PROVE  LET m == Message(id, Parameter(0, U16(c.hidComponent)) \o Parameter(1, U16(c.vendor))
                                \o Parameter(2, U16(c.product)) \o Parameter(4, c.descriptor))
             f == ReadAs(m).params
         IN  /\ WellFramed(m) /\ ReadAs(m).id = id
             /\ At(f, 0) = <<U16(c.hidComponent)>> /\ At(f, 1) = <<U16(c.vendor)>>
             /\ At(f, 2) = <<U16(c.product)>> /\ At(f, 4) = <<c.descriptor>>
<1> DEFINE a == U16(c.hidComponent)
           b == U16(c.vendor)
           e == U16(c.product)
           g == c.descriptor
           F == [i \in 0 .. 4 |-> CASE i = 0 -> <<a>> [] i = 1 -> <<b>> [] i = 2 -> <<e>>
                                    [] i = 3 -> <<>> [] OTHER -> <<g>>]
           pa == Parameter(0, a)
           pb == Parameter(1, b)
           pe == Parameter(2, e)
           pg == Parameter(4, g)
           ab == pa \o pb
           abe == ab \o pe
           d == abe \o pg
           m == Message(id, d)
<1>1. /\ a \in Seq(Byte) /\ Len(a) = 2 /\ Len(a) <= Space
      /\ b \in Seq(Byte) /\ Len(b) = 2 /\ Len(b) <= Space
      /\ e \in Seq(Byte) /\ Len(e) = 2 /\ Len(e) <= Space
  BY Fields, WordFits DEF Known
<1>2. g \in Seq(Byte) /\ Len(g) <= Third
  BY Fields DEF Known, Fitting
<1> HIDE DEF a, b, e, g
<1>3. Len(g) <= Space
  BY <1>2, SMT DEF Third, Space
<1>4. /\ F[0] = <<a>> /\ F[1] = <<b>> /\ F[2] = <<e>> /\ F[3] = <<>> /\ F[4] = <<g>>
  BY SMT
<1> HIDE DEF F
<1>5. /\ 0 \in U16s /\ 1 \in U16s /\ 2 \in U16s /\ 4 \in U16s
      /\ Span(0, 1) = {0} /\ Span(1, 2) = {1} /\ Span(2, 3) = {2} /\ Span(3, 5) = {3, 4}
      /\ 0 \in Span(0, 5) /\ 1 \in Span(0, 5) /\ 2 \in Span(0, 5) /\ 4 \in Span(0, 5)
  BY SMT DEF U16s, Span
<1>6. Section(pa, F, 0, 1)
  BY <1>1, <1>4, <1>5, SectionOne
<1>7. Section(pb, F, 1, 2)
  BY <1>1, <1>4, <1>5, SectionOne
<1>8. Section(pe, F, 2, 3)
  BY <1>1, <1>4, <1>5, SectionOne
<1>9. Section(pg, F, 3, 5)
  <2>1. 4 \in Span(3, 5) /\ \A i \in Span(3, 5) : i # 4 => F[i] = <<>>
    BY <1>4, <1>5
  <2> QED BY <2>1, <1>2, <1>3, <1>4, <1>5, SectionOne
<1>10. Len(d) <= Space
  <2>1. pa \in Seq(Byte) /\ Len(pa) = 4 + Len(a)
    BY <1>1, ParameterType
  <2>2. pb \in Seq(Byte) /\ Len(pb) = 4 + Len(b)
    BY <1>1, ParameterType
  <2>3. pe \in Seq(Byte) /\ Len(pe) = 4 + Len(e)
    BY <1>1, ParameterType
  <2>4. pg \in Seq(Byte) /\ Len(pg) = 4 + Len(g) /\ Len(g) \in Nat
    BY <1>2, ParameterType
  <2> HIDE DEF pa, pb, pe, pg
  <2>5. ab \in Seq(Byte) /\ Len(ab) = Len(pa) + Len(pb)
    <3>1. pa \in Seq(Byte) /\ pb \in Seq(Byte)
      BY <2>1, <2>2
    <3> QED BY <3>1, Joint
  <2> HIDE DEF ab
  <2>6. abe \in Seq(Byte) /\ Len(abe) = Len(ab) + Len(pe)
    <3>1. ab \in Seq(Byte) /\ pe \in Seq(Byte)
      BY <2>3, <2>5
    <3> QED BY <3>1, Joint
  <2> HIDE DEF abe
  <2>7. Len(d) = Len(abe) + Len(pg)
    <3>1. abe \in Seq(Byte) /\ pg \in Seq(Byte)
      BY <2>4, <2>6
    <3> QED BY <3>1, Joint
  <2> HIDE DEF d
  <2> QED BY <2>1, <2>2, <2>3, <2>4, <2>5, <2>6, <2>7, <1>1, <1>2, SMT DEF Third, Space
<1> HIDE DEF pa, pb, pe, pg
<1>11. Section(ab, F, 0, 2)
  BY <1>6, <1>7, SectionBoth
<1> HIDE DEF ab
<1>12. Section(abe, F, 0, 3)
  BY <1>11, <1>8, SectionBoth
<1> HIDE DEF abe
<1>13. Section(d, F, 0, 5)
  BY <1>12, <1>9, SectionBoth
<1> HIDE DEF d
<1>14. /\ WellFramed(m) /\ ReadAs(m).id = id
       /\ \A i \in Span(0, 5) : At(ReadAs(m).params, i) = F[i]
  BY <1>10, <1>13, SectionSent
<1> HIDE DEF m
<1>15. /\ At(ReadAs(m).params, 0) = <<a>> /\ At(ReadAs(m).params, 1) = <<b>>
       /\ At(ReadAs(m).params, 2) = <<e>> /\ At(ReadAs(m).params, 4) = <<g>>
  BY <1>14, <1>4, <1>5
<1> QED
  BY <1>14, <1>15 DEF m, d, abe, ab, pa, pb, pe, pg, a, b, e, g

LEMMA Buttons ==
  ASSUME NEW c, Known(c), NEW r \in {Pressed(c.command), << 0 >>}
  PROVE  r \in Seq(Byte) /\ Len(r) <= Third
<1>1. CASE r = <<0>>
  <2>1. 0 \in Byte /\ 1 <= Third
    BY SMT DEF Byte, Third
  <2>2. r \in Seq(Byte) /\ Len(r) = 1
    BY <1>1, <2>1
  <2> QED BY <2>1, <2>2
<1>2. CASE r = Pressed(c.command)
  <2> DEFINE n == Bit[c.command]
             s == Shifted(n)
  <2>1. n \in 0 .. 7
    <3>1. c.command \in DOMAIN Bit
      BY Fields DEF Known
    <3> QED BY <3>1, SMT DEF Bit
  <2>2. s \in Byte
    <3> HIDE DEF n
    <3> QED BY <2>1, ShiftedByte
  <2>3. r = <<s>>
    BY <1>2 DEF Pressed
  <2> HIDE DEF s, n
  <2>4. r \in Seq(Byte) /\ Len(r) = 1 /\ 1 <= Third
    BY <2>2, <2>3, SMT DEF Third
  <2> QED BY <2>4
<1> QED
  BY <1>1, <1>2

-----------------------------------------------------------------------------
(* The sections of an identification                                       *)

LEMMA OptionIs ==
  ASSUME NEW o \in Optionals
  PROVE  \/ o = {} /\ Option(o) = <<>>
         \/ \E x \in Seq(Byte) : o = {x} /\ Option(o) = <<x>> /\ (CHOOSE d \in o : TRUE) = x
<1>1. o \in SUBSET Seq(Byte) /\ \A x, y \in o : x = y
  BY DEF Optionals
<1>2. CASE o = {}
  <2> DEFINE s == SetToSeq({})
  <2>1. IsFiniteSet({})
    BY FS_EmptySet
  <2>2. s \in Seq({}) /\ DOMAIN s = 1 .. Len(s) /\ Len(s) \in Nat
    BY <2>1, InSomeOrder
  <2> HIDE DEF s
  <2>3. s = <<>>
    BY <2>2
  <2> QED BY <1>2, <2>3 DEF Option, s
<1>3. CASE o # {}
  <2>1. PICK x \in Seq(Byte) : o = {x}
    BY <1>1, <1>3
  <2> DEFINE s == SetToSeq({x})
  <2>2. IsFiniteSet({x})
    BY FS_Singleton
  <2>3. /\ s \in Seq({x}) /\ DOMAIN s = 1 .. Len(s) /\ Len(s) \in Nat
        /\ \A a, b \in 1 .. Len(s) : s[a] = s[b] => a = b
        /\ \E a \in 1 .. Len(s) : s[a] = x
    <3>1. x \in {x}
      OBVIOUS
    <3> QED BY <2>2, <3>1, InSomeOrder
  <2> HIDE DEF s
  <2>4. \A a \in 1 .. Len(s) : s[a] = x
    BY <2>3
  <2>5. Len(s) = 1
    <3>1. 1 \in 1 .. Len(s)
      BY <2>3
    <3>2. Len(s) <= 1
      <4> SUFFICES ASSUME Len(s) >= 2 PROVE FALSE
        BY <2>3
      <4>1. 2 \in 1 .. Len(s)
        BY <2>3
      <4>2. s[1] = s[2]
        BY <4>1, <3>1, <2>4
      <4> QED BY <4>1, <4>2, <3>1, <2>3
    <3> QED BY <3>1, <3>2, <2>3
  <2>6. s = <<x>>
    <3>1. s[1] = x
      BY <2>4, <2>5
    <3> QED BY <3>1, <2>5, <2>3
  <2>7. (CHOOSE d \in o : TRUE) = x
    BY <2>1
  <2> QED BY <2>1, <2>6, <2>7 DEF Option, s
<1> QED
  BY <1>2, <1>3

LEMMA TextType ==
  ASSUME NEW s \in Seq(Byte)
  PROVE  Text(s) \in Seq(Byte) /\ Len(Text(s)) = Len(s) + 1 /\ Len(s) \in Nat
<1>1. 0 \in Byte
  BY DEF Byte
<1> QED
  BY <1>1 DEF Text

LEMMA TextsAre ==
  ASSUME NEW x
  PROVE  Texts(<<>>) = <<>> /\ Texts(<<x>>) = <<Text(x)>>
BY DEF Texts

LEMMA OptionalIs ==
  ASSUME NEW n, NEW o
  PROVE  Optional(LAMBDA b : Parameter(n, Text(b)), o)
           = IF o = {} THEN <<>> ELSE Parameter(n, Text(CHOOSE x \in o : TRUE))
BY DEF Optional

(* A section with one number. *)
LEMMA SpanOne ==
  ASSUME NEW n \in Nat
  PROVE  Span(n, n + 1) = {n} /\ n + 1 \in Nat /\ n <= n + 1
BY DEF Span

LEMMA AloneSection ==
  ASSUME NEW F, NEW n \in U16s, NEW p \in Seq(Byte), Len(Parameter(n, p)) <= Third,
         F[n] = <<p>>
  PROVE  Section(Parameter(n, p), F, n, n + 1)
<1>1. n \in Nat
  BY DEF U16s
<1>2. Len(Parameter(n, p)) = 4 + Len(p) /\ Len(p) \in Nat
  BY <1>1, ParameterType
<1>3. Len(p) <= Space
  BY <1>2, SMT DEF Third, Space
<1>4. n \in Span(n, n + 1) /\ n + 1 \in Nat /\ \A i \in Span(n, n + 1) : i # n => F[i] = <<>>
  BY <1>1, SpanOne
<1> QED
  BY <1>1, <1>3, <1>4, SectionOne

LEMMA NoSection ==
  ASSUME NEW F, NEW n \in U16s, F[n] = <<>>
  PROVE  Section(<<>>, F, n, n + 1)
<1>1. \A i \in Span(n, n + 1) : F[i] = <<>>
  BY SpanOne DEF U16s
<1> QED
  BY <1>1, SectionNone

LEMMA SeedSection ==
  ASSUME NEW F, NEW n \in U16s, NEW o \in Optionals, F[n] = Texts(Option(o)),
         Len(Optional(LAMBDA b : Parameter(n, Text(b)), o)) <= Third
  PROVE  Section(Optional(LAMBDA b : Parameter(n, Text(b)), o), F, n, n + 1)
<1> DEFINE e == Optional(LAMBDA b : Parameter(n, Text(b)), o)
<1>1. CASE o = {} /\ Option(o) = <<>>
  <2>1. e = <<>>
    BY <1>1 DEF Optional
  <2>2. F[n] = <<>>
    BY <1>1, TextsAre
  <2> QED BY <2>1, <2>2, NoSection
<1>2. ASSUME NEW x \in Seq(Byte), o = {x}, Option(o) = <<x>>, (CHOOSE d \in o : TRUE) = x
      PROVE  Section(e, F, n, n + 1)
  <2> DEFINE t == Text(x)
  <2>1. e = Parameter(n, t)
    BY <1>2, OptionalIs
  <2>2. F[n] = <<t>>
    BY <1>2, TextsAre
  <2>3. t \in Seq(Byte)
    BY TextType
  <2>4. Len(e) <= Third
    OBVIOUS
  <2> HIDE DEF e, t
  <2> QED BY <2>1, <2>2, <2>3, <2>4, AloneSection
<1> QED
  BY <1>1, <1>2, OptionIs

(* A list of texts under one number. *)
LEMMA LanguagesSection ==
  ASSUME NEW F, NEW n \in U16s, NEW list \in Seq(Seq(Byte)), F[n] = Texts(list),
         Len(Written(LAMBDA l : Parameter(n, Text(l)), list)) <= Third
  PROVE  Section(Written(LAMBDA l : Parameter(n, Text(l)), list), F, n, n + 1)
<1> DEFINE k == Len(list)
           A == Seq(Byte)
           qs == [i \in 1 .. k |-> [id |-> n, payload |-> Text(list[i])]]
           w == Written(LAMBDA l : Parameter(n, Text(l)), list)
<1>1. k \in Nat /\ DOMAIN list = 1 .. k /\ \A i \in 1 .. k : list[i] \in A
  BY ElementsIn
<1>2. qs \in Seq(Param) /\ Len(qs) = k /\ DOMAIN qs = 1 .. k
      /\ \A i \in 1 .. k : qs[i].id = n /\ qs[i].payload = Text(list[i])
  <2>1. \A i \in 1 .. k : [id |-> n, payload |-> Text(list[i])] \in Param
    BY <1>1, TextType DEF Param
  <2>2. qs \in [1 .. k -> Param]
    BY <2>1
  <2>3. \A i \in 1 .. k : qs[i].id = n /\ qs[i].payload = Text(list[i])
    OBVIOUS
  <2> HIDE DEF qs, k
  <2>4. DOMAIN qs = 1 .. k
    BY <2>2
  <2> QED BY <2>2, <2>3, <2>4, <1>1, FunctionSeq
<1> HIDE DEF qs, k
<1>3. w = FlattenSeq([i \in DOMAIN qs |-> Parameter(qs[i].id, qs[i].payload)])
  <2>1. w = FlattenSeq([i \in DOMAIN list |-> Parameter(n, Text(list[i]))])
    BY DEF Written
  <2>2. [i \in DOMAIN list |-> Parameter(n, Text(list[i]))]
          = [i \in DOMAIN qs |-> Parameter(qs[i].id, qs[i].payload)]
    BY <1>1, <1>2
  <2> QED BY <2>1, <2>2
<1>4. Len(w) <= Third
  OBVIOUS
<1> HIDE DEF w
<1>5. Len(w) <= Space
  <2>1. Len(w) \in Nat \/ Len(w) \notin Nat
    OBVIOUS
  <2>2. w \in Seq(Byte)
    <3> DEFINE f == [i \in DOMAIN qs |-> Parameter(qs[i].id, qs[i].payload)]
    <3>1. \A i \in 1 .. k : Parameter(qs[i].id, qs[i].payload) \in A
      <4> TAKE i \in 1 .. k
      <4>1. n \in Nat /\ Text(list[i]) \in A
        BY <1>1, TextType DEF U16s
      <4>2. Parameter(n, Text(list[i])) \in A
        BY <4>1, ParameterType
      <4> QED BY <4>2, <1>2
    <3>2. f \in [1 .. k -> A]
      BY <3>1, <1>2
    <3> HIDE DEF f
    <3>3. f \in Seq(A)
      BY <3>2, <1>1, FunctionSeq
    <3> QED BY <3>3, <1>3, FlattenType DEF f
  <2>3. Len(w) \in Nat
    BY <2>2
  <2> QED BY <2>3, <1>4, SMT DEF Third, Space
<1>6. Reads(w, qs)
  BY <1>2, <1>3, <1>5, ListRead
<1>7. Those(qs, n) = F[n]
  <2>1. Those(qs, n) = [l \in 1 .. k |-> qs[l].payload]
    BY <1>2, ThoseAll
  <2>2. Texts(list) = [l \in 1 .. k |-> Text(list[l])]
    BY <1>1 DEF Texts
  <2> QED BY <2>1, <2>2, <1>2
<1>8. Ids(qs) \subseteq {n}
  BY <1>2 DEF Ids
<1>9. Section(w, F, n, n + 1)
  <2>1. Span(n, n + 1) = {n}
    BY SpanOne DEF U16s
  <2> QED BY <2>1, <1>6, <1>7, <1>8 DEF Section
<1> QED
  BY <1>9 DEF w

(* The six texts. *)
LEMMA TextsSection ==
  ASSUME NEW F, NEW texts \in [1 .. 6 -> Seq(Byte)], NEW w,
         w = FlattenSeq([i \in DOMAIN texts |-> Parameter(i - 1, Text(texts[i]))]),
         Len(w) <= Third, \A i \in 1 .. 6 : F[i - 1] = <<Text(texts[i])>>
  PROVE  Section(w, F, 0, 6)
<1> DEFINE A == Seq(Byte)
           qs == [i \in 1 .. 6 |-> [id |-> i - 1, payload |-> Text(texts[i])]]
           f == [i \in DOMAIN texts |-> Parameter(i - 1, Text(texts[i]))]
           n == 6
<1>1. /\ n \in Nat /\ \A i \in 1 .. n : i \in Nat /\ i - 1 \in Nat /\ i - 1 \in U16s
      /\ \A i, j \in 1 .. n : i # j => i - 1 # j - 1
  BY DEF U16s
<1>2. DOMAIN texts = 1 .. n /\ \A i \in 1 .. n : texts[i] \in A
  OBVIOUS
<1>3. \A i \in 1 .. n : Text(texts[i]) \in A
  BY <1>2, TextType
<1>4. /\ qs \in [1 .. n -> Param]
      /\ \A i \in 1 .. n : qs[i].id = i - 1 /\ qs[i].payload = Text(texts[i])
  <2>1. \A i \in 1 .. n : [id |-> i - 1, payload |-> Text(texts[i])] \in Param
    BY <1>1, <1>3 DEF Param
  <2>2. qs \in [1 .. n -> Param]
    BY <2>1
  <2>3. \A i \in 1 .. n : qs[i].id = i - 1 /\ qs[i].payload = Text(texts[i])
    OBVIOUS
  <2> QED BY <2>2, <2>3
<1>5. f = [i \in 1 .. n |-> Parameter(i - 1, Text(texts[i]))]
  BY <1>2
<1>6. w = FlattenSeq(f) /\ Len(w) <= Third /\ \A i \in 1 .. n : F[i - 1] = <<Text(texts[i])>>
  OBVIOUS
<1> HIDE DEF qs, f, n
<1>7. qs \in Seq(Param) /\ Len(qs) = n /\ DOMAIN qs = 1 .. n
  <2>1. DOMAIN qs = 1 .. n
    BY <1>4
  <2> QED BY <2>1, <1>1, <1>4, FunctionSeq
<1>8. f = [i \in DOMAIN qs |-> Parameter(qs[i].id, qs[i].payload)]
  BY <1>4, <1>5, <1>7
<1>9. w \in A
  <2>1. \A i \in 1 .. n : Parameter(i - 1, Text(texts[i])) \in A
    BY <1>1, <1>3, ParameterType
  <2>2. f \in [1 .. n -> A]
    BY <2>1, <1>5
  <2>3. f \in Seq(A)
    BY <2>2, <1>1, FunctionSeq
  <2> QED BY <2>3, <1>6, FlattenType
<1>10. Len(w) <= Space
  <2>1. Len(w) \in Nat
    BY <1>9
  <2> QED BY <2>1, <1>6, SMT DEF Third, Space
<1>11. Reads(w, qs)
  BY <1>6, <1>7, <1>8, <1>10, ListRead
<1>12. \A i \in 1 .. n : Those(qs, i - 1) = F[i - 1]
  <2> TAKE i \in 1 .. n
  <2>1. i \in 1 .. Len(qs) /\ \A l \in 1 .. Len(qs) : l # i => qs[l].id # qs[i].id
    BY <1>1, <1>4, <1>7
  <2>2. Those(qs, qs[i].id) = <<qs[i].payload>>
    BY <2>1, <1>7, ThoseAt
  <2> QED BY <2>2, <1>4, <1>6
<1>13. Span(0, n) = {i - 1 : i \in 1 .. n}
  <2>1. \A k \in Span(0, n) : k + 1 \in 1 .. n /\ k = (k + 1) - 1
    BY <1>1 DEF Span
  <2>2. \A i \in 1 .. n : i - 1 \in Span(0, n)
    BY <1>1 DEF Span
  <2> QED BY <2>1, <2>2
<1>14. Ids(qs) \subseteq Span(0, n)
  <2>1. \A i \in 1 .. Len(qs) : qs[i].id \in Span(0, n)
    BY <1>4, <1>7, <1>13
  <2> QED BY <2>1 DEF Ids
<1>15. Section(w, F, 0, n)
  <2>1. \A id \in Span(0, n) : Those(qs, id) = F[id]
    BY <1>12, <1>13
  <2> QED BY <2>1, <1>11, <1>14 DEF Section
<1> QED
  BY <1>15 DEF n

(* A list of numbers, which may be missing. *)
LEMMA NumbersType ==
  ASSUME NEW list \in Seq(Word)
  PROVE  Written(U16, list) \in Seq(Byte)
<1> DEFINE f == [i \in DOMAIN list |-> U16(list[i])]
<1>1. DOMAIN list = 1 .. Len(list) /\ Len(list) \in Nat /\ \A i \in 1 .. Len(list) : list[i] \in Word
  BY ElementsIn
<1>2. \A i \in 1 .. Len(list) : U16(list[i]) \in Seq(Byte)
  BY <1>1, WordIs
<1>3. f \in [1 .. Len(list) -> Seq(Byte)]
  BY <1>1, <1>2
<1>4. Written(U16, list) = FlattenSeq(f)
  BY DEF Written
<1> HIDE DEF f
<1>5. f \in Seq(Seq(Byte))
  BY <1>1, <1>3, FunctionSeq
<1> QED
  BY <1>4, <1>5, FlattenType

(* What a device finds of such a list. *)
Found(list) == IF list = <<>> THEN <<>> ELSE <<Written(U16, list)>>

LEMMA NumbersFound ==
  ASSUME NEW list \in Seq(Word)
  PROVE  FlattenSeq(Found(list)) = Written(U16, list)
<1>1. CASE list = <<>>
  <2> DEFINE f == [i \in DOMAIN list |-> U16(list[i])]
  <2>1. f = <<>>
    BY <1>1
  <2>2. Written(U16, list) = FlattenSeq(f)
    BY DEF Written
  <2>3. Found(list) = <<>>
    BY <1>1 DEF Found
  <2> HIDE DEF f
  <2> QED BY <2>1, <2>2, <2>3
<1>2. CASE list # <<>>
  <2> DEFINE w == Written(U16, list)
  <2>1. w \in Seq(Byte)
    BY NumbersType
  <2>2. Found(list) = <<w>>
    BY <1>2 DEF Found
  <2> HIDE DEF w
  <2>3. FlattenSeq(<<w>>) = w
    BY <2>1, FlattenOne
  <2> QED BY <2>2, <2>3 DEF w
<1> QED
  BY <1>1, <1>2

LEMMA NumbersSection ==
  ASSUME NEW F, NEW n \in U16s, NEW list \in Seq(Word), F[n] = Found(list),
         Len(Numbers(n, list)) <= Third
  PROVE  Section(Numbers(n, list), F, n, n + 1)
<1>1. CASE list = <<>>
  <2>1. Numbers(n, list) = <<>> /\ F[n] = <<>>
    BY <1>1 DEF Numbers, Found
  <2> QED BY <2>1, NoSection
<1>2. CASE list # <<>>
  <2> DEFINE w == Written(U16, list)
  <2>1. Numbers(n, list) = Parameter(n, w) /\ F[n] = <<w>>
    BY <1>2 DEF Numbers, Found
  <2>2. w \in Seq(Byte)
    BY NumbersType
  <2> HIDE DEF w
  <2> QED BY <2>1, <2>2, AloneSection
<1> QED
  BY <1>1, <1>2

(* The match action and the name of a protocol. *)
ProtocolBody(name) == Parameter(0, <<0>>) \o Parameter(1, Text(name)) \o Parameter(2, <<1>>)

LEMMA ByteFits ==
  ASSUME NEW n \in Byte
  PROVE  <<n>> \in Seq(Byte) /\ Len(<<n>>) = 1 /\ Len(<<n>>) <= Space
<1> DEFINE p == <<n>>
<1>1. p \in Seq(Byte) /\ Len(p) = 1
  OBVIOUS
<1> HIDE DEF p
<1>2. Len(p) <= Space
  BY <1>1, SMT DEF Space
<1> QED
  BY <1>1, <1>2 DEF p

LEMMA ProtocolRead ==
  ASSUME NEW name \in Seq(Byte), Len(ProtocolBody(name)) <= Third
  PROVE  /\ ProtocolBody(name) \in Seq(Byte)
         /\ Len(ProtocolBody(name)) = (4 + 1) + (4 + Len(Text(name))) + (4 + 1)
         /\ At(ByNumber(ProtocolBody(name)), 1) = <<Text(name)>>
<1> DEFINE a == <<0>>
           b == Text(name)
           e == <<1>>
           F == [i \in 0 .. 2 |-> CASE i = 0 -> <<a>> [] i = 1 -> <<b>> [] OTHER -> <<e>>]
           pa == Parameter(0, a)
           pb == Parameter(1, b)
           pe == Parameter(2, e)
           ab == pa \o pb
           d == ab \o pe
<1>1. /\ a \in Seq(Byte) /\ Len(a) = 1 /\ Len(a) <= Space
      /\ e \in Seq(Byte) /\ Len(e) = 1 /\ Len(e) <= Space
  <2>1. 0 \in Byte /\ 1 \in Byte
    BY SMT DEF Byte
  <2> QED BY <2>1, ByteFits
<1>2. b \in Seq(Byte) /\ Len(b) \in Nat
  BY TextType
<1>3. ProtocolBody(name) = d /\ Len(ProtocolBody(name)) <= Third
  BY DEF ProtocolBody
<1> HIDE DEF a, b, e
<1>4. F[0] = <<a>> /\ F[1] = <<b>> /\ F[2] = <<e>>
  BY SMT
<1> HIDE DEF F
<1>5. /\ 0 \in U16s /\ 1 \in U16s /\ 2 \in U16s
      /\ Span(0, 1) = {0} /\ Span(1, 2) = {1} /\ Span(2, 3) = {2} /\ 1 \in Span(0, 3)
  BY SMT DEF U16s, Span
<1>6. pa \in Seq(Byte) /\ Len(pa) = 4 + Len(a)
  BY <1>1, ParameterType
<1>7. pb \in Seq(Byte) /\ Len(pb) = 4 + Len(b)
  BY <1>2, ParameterType
<1>8. pe \in Seq(Byte) /\ Len(pe) = 4 + Len(e)
  BY <1>1, ParameterType
<1> HIDE DEF pa, pb, pe
<1>9. ab \in Seq(Byte) /\ Len(ab) = Len(pa) + Len(pb)
  <2>1. pa \in Seq(Byte) /\ pb \in Seq(Byte)
    BY <1>6, <1>7
  <2> QED BY <2>1, Joint
<1> HIDE DEF ab
<1>10. d \in Seq(Byte) /\ Len(d) = Len(ab) + Len(pe)
  <2>1. ab \in Seq(Byte) /\ pe \in Seq(Byte)
    BY <1>8, <1>9
  <2> QED BY <2>1, Joint
<1> HIDE DEF d
<1>11. Len(b) <= Space
  BY <1>1, <1>2, <1>3, <1>6, <1>7, <1>8, <1>9, <1>10, SMT DEF Third, Space
<1>12. Section(pa, F, 0, 1)
  BY <1>1, <1>4, <1>5, SectionOne DEF pa
<1>13. Section(pb, F, 1, 2)
  BY <1>2, <1>4, <1>5, <1>11, SectionOne DEF pb
<1>14. Section(pe, F, 2, 3)
  BY <1>1, <1>4, <1>5, SectionOne DEF pe
<1>15. Section(ab, F, 0, 2)
  BY <1>12, <1>13, SectionBoth DEF ab
<1>16. Section(d, F, 0, 3)
  BY <1>14, <1>15, SectionBoth DEF d
<1>17. At(ByNumber(d), 1) = <<b>>
  <2>1. \A id \in Span(0, 3) : At(ByNumber(d), id) = F[id]
    BY <1>16, SectionRead
  <2> QED BY <2>1, <1>4, <1>5
<1> QED
  BY <1>1, <1>3, <1>6, <1>7, <1>8, <1>9, <1>10, <1>17 DEF b

LEMMA ProtocolIs ==
  ASSUME NEW name \in Seq(Byte), Len(Protocol(name)) <= Third
  PROVE  /\ ProtocolBody(name) \in Seq(Byte)
         /\ Protocol(name) = Parameter(10, ProtocolBody(name))
         /\ At(ByNumber(ProtocolBody(name)), 1) = <<Text(name)>>
<1> DEFINE b == ProtocolBody(name)
           t == Text(name)
           n == 4 + (4 + 1) + (4 + Len(t)) + (4 + 1)
<1>1. Protocol(name) = Sized(n, 10, b)
  BY DEF Protocol, ProtocolBody
<1>2. t \in Seq(Byte) /\ Len(t) \in Nat
  BY TextType
<1>3. b \in Seq(Byte)
  <2>1. 0 \in Byte /\ 1 \in Byte
    BY SMT DEF Byte
  <2>2. <<0>> \in Seq(Byte) /\ <<1>> \in Seq(Byte)
    BY <2>1
  <2>3. Parameter(0, <<0>>) \in Seq(Byte) /\ Parameter(1, t) \in Seq(Byte)
        /\ Parameter(2, <<1>>) \in Seq(Byte)
    BY <1>2, <2>2, ParameterType
  <2> QED BY <2>3 DEF ProtocolBody
<1> HIDE DEF b, t
<1>4. n \in Nat /\ 10 \in Nat
  BY <1>2
<1> HIDE DEF n
<1>5. Len(b) <= Third
  <2>1. Len(Sized(n, 10, b)) = 4 + Len(b)
    BY <1>3, <1>4, SizedBytes
  <2>2. Len(b) \in Nat /\ Len(Sized(n, 10, b)) <= Third
    BY <1>1, <1>3
  <2> QED BY <2>1, <2>2, SMT DEF Third
<1>6. Len(b) = (4 + 1) + (4 + Len(t)) + (4 + 1) /\ At(ByNumber(b), 1) = <<t>>
  BY <1>5, ProtocolRead DEF b, t
<1>7. n = Len(b) + 4
  BY <1>2, <1>6 DEF n
<1>8. Protocol(name) = Parameter(10, b)
  BY <1>1, <1>7 DEF Parameter
<1> QED
  BY <1>3, <1>6, <1>8 DEF b, t

(* A component of the HID remote. *)
ComponentBody(c) ==
  Parameter(0, U16(c.id)) \o Parameter(1, Text(c.name))
    \o Parameter(2, FunctionBytes(c.function))
    \o Optional(LAMBDA d : Parameter(3, d), c.extra)

LEMMA ComponentFields ==
  ASSUME NEW c \in Components
  PROVE  /\ U16(c.id) \in Seq(Byte) /\ Len(U16(c.id)) = 2 /\ Len(U16(c.id)) <= Space
         /\ c.name \in Seq(Byte) /\ c.extra \in Optionals
         /\ FunctionBytes(c.function) \in Seq(Byte) /\ Len(FunctionBytes(c.function)) \in Nat
         /\ Len(FunctionBytes(c.function)) <= Space
<1>1. c.id \in Word /\ c.name \in Seq(Byte) /\ c.function \in HidFunction /\ c.extra \in Optionals
  BY DEF Components
<1>2. U16(c.id) \in Seq(Byte) /\ Len(U16(c.id)) = 2 /\ Len(U16(c.id)) <= Space
  BY <1>1, WordFits
<1>3. /\ FunctionBytes(c.function) \in Seq(Byte) /\ Len(FunctionBytes(c.function)) \in Nat
      /\ Len(FunctionBytes(c.function)) <= Space
  <2> DEFINE f == c.function
  <2>1. \/ f.kind = "None" \/ f.kind = "MediaPlaybackRemote"
        \/ f.kind = "Custom" /\ f.value \in Byte
    BY <1>1 DEF HidFunction
  <2> HIDE DEF f
  <2>2. 1 \in Byte
    BY SMT DEF Byte
  <2>3. <<>> \in Seq(Byte) /\ Len(<<>>) = 0 /\ Len(<<>>) <= Space
    BY SMT DEF Space
  <2>4. CASE f.kind = "None"
    <3>1. FunctionBytes(f) = <<>>
      BY <2>4 DEF FunctionBytes
    <3> QED BY <3>1, <2>3 DEF f
  <2>5. CASE f.kind = "MediaPlaybackRemote"
    <3>1. FunctionBytes(f) = <<1>>
      BY <2>5 DEF FunctionBytes
    <3>2. <<1>> \in Seq(Byte) /\ Len(<<1>>) = 1 /\ Len(<<1>>) <= Space
      BY <2>2, ByteFits
    <3> QED BY <3>1, <3>2 DEF f
  <2>6. CASE f.kind = "Custom" /\ f.value \in Byte
    <3> DEFINE v == f.value
    <3>1. FunctionBytes(f) = <<v>>
      BY <2>6 DEF FunctionBytes
    <3>2. <<v>> \in Seq(Byte) /\ Len(<<v>>) = 1 /\ Len(<<v>>) <= Space
      BY <2>6, ByteFits
    <3> QED BY <3>1, <3>2 DEF f
  <2> QED BY <2>1, <2>4, <2>5, <2>6
<1> QED
  BY <1>1, <1>2, <1>3

LEMMA ExtraIs ==
  ASSUME NEW o \in Optionals
  PROVE  LET e == Optional(LAMBDA d : Parameter(3, d), o)
         IN  /\ e \in Seq(Byte) /\ Len(e) \in Nat
             /\ Len(e) = IF o = {} THEN 0 ELSE 4 + Len(CHOOSE d \in o : TRUE)
             /\ \A F : F[3] = Option(o) /\ Len(e) <= Third => Section(e, F, 3, 4)
<1> DEFINE e == Optional(LAMBDA d : Parameter(3, d), o)
           x == CHOOSE d \in o : TRUE
<1>0. 3 \in U16s /\ 3 \in Nat /\ 3 + 1 = 4
  BY SMT DEF U16s
<1>1. CASE o = {} /\ Option(o) = <<>>
  <2>1. e = <<>>
    BY <1>1 DEF Optional
  <2>2. ASSUME NEW F, F[3] = Option(o) PROVE Section(<<>>, F, 3, 4)
    <3>1. Section(<<>>, F, 3, 3 + 1)
      BY <2>2, <1>0, <1>1, NoSection
    <3> QED BY <3>1, <1>0
  <2>3. <<>> \in Seq(Byte) /\ Len(<<>>) = 0
    OBVIOUS
  <2> HIDE DEF e, x
  <2>4. /\ e \in Seq(Byte) /\ Len(e) \in Nat /\ Len(e) = IF o = {} THEN 0 ELSE 4 + Len(x)
        /\ \A F : F[3] = Option(o) /\ Len(e) <= Third => Section(e, F, 3, 4)
    BY <2>1, <2>2, <2>3, <1>1
  <2> QED BY <2>4 DEF e, x
<1>2. CASE \E d \in Seq(Byte) : o = {d} /\ Option(o) = <<d>> /\ x = d
  <2>1. x \in Seq(Byte) /\ o # {} /\ Option(o) = <<x>>
    BY <1>2
  <2>2. e = Parameter(3, x)
    BY <2>1 DEF Optional
  <2> HIDE DEF x
  <2>3. Parameter(3, x) \in Seq(Byte) /\ Len(Parameter(3, x)) = 4 + Len(x) /\ Len(x) \in Nat
    BY <2>1, <1>0, ParameterType
  <2>4. ASSUME NEW F, F[3] = Option(o), Len(Parameter(3, x)) <= Third
        PROVE  Section(Parameter(3, x), F, 3, 4)
    <3>1. Section(Parameter(3, x), F, 3, 3 + 1)
      BY <2>1, <2>4, <1>0, AloneSection
    <3> QED BY <3>1, <1>0
  <2>5. Len(Parameter(3, x)) \in Nat
    BY <2>3
  <2> HIDE DEF e
  <2> QED BY <2>1, <2>2, <2>3, <2>4, <2>5 DEF e, x
<1> QED
  BY <1>1, <1>2, OptionIs DEF x

LEMMA ComponentIs ==
  ASSUME NEW c \in Components
  PROVE  /\ ComponentBody(c) \in Seq(Byte) /\ Len(ComponentBody(c)) \in Nat
         /\ \A id : HidComponent(c, id) = Parameter(id, ComponentBody(c))
         /\ Len(ComponentBody(c)) <= Third =>
              LET q == ByNumber(ComponentBody(c))
              IN  /\ At(q, 0) = <<U16(c.id)>> /\ At(q, 1) = <<Text(c.name)>>
                  /\ At(q, 2) = <<FunctionBytes(c.function)>> /\ At(q, 3) = Option(c.extra)
<1> DEFINE a == U16(c.id)
           b == Text(c.name)
           e == FunctionBytes(c.function)
           o == c.extra
           x == Optional(LAMBDA d : Parameter(3, d), o)
           extra == IF o = {} THEN 0 ELSE 4 + Len(CHOOSE d \in o : TRUE)
           F == [i \in 0 .. 3 |-> CASE i = 0 -> <<a>> [] i = 1 -> <<b>> [] i = 2 -> <<e>>
                                    [] OTHER -> Option(o)]
           pa == Parameter(0, a)
           pb == Parameter(1, b)
           pe == Parameter(2, e)
           ab == pa \o pb
           abe == ab \o pe
           d == abe \o x
<1>0. 0 \in Nat /\ 1 \in Nat /\ 2 \in Nat
  OBVIOUS
<1>1. /\ a \in Seq(Byte) /\ Len(a) = 2 /\ Len(a) <= Space /\ c.name \in Seq(Byte) /\ o \in Optionals
      /\ e \in Seq(Byte) /\ Len(e) \in Nat /\ Len(e) <= Space
  BY ComponentFields
<1>2. b \in Seq(Byte) /\ Len(b) \in Nat
  BY <1>1, TextType
<1>3. /\ x \in Seq(Byte) /\ Len(x) \in Nat /\ Len(x) = extra
      /\ \A G : G[3] = Option(o) /\ Len(x) <= Third => Section(x, G, 3, 4)
  BY <1>1, ExtraIs
<1>4. ComponentBody(c) = d
  BY DEF ComponentBody
<1>5. HidLength(c) = 4 + (4 + 2) + (4 + Len(b)) + extra + 4 + Len(e)
  BY DEF HidLength
<1>6. \A id : HidComponent(c, id) = Sized(HidLength(c), id, d)
  BY DEF HidComponent
<1> HIDE DEF a, b, e, x, extra, o
<1>7. F[0] = <<a>> /\ F[1] = <<b>> /\ F[2] = <<e>> /\ F[3] = Option(o)
  BY SMT
<1> HIDE DEF F
<1>8. pa \in Seq(Byte) /\ Len(pa) = 4 + Len(a)
  BY <1>0, <1>1, ParameterType
<1>9. pb \in Seq(Byte) /\ Len(pb) = 4 + Len(b)
  BY <1>0, <1>2, ParameterType
<1>10. pe \in Seq(Byte) /\ Len(pe) = 4 + Len(e)
  BY <1>0, <1>1, ParameterType
<1> HIDE DEF pa, pb, pe
<1>11. ab \in Seq(Byte) /\ Len(ab) = Len(pa) + Len(pb)
  <2>1. pa \in Seq(Byte) /\ pb \in Seq(Byte)
    BY <1>8, <1>9
  <2> QED BY <2>1, Joint
<1> HIDE DEF ab
<1>12. abe \in Seq(Byte) /\ Len(abe) = Len(ab) + Len(pe)
  <2>1. ab \in Seq(Byte) /\ pe \in Seq(Byte)
    BY <1>10, <1>11
  <2> QED BY <2>1, Joint
<1> HIDE DEF abe
<1>13. d \in Seq(Byte) /\ Len(d) = Len(abe) + Len(x)
  <2>1. abe \in Seq(Byte) /\ x \in Seq(Byte)
    BY <1>3, <1>12
  <2> QED BY <2>1, Joint
<1> HIDE DEF d
<1>14. /\ Len(d) = (4 + 2) + (4 + Len(b)) + (4 + Len(e)) + Len(x)
       /\ Len(b) \in Nat /\ Len(e) \in Nat /\ Len(x) \in Nat /\ Len(x) = extra
  <2>1. Len(b) \in Nat /\ Len(e) \in Nat /\ Len(x) \in Nat /\ Len(x) = extra
    BY <1>1, <1>2, <1>3
  <2>2. /\ Len(pa) = 4 + 2 /\ Len(pb) = 4 + Len(b) /\ Len(pe) = 4 + Len(e)
        /\ Len(ab) = Len(pa) + Len(pb) /\ Len(abe) = Len(ab) + Len(pe)
        /\ Len(d) = Len(abe) + Len(x)
    BY <1>1, <1>8, <1>9, <1>10, <1>11, <1>12, <1>13
  <2> QED BY <2>1, <2>2
<1>15. \A id : HidComponent(c, id) = Parameter(id, d)
  <2>1. HidLength(c) = Len(d) + 4
    BY <1>5, <1>14
  <2> QED BY <2>1, <1>6 DEF Parameter
<1>16. ASSUME Len(d) <= Third
       PROVE  /\ At(ByNumber(d), 0) = <<a>> /\ At(ByNumber(d), 1) = <<b>>
              /\ At(ByNumber(d), 2) = <<e>> /\ At(ByNumber(d), 3) = Option(o)
  <2>1. Len(b) <= Space /\ Len(x) <= Third
    BY <1>14, <1>16, SMT DEF Third, Space
  <2>2. /\ 0 \in U16s /\ 1 \in U16s /\ 2 \in U16s
        /\ Span(0, 1) = {0} /\ Span(1, 2) = {1} /\ Span(2, 3) = {2}
        /\ 0 \in Span(0, 4) /\ 1 \in Span(0, 4) /\ 2 \in Span(0, 4) /\ 3 \in Span(0, 4)
    BY SMT DEF U16s, Span
  <2>3. Section(pa, F, 0, 1)
    BY <1>1, <1>7, <2>2, SectionOne DEF pa
  <2>4. Section(pb, F, 1, 2)
    BY <1>2, <1>7, <2>1, <2>2, SectionOne DEF pb
  <2>5. Section(pe, F, 2, 3)
    BY <1>1, <1>7, <2>2, SectionOne DEF pe
  <2>6. Section(x, F, 3, 4)
    BY <1>3, <1>7, <2>1
  <2>7. Section(ab, F, 0, 2)
    BY <2>3, <2>4, SectionBoth DEF ab
  <2>8. Section(abe, F, 0, 3)
    BY <2>5, <2>7, SectionBoth DEF abe
  <2>9. Section(d, F, 0, 4)
    BY <2>6, <2>8, SectionBoth DEF d
  <2>10. \A id \in Span(0, 4) : At(ByNumber(d), id) = F[id]
    BY <2>9, SectionRead
  <2> QED BY <2>10, <2>2, <1>7
<1> QED
  BY <1>4, <1>13, <1>14, <1>15, <1>16 DEF a, b, e, o

(* The components: the first has a number of its own. *)
FirstBody(list) == IF list = <<>> THEN <<>> ELSE <<ComponentBody(list[1])>>

OtherBodies(list) == [i \in 1 .. Len(list) - 1 |-> ComponentBody(list[i + 1])]

LEMMA AllBodies ==
  ASSUME NEW list \in Seq(Components)
  PROVE  LET known == FirstBody(list) \o OtherBodies(list)
         IN  /\ known \in Seq(Seq(Byte)) /\ Len(known) = Len(list) /\ DOMAIN known = 1 .. Len(list)
             /\ \A i \in 1 .. Len(list) : known[i] = ComponentBody(list[i])
<1> DEFINE A == Seq(Byte)
           n == Len(list)
           u == FirstBody(list)
           v == OtherBodies(list)
           known == u \o v
<1>1. n \in Nat /\ DOMAIN list = 1 .. n /\ \A i \in 1 .. n : list[i] \in Components
  BY ElementsIn
<1>2. \A i \in 1 .. n : ComponentBody(list[i]) \in A
  BY <1>1, ComponentIs
<1> HIDE DEF A
<1>3. CASE list = <<>>
  <2>1. u = <<>> /\ n = 0
    BY <1>3 DEF FirstBody
  <2>2. v = <<>>
    BY <2>1 DEF OtherBodies
  <2> HIDE DEF u, v
  <2>3. known = <<>>
    BY <2>1, <2>2
  <2>4. known \in Seq(A) /\ Len(known) = n /\ DOMAIN known = 1 .. n
        /\ \A i \in 1 .. n : known[i] = ComponentBody(list[i])
    BY <2>1, <2>3
  <2> QED BY <2>4 DEF u, v, A
<1>4. CASE list # <<>>
  <2>1. n >= 1
    BY <1>4, <1>1
  <2>2. u = <<ComponentBody(list[1])>> /\ ComponentBody(list[1]) \in A
    BY <1>2, <1>4, <2>1 DEF FirstBody
  <2>3. v \in [1 .. n - 1 -> A] /\ \A i \in 1 .. n - 1 : v[i] = ComponentBody(list[i + 1])
    <3>1. \A i \in 1 .. n - 1 : i + 1 \in 1 .. n
      BY <1>1
    <3> QED BY <3>1, <1>2 DEF OtherBodies
  <2> HIDE DEF u, v, n
  <2>4. v \in Seq(A) /\ Len(v) = n - 1
    <3>1. n - 1 \in Nat
      BY <1>1, <2>1
    <3> QED BY <3>1, <2>3, FunctionSeq
  <2>5. u \in Seq(A) /\ Len(u) = 1 /\ u[1] = ComponentBody(list[1])
    BY <2>2
  <2>6. /\ known \in Seq(A) /\ Len(known) = Len(u) + Len(v)
        /\ \A i \in 1 .. Len(u) : known[i] = u[i]
        /\ \A i \in 1 .. Len(v) : known[Len(u) + i] = v[i]
    <3>1. u \in Seq(A) /\ v \in Seq(A)
      BY <2>4, <2>5
    <3> QED BY <3>1, Joint
  <2> HIDE DEF known
  <2>7. Len(known) = n /\ DOMAIN known = 1 .. n
    <3>1. Len(known) = n
      BY <2>4, <2>5, <2>6, <1>1
    <3>2. DOMAIN known = 1 .. Len(known)
      BY <2>6, ElementsIn
    <3> QED BY <3>1, <3>2
  <2>8. ASSUME NEW i \in 1 .. n PROVE known[i] = ComponentBody(list[i])
    <3>1. CASE i = 1
      BY <3>1, <2>5, <2>6
    <3>2. CASE i # 1
      <4>1. i - 1 \in 1 .. n - 1 /\ (i - 1) + 1 = i /\ 1 + (i - 1) = i
        BY <3>2, <1>1
      <4>2. known[1 + (i - 1)] = v[i - 1]
        BY <4>1, <2>4, <2>5, <2>6
      <4> QED BY <4>1, <4>2, <2>3
    <3> QED BY <3>1, <3>2
  <2> QED BY <2>6, <2>7, <2>8 DEF known, u, v, n, A
<1> QED
  BY <1>3, <1>4

(* The components, the first with one number and the others with another. *)
Installed(list, n, m) ==
  FlattenSeq([i \in DOMAIN list |-> HidComponent(list[i], IF i = 1 THEN n ELSE m)])

LEMMA ComponentsSection ==
  ASSUME NEW F, NEW k \in Nat, NEW l \in Nat, NEW n \in U16s, NEW m \in U16s, n # m,
         n \in Span(k, l), m \in Span(k, l), NEW list \in Seq(Components),
         Len(Installed(list, n, m)) <= Third, F[n] = FirstBody(list), F[m] = OtherBodies(list),
         \A i \in Span(k, l) : i \notin {n, m} => F[i] = <<>>
  PROVE  /\ Section(Installed(list, n, m), F, k, l)
         /\ \A i \in 1 .. Len(list) : Len(ComponentBody(list[i])) <= Third
<1> DEFINE A == Seq(Byte)
           w == Installed(list, n, m)
           z == Len(list)
           number(i) == IF i = 1 THEN n ELSE m
           qs == [i \in 1 .. z |-> [id |-> number(i), payload |-> ComponentBody(list[i])]]
           f == [i \in DOMAIN list |-> HidComponent(list[i], number(i))]
<1>1. z \in Nat /\ DOMAIN list = 1 .. z /\ \A i \in 1 .. z : list[i] \in Components
  BY ElementsIn
<1>2. \A i \in 1 .. z : /\ ComponentBody(list[i]) \in A /\ Len(ComponentBody(list[i])) \in Nat
                        /\ \A id : HidComponent(list[i], id) = Parameter(id, ComponentBody(list[i]))
  BY <1>1, ComponentIs
<1>0. Len(w) <= Third
  OBVIOUS
<1>3. w = FlattenSeq(f)
  BY DEF Installed
<1> HIDE DEF w
<1>4. f = [i \in 1 .. z |-> Parameter(number(i), ComponentBody(list[i]))]
  BY <1>1, <1>2
<1>5. \A i \in 1 .. z : number(i) \in U16s /\ number(i) \in Nat
  BY DEF U16s
<1>6. \A i \in 1 .. z : Parameter(number(i), ComponentBody(list[i])) \in A
                        /\ Len(Parameter(number(i), ComponentBody(list[i]))) = 4 + Len(ComponentBody(list[i]))
  <2> HIDE DEF number, z
  <2> QED BY <1>2, <1>5, ParameterType
<1> HIDE DEF f
<1>7. f \in Seq(A) /\ Len(f) = z /\ \A i \in 1 .. z : f[i] = Parameter(number(i), ComponentBody(list[i]))
  <2>1. f \in [1 .. z -> A]
    <3> HIDE DEF number, A, z
    <3> QED BY <1>4, <1>6
  <2>2. \A i \in 1 .. z : f[i] = Parameter(number(i), ComponentBody(list[i]))
    <3> HIDE DEF number, z
    <3> QED BY <1>4
  <2> HIDE DEF A, z
  <2> QED BY <2>1, <2>2, <1>1, FunctionSeq
<1>8. w \in A /\ Len(w) \in Nat
  <2>1. w \in A
    BY <1>3, <1>7, FlattenType
  <2> QED BY <2>1
<1>9. \A i \in 1 .. z : Len(ComponentBody(list[i])) <= Third
  <2> TAKE i \in 1 .. z
  <2> DEFINE c == Len(ComponentBody(list[i]))
  <2>1. Len(f[i]) <= Len(FlattenSeq(f))
    BY <1>7, FlattenLonger
  <2>2. Len(f[i]) = 4 + c /\ c \in Nat
    <3> HIDE DEF number
    <3> QED BY <1>2, <1>6, <1>7
  <2> HIDE DEF c
  <2> QED BY <2>1, <2>2, <1>0, <1>3, <1>8, SMT DEF Third, c
<1>10. Len(w) <= Space
  BY <1>0, <1>8, SMT DEF Third, Space
<1>11. qs \in Seq(Param) /\ Len(qs) = z /\ DOMAIN qs = 1 .. z
       /\ \A i \in 1 .. z : qs[i].id = number(i) /\ qs[i].payload = ComponentBody(list[i])
  <2>1. \A i \in 1 .. z : [id |-> number(i), payload |-> ComponentBody(list[i])] \in Param
    <3> HIDE DEF number, z
    <3> QED BY <1>2, <1>5 DEF Param
  <2>2. qs \in [1 .. z -> Param]
    <3> HIDE DEF number, z
    <3> QED BY <2>1
  <2>3. \A i \in 1 .. z : qs[i].id = number(i) /\ qs[i].payload = ComponentBody(list[i])
    <3> HIDE DEF number, z
    <3> QED OBVIOUS
  <2> HIDE DEF qs, z, number
  <2>4. DOMAIN qs = 1 .. z
    BY <2>2
  <2> QED BY <2>2, <2>3, <2>4, <1>1, FunctionSeq
<1> HIDE DEF qs
<1>12. Reads(w, qs)
  <2>1. f = [i \in DOMAIN qs |-> Parameter(qs[i].id, qs[i].payload)]
    <3> HIDE DEF number, z
    <3> QED BY <1>4, <1>11
  <2> QED BY <2>1, <1>3, <1>10, <1>11, ListRead
<1>13. Ids(qs) \subseteq {n, m}
  <2>1. \A i \in 1 .. Len(qs) : qs[i].id \in {n, m}
    BY <1>11
  <2> QED BY <2>1 DEF Ids
<1>14. Those(qs, n) = F[n] /\ Those(qs, m) = F[m]
  <2>1. CASE list = <<>>
    <3>1. z = 0 /\ FirstBody(list) = <<>>
      BY <2>1 DEF FirstBody
    <3>2. OtherBodies(list) = <<>>
      BY <3>1 DEF OtherBodies
    <3>3. n \notin Ids(qs) /\ m \notin Ids(qs)
      BY <3>1, <1>11 DEF Ids
    <3> QED BY <3>1, <3>2, <3>3, <1>11, ThoseNot
  <2>2. CASE list # <<>>
    <3> DEFINE a == qs[1]
               h == <<a>>
               r == [i \in 1 .. z - 1 |-> qs[i + 1]]
    <3>1. z >= 1 /\ z - 1 \in Nat /\ 1 \in 1 .. z
      BY <2>2, <1>1
    <3>2. a \in Param /\ a.id = n /\ a.payload = ComponentBody(list[1])
      <4>1. a \in Param
        BY <3>1, <1>11, ElementsIn
      <4>2. number(1) = n
        OBVIOUS
      <4> HIDE DEF number
      <4> QED BY <4>1, <4>2, <3>1, <1>11
    <3>3. /\ r \in Seq(Param) /\ Len(r) = z - 1 /\ DOMAIN r = 1 .. z - 1
          /\ \A i \in 1 .. z - 1 : /\ r[i] = qs[i + 1] /\ r[i].id = m
                                   /\ r[i].payload = ComponentBody(list[i + 1])
      <4>1. \A i \in 1 .. z - 1 : i + 1 \in 1 .. z /\ number(i + 1) = m
        BY <1>1
      <4>2. \A i \in 1 .. z - 1 : qs[i + 1] \in Param
        BY <4>1, <1>11, ElementsIn
      <4>3. r \in [1 .. z - 1 -> Param] /\ \A i \in 1 .. z - 1 : r[i] = qs[i + 1]
        BY <4>2
      <4> HIDE DEF r, z, number
      <4>4. r \in Seq(Param) /\ Len(r) = z - 1 /\ DOMAIN r = 1 .. z - 1
        <5>1. DOMAIN r = 1 .. z - 1
          BY <4>3
        <5> QED BY <5>1, <4>3, <3>1, FunctionSeq
      <4> QED BY <4>1, <4>3, <4>4, <1>11
    <3> HIDE DEF a, r
    <3>4. h \in Seq(Param) /\ Len(h) = 1 /\ h[1] = a
      BY <3>2
    <3>5. Those(h, n) = <<a.payload>> /\ Those(h, m) = <<>>
      BY <3>2, ThoseOne DEF PayloadIf
    <3> HIDE DEF h
    <3>6. qs = h \o r
      <4> DEFINE j == h \o r
      <4>1. /\ j \in Seq(Param) /\ Len(j) = Len(h) + Len(r)
            /\ \A i \in 1 .. Len(h) : j[i] = h[i]
            /\ \A i \in 1 .. Len(r) : j[Len(h) + i] = r[i]
        <5>1. h \in Seq(Param) /\ r \in Seq(Param)
          BY <3>3, <3>4
        <5> QED BY <5>1, Joint
      <4> HIDE DEF j
      <4>2. Len(j) = Len(qs)
        BY <4>1, <3>1, <3>3, <3>4, <1>11
      <4>3. ASSUME NEW i \in 1 .. Len(qs) PROVE qs[i] = j[i]
        <5>1. CASE i = 1
          BY <5>1, <4>1, <3>4 DEF a
        <5>2. CASE i # 1
          <6>1. i - 1 \in 1 .. z - 1 /\ (i - 1) + 1 = i /\ 1 + (i - 1) = i
            BY <5>2, <1>1, <1>11
          <6>2. j[1 + (i - 1)] = r[i - 1]
            BY <6>1, <4>1, <3>3, <3>4
          <6> QED BY <6>1, <6>2, <3>3
        <5> QED BY <5>1, <5>2
      <4>4. qs = j
        BY <4>1, <4>2, <4>3, <1>11, SameSeq
      <4> QED BY <4>4 DEF j
    <3>7. Those(r, n) = <<>>
      <4>1. \A i \in 1 .. Len(r) : r[i].id # n
        BY <3>3
      <4> QED BY <4>1, <3>3, ThoseNone
    <3>8. Those(r, m) = OtherBodies(list)
      <4>1. \A i \in 1 .. Len(r) : r[i].id = m
        BY <3>3
      <4>2. Those(r, m) = [i \in 1 .. Len(r) |-> r[i].payload]
        BY <4>1, <3>3, ThoseAll
      <4>3. OtherBodies(list) = [i \in 1 .. z - 1 |-> ComponentBody(list[i + 1])]
        BY DEF OtherBodies
      <4> HIDE DEF z
      <4> QED BY <4>2, <4>3, <3>3
    <3>9. /\ Those(qs, n) = Those(h, n) \o Those(r, n) /\ Those(h, n) \in Seq(A)
          /\ Those(qs, m) = Those(h, m) \o Those(r, m) /\ Those(r, m) \in Seq(A)
      <4>1. h \in Seq(Param) /\ r \in Seq(Param) /\ qs = h \o r
        BY <3>3, <3>4, <3>6
      <4>2. Those(h, n) \in Seq(A) /\ Those(r, m) \in Seq(A)
        BY <4>1, ThoseType
      <4> HIDE DEF h, r, A
      <4>3. \A id : Those(h \o r, id) = Those(h, id) \o Those(r, id)
        BY <4>1, ThoseBoth
      <4> QED BY <4>1, <4>2, <4>3
    <3>10. Those(qs, n) = Those(h, n) /\ Those(qs, m) = Those(r, m)
      <4> HIDE DEF A
      <4> QED BY <3>5, <3>7, <3>9, NoneJoined
    <3> QED BY <3>2, <3>5, <3>8, <3>10, <2>2 DEF FirstBody
  <2> QED BY <2>1, <2>2
<1>15. \A i \in Span(k, l) : Those(qs, i) = F[i]
  <2> TAKE i \in Span(k, l)
  <2>1. CASE i \in {n, m}
    BY <2>1, <1>14
  <2>2. CASE i \notin {n, m}
    <3>1. i \notin Ids(qs)
      BY <2>2, <1>13
    <3> QED BY <3>1, <2>2, <1>11, ThoseNot
  <2> QED BY <2>1, <2>2
<1>16. Section(w, F, k, l)
  BY <1>12, <1>13, <1>15 DEF Section
<1> QED
  BY <1>9, <1>16 DEF z, w

-----------------------------------------------------------------------------
(* The identification                                                      *)

TextsPart(c) == FlattenSeq([i \in DOMAIN c.texts |-> Parameter(i - 1, Text(c.texts[i]))])

SeedPart(c) == Optional(LAMBDA b : Parameter(11, Text(b)), c.bundleSeed)

LanguagesPart(c) == Written(LAMBDA l : Parameter(13, Text(l)), c.languages)

ComponentsPart(c) == Installed(c.components, 17, 18)

LEMMA TextsPartType ==
  ASSUME NEW c \in Configurations
  PROVE  TextsPart(c) \in Seq(Byte)
<1> DEFINE f == [i \in DOMAIN c.texts |-> Parameter(i - 1, Text(c.texts[i]))]
           n == 6
<1>1. c.texts \in [1 .. 6 -> Seq(Byte)]
  BY Fields
<1>2. n \in Nat /\ DOMAIN c.texts = 1 .. n
  BY <1>1
<1> HIDE DEF n
<1>3. ASSUME NEW i \in 1 .. n PROVE Parameter(i - 1, Text(c.texts[i])) \in Seq(Byte)
  <2>1. c.texts[i] \in Seq(Byte)
    BY <1>1, <1>2
  <2>2. i - 1 \in Nat
    BY <1>2
  <2> QED BY <2>1, <2>2, TextType, ParameterType
<1>4. f \in [1 .. n -> Seq(Byte)]
  BY <1>2, <1>3
<1>5. TextsPart(c) = FlattenSeq(f)
  BY DEF TextsPart
<1> HIDE DEF f
<1>6. f \in Seq(Seq(Byte))
  BY <1>2, <1>4, FunctionSeq
<1> QED
  BY <1>5, <1>6, FlattenType

LEMMA SeedPartType ==
  ASSUME NEW c \in Configurations
  PROVE  SeedPart(c) \in Seq(Byte)
<1> DEFINE o == c.bundleSeed
<1>1. o \in Optionals
  BY Fields
<1>2. SeedPart(c) = IF o = {} THEN <<>> ELSE Parameter(11, Text(CHOOSE x \in o : TRUE))
  BY DEF SeedPart, Optional
<1> HIDE DEF o
<1>3. CASE o = {}
  BY <1>2, <1>3
<1>4. CASE o # {}
  <2>1. PICK x \in Seq(Byte) : (CHOOSE d \in o : TRUE) = x
    BY <1>1, <1>4, OptionIs
  <2>2. Text(x) \in Seq(Byte) /\ 11 \in Nat
    BY TextType
  <2>3. Parameter(11, Text(x)) \in Seq(Byte)
    BY <2>2, ParameterType
  <2> QED BY <1>2, <1>4, <2>1, <2>3
<1> QED
  BY <1>3, <1>4

LEMMA LanguagesPartType ==
  ASSUME NEW c \in Configurations
  PROVE  LanguagesPart(c) \in Seq(Byte)
<1> DEFINE list == c.languages
           f == [i \in DOMAIN list |-> Parameter(13, Text(list[i]))]
           n == Len(list)
<1>1. list \in Seq(Seq(Byte))
  BY Fields
<1> HIDE DEF list
<1>2. n \in Nat /\ DOMAIN list = 1 .. n /\ \A i \in 1 .. n : list[i] \in Seq(Byte)
  BY <1>1, ElementsIn
<1> HIDE DEF n
<1>3. ASSUME NEW i \in 1 .. n PROVE Parameter(13, Text(list[i])) \in Seq(Byte)
  <2>1. Text(list[i]) \in Seq(Byte) /\ 13 \in Nat
    BY <1>2, TextType
  <2> QED BY <2>1, ParameterType
<1>4. f \in [1 .. n -> Seq(Byte)]
  BY <1>2, <1>3
<1>5. LanguagesPart(c) = FlattenSeq(f)
  BY DEF LanguagesPart, Written, list
<1> HIDE DEF f
<1>6. f \in Seq(Seq(Byte))
  BY <1>2, <1>4, FunctionSeq
<1> QED
  BY <1>5, <1>6, FlattenType

LEMMA ComponentsPartType ==
  ASSUME NEW c \in Configurations
  PROVE  ComponentsPart(c) \in Seq(Byte)
<1> DEFINE list == c.components
           number(i) == IF i = 1 THEN 17 ELSE 18
           f == [i \in DOMAIN list |-> HidComponent(list[i], number(i))]
           n == Len(list)
<1>1. list \in Seq(Components)
  BY Fields
<1>2. ComponentsPart(c) = FlattenSeq(f)
  BY DEF ComponentsPart, Installed
<1> HIDE DEF list
<1>3. n \in Nat /\ DOMAIN list = 1 .. n /\ \A i \in 1 .. n : list[i] \in Components
  BY <1>1, ElementsIn
<1> HIDE DEF n
<1>4. ASSUME NEW i \in 1 .. n PROVE HidComponent(list[i], number(i)) \in Seq(Byte)
  <2>1. number(i) \in Nat
    OBVIOUS
  <2> HIDE DEF number
  <2>2. ComponentBody(list[i]) \in Seq(Byte)
        /\ HidComponent(list[i], number(i)) = Parameter(number(i), ComponentBody(list[i]))
    BY <1>3, ComponentIs
  <2> QED BY <2>1, <2>2, ParameterType
<1> HIDE DEF number
<1>5. f \in [1 .. n -> Seq(Byte)]
  BY <1>3, <1>4
<1> HIDE DEF f
<1>6. f \in Seq(Seq(Byte))
  BY <1>3, <1>5, FunctionSeq
<1> QED
  BY <1>2, <1>6, FlattenType

LEMMA NumbersPartType ==
  ASSUME NEW n \in Nat, NEW list \in Seq(Word)
  PROVE  Numbers(n, list) \in Seq(Byte)
<1> DEFINE w == Written(U16, list)
           x == Numbers(n, list)
<1>1. w \in Seq(Byte)
  BY NumbersType
<1>2. x = <<>> \/ x = Parameter(n, w)
  BY DEF Numbers
<1> HIDE DEF w, x
<1>3. Parameter(n, w) \in Seq(Byte)
  BY <1>1, ParameterType
<1> DEFINE y == Parameter(n, w)
<1>4. y \in Seq(Byte) /\ <<>> \in Seq(Byte)
  BY <1>3
<1>5. x = <<>> \/ x = y
  BY <1>2
<1> HIDE DEF y
<1>6. x \in Seq(Byte)
  BY <1>4, <1>5
<1> QED
  BY <1>6 DEF x

LEMMA ProtocolType ==
  ASSUME NEW name \in Seq(Byte)
  PROVE  Protocol(name) \in Seq(Byte)
<1> DEFINE t == Text(name)
           n == 4 + (4 + 1) + (4 + Len(t)) + (4 + 1)
           b == ProtocolBody(name)
<1>1. Protocol(name) = Sized(n, 10, b)
  BY DEF Protocol, ProtocolBody
<1>2. t \in Seq(Byte) /\ Len(t) \in Nat
  BY TextType
<1>3. b \in Seq(Byte)
  <2> DEFINE x == Parameter(0, <<0>>)
             y == Parameter(1, t)
             z == Parameter(2, <<1>>)
  <2>1. 0 \in Byte /\ 1 \in Byte
    BY SMT DEF Byte
  <2>2. <<0>> \in Seq(Byte) /\ <<1>> \in Seq(Byte)
    BY <2>1
  <2>3. x \in Seq(Byte) /\ y \in Seq(Byte) /\ z \in Seq(Byte)
    <3>1. 0 \in Nat /\ 1 \in Nat /\ 2 \in Nat
      OBVIOUS
    <3> QED BY <3>1, <2>2, <1>2, ParameterType
  <2>4. b = (x \o y) \o z
    BY DEF ProtocolBody
  <2> HIDE DEF x, y, z, b
  <2>5. x \o y \in Seq(Byte)
    BY <2>3, Joint
  <2>6. (x \o y) \o z \in Seq(Byte)
    BY <2>3, <2>5, Joint
  <2> QED BY <2>4, <2>6
<1> DEFINE id == 10
<1>4. n \in Nat /\ id \in Nat
  BY <1>2
<1> HIDE DEF n, b, t, id
<1>5. Sized(n, id, b) \in Seq(Byte)
  BY <1>3, <1>4, SizedBytes
<1> QED
  BY <1>1, <1>5 DEF id

Ten(a, b, c, d, e, f, g, h, i, j) == a \o b \o c \o d \o e \o f \o g \o h \o i \o j

(* Each of ten parts is no longer than all of them. *)
LEMMA TenParts ==
  ASSUME NEW a, NEW b, NEW c, NEW d, NEW e, NEW f, NEW g, NEW h, NEW i, NEW j,
         /\ a \in Seq(Byte) /\ b \in Seq(Byte) /\ c \in Seq(Byte) /\ d \in Seq(Byte)
         /\ e \in Seq(Byte) /\ f \in Seq(Byte) /\ g \in Seq(Byte) /\ h \in Seq(Byte)
         /\ i \in Seq(Byte) /\ j \in Seq(Byte),
         NEW n, n \in Nat, Len(Ten(a, b, c, d, e, f, g, h, i, j)) <= n
  PROVE  /\ Len(a) <= n /\ Len(b) <= n /\ Len(c) <= n /\ Len(d) <= n /\ Len(e) <= n
         /\ Len(f) <= n /\ Len(g) <= n /\ Len(h) <= n /\ Len(i) <= n /\ Len(j) <= n
<1> DEFINE s2 == a \o b
           s3 == s2 \o c
           s4 == s3 \o d
           s5 == s4 \o e
           s6 == s5 \o f
           s7 == s6 \o g
           s8 == s7 \o h
           s9 == s8 \o i
           s10 == s9 \o j
<1>1. Len(s10) <= n
  BY DEF Ten
<1>2. s2 \in Seq(Byte)
  BY Joint
<1> HIDE DEF s2
<1>3. s3 \in Seq(Byte)
  BY <1>2, Joint
<1> HIDE DEF s3
<1>4. s4 \in Seq(Byte)
  BY <1>3, Joint
<1> HIDE DEF s4
<1>5. s5 \in Seq(Byte)
  BY <1>4, Joint
<1> HIDE DEF s5
<1>6. s6 \in Seq(Byte)
  BY <1>5, Joint
<1> HIDE DEF s6
<1>7. s7 \in Seq(Byte)
  BY <1>6, Joint
<1> HIDE DEF s7
<1>8. s8 \in Seq(Byte)
  BY <1>7, Joint
<1> HIDE DEF s8
<1>9. s9 \in Seq(Byte)
  BY <1>8, Joint
<1> HIDE DEF s9
<1>10. Len(s9) <= n /\ Len(j) <= n
  BY <1>1, <1>9, Parts
<1>11. Len(s8) <= n /\ Len(i) <= n
  BY <1>10, <1>8, Parts DEF s9
<1>12. Len(s7) <= n /\ Len(h) <= n
  BY <1>11, <1>7, Parts DEF s8
<1>13. Len(s6) <= n /\ Len(g) <= n
  BY <1>12, <1>6, Parts DEF s7
<1>14. Len(s5) <= n /\ Len(f) <= n
  BY <1>13, <1>5, Parts DEF s6
<1>15. Len(s4) <= n /\ Len(e) <= n
  BY <1>14, <1>4, Parts DEF s5
<1>16. Len(s3) <= n /\ Len(d) <= n
  BY <1>15, <1>3, Parts DEF s4
<1>17. Len(s2) <= n /\ Len(c) <= n
  BY <1>16, <1>2, Parts DEF s3
<1>18. Len(a) <= n /\ Len(b) <= n
  BY <1>17, Parts DEF s2
<1> QED
  BY <1>10, <1>11, <1>12, <1>13, <1>14, <1>15, <1>16, <1>17, <1>18

LEMMA TenSections ==
  ASSUME NEW F, NEW a, NEW b, NEW c, NEW d, NEW e, NEW f, NEW g, NEW h, NEW i, NEW j,
         Section(a, F, 0, 6), Section(b, F, 6, 7), Section(c, F, 7, 8), Section(d, F, 8, 9),
         Section(e, F, 9, 10), Section(f, F, 10, 11), Section(g, F, 11, 12),
         Section(h, F, 12, 13), Section(i, F, 13, 14), Section(j, F, 14, 19)
  PROVE  Section(Ten(a, b, c, d, e, f, g, h, i, j), F, 0, 19)
<1> DEFINE s2 == a \o b
           s3 == s2 \o c
           s4 == s3 \o d
           s5 == s4 \o e
           s6 == s5 \o f
           s7 == s6 \o g
           s8 == s7 \o h
           s9 == s8 \o i
<1>1. Section(s2, F, 0, 7)
  BY SectionBoth
<1> HIDE DEF s2
<1>2. Section(s3, F, 0, 8)
  BY <1>1, SectionBoth
<1> HIDE DEF s3
<1>3. Section(s4, F, 0, 9)
  BY <1>2, SectionBoth
<1> HIDE DEF s4
<1>4. Section(s5, F, 0, 10)
  BY <1>3, SectionBoth
<1> HIDE DEF s5
<1>5. Section(s6, F, 0, 11)
  BY <1>4, SectionBoth
<1> HIDE DEF s6
<1>6. Section(s7, F, 0, 12)
  BY <1>5, SectionBoth
<1> HIDE DEF s7
<1>7. Section(s8, F, 0, 13)
  BY <1>6, SectionBoth
<1> HIDE DEF s8
<1>8. Section(s9, F, 0, 14)
  BY <1>7, SectionBoth
<1> HIDE DEF s9
<1>9. Section(s9 \o j, F, 0, 19)
  BY <1>8, SectionBoth
<1> QED
  BY <1>9 DEF Ten, s9, s8, s7, s6, s5, s4, s3, s2

(* F has what there is to be known of the accessory, by number. *)
Holds(c, F) ==
  /\ \A i \in 1 .. 6 : F[i - 1] = <<Text(c.texts[i])>>
  /\ F[6] = Found(c.messagesSent) /\ F[7] = Found(c.messagesReceived)
  /\ F[8] = <<<<c.powerSource>>>> /\ F[9] = <<U16(c.maxCurrent)>>
  /\ F[10] = <<ProtocolBody(c.protocolName)>>
  /\ F[11] = Texts(Option(c.bundleSeed)) /\ F[12] = <<Text(c.language)>>
  /\ F[13] = Texts(c.languages)
  /\ F[14] = <<>> /\ F[15] = <<>> /\ F[16] = <<>>
  /\ F[17] = FirstBody(c.components) /\ F[18] = OtherBodies(c.components)

LEMMA HoldsSome ==
  ASSUME NEW c
  PROVE  \E F : Holds(c, F)
<1> DEFINE sent == Found(c.messagesSent)
           received == Found(c.messagesReceived)
           text(i) == <<Text(c.texts[i])>>
           source == <<<<c.powerSource>>>>
           current == <<U16(c.maxCurrent)>>
           protocol == <<ProtocolBody(c.protocolName)>>
           seed == Texts(Option(c.bundleSeed))
           language == <<Text(c.language)>>
           languages == Texts(c.languages)
           first == FirstBody(c.components)
           others == OtherBodies(c.components)
           none == <<>>
<1> HIDE DEF sent, received, text, source, current, protocol, seed, language, languages,
             first, others, none
<1> DEFINE F == [i \in 0 .. 18 |->
                   CASE i = 6 -> sent [] i = 7 -> received [] i = 8 -> source
                     [] i = 9 -> current [] i = 10 -> protocol [] i = 11 -> seed
                     [] i = 12 -> language [] i = 13 -> languages
                     [] i \in {14, 15, 16} -> none
                     [] i = 17 -> first [] i = 18 -> others [] OTHER -> text(i + 1)]
<1>1. /\ F[6] = sent /\ F[7] = received /\ F[8] = source /\ F[9] = current
      /\ F[10] = protocol /\ F[11] = seed /\ F[12] = language /\ F[13] = languages
      /\ F[14] = none /\ F[15] = none /\ F[16] = none /\ F[17] = first /\ F[18] = others
  BY SMT
<1>2. F[0] = text(1) /\ F[1] = text(2) /\ F[2] = text(3) /\ F[3] = text(4)
      /\ F[4] = text(5) /\ F[5] = text(6)
  BY SMT
<1> HIDE DEF F
<1>3. \A i \in 1 .. 6 : F[i - 1] = text(i)
  <2> TAKE i \in 1 .. 6
  <2>1. i \in {1, 2, 3, 4, 5, 6}
    BY SMT
  <2> QED BY <2>1, <1>2, SMT
<1>4. Holds(c, F)
  BY <1>1, <1>3, Zenon DEF Holds, sent, received, text, source, current, protocol, seed, language,
                    languages, first, others, none
<1> QED
  BY <1>4

(* The identification is read as what it was made from. *)
LEMMA DescribedRead ==
  ASSUME NEW c, Known(c), NEW F, Holds(c, F)
  PROVE  /\ Section(Described(c), F, 0, 19)
         /\ Len(ProtocolBody(c.protocolName)) <= Third
         /\ \A i \in 1 .. Len(c.components) : Len(ComponentBody(c.components[i])) <= Third
<1> DEFINE a == TextsPart(c)
           b == Numbers(6, c.messagesSent)
           d == Numbers(7, c.messagesReceived)
           source == <<c.powerSource>>
           current == U16(c.maxCurrent)
           language == Text(c.language)
           e == Parameter(8, source)
           f == Parameter(9, current)
           g == Protocol(c.protocolName)
           h == SeedPart(c)
           i == Parameter(12, language)
           j == LanguagesPart(c)
           k == ComponentsPart(c)
           body == ProtocolBody(c.protocolName)
<1>1. c \in Configurations /\ Len(Described(c)) <= Third
  BY DEF Known, Fitting
<1>2. Described(c) = Ten(a, b, d, e, f, g, h, i, j, k)
  BY Zenon DEF Ten, Described, TextsPart, SeedPart, LanguagesPart, ComponentsPart, Installed
<1>3. /\ c.texts \in [1 .. 6 -> Seq(Byte)]
      /\ c.messagesSent \in Seq(Word) /\ c.messagesReceived \in Seq(Word)
      /\ c.powerSource \in Byte /\ c.maxCurrent \in Word
      /\ c.protocolName \in Seq(Byte) /\ c.bundleSeed \in Optionals
      /\ c.language \in Seq(Byte) /\ c.languages \in Seq(Seq(Byte))
      /\ c.components \in Seq(Components)
  BY <1>1, Fields
<1>4. source \in Seq(Byte) /\ current \in Seq(Byte) /\ language \in Seq(Byte)
  BY <1>3, ByteFits, WordIs, TextType
<1> HIDE DEF source, current, language
<1>5. /\ 6 \in U16s /\ 7 \in U16s /\ 8 \in U16s /\ 9 \in U16s /\ 10 \in U16s /\ 11 \in U16s
      /\ 12 \in U16s /\ 13 \in U16s /\ 17 \in U16s /\ 18 \in U16s
      /\ 6 \in Nat /\ 7 \in Nat /\ 8 \in Nat /\ 9 \in Nat /\ 12 \in Nat
      /\ 6 + 1 = 7 /\ 7 + 1 = 8 /\ 8 + 1 = 9 /\ 9 + 1 = 10 /\ 10 + 1 = 11 /\ 11 + 1 = 12
      /\ 12 + 1 = 13 /\ 13 + 1 = 14
  BY SMT DEF U16s
<1>6. a \in Seq(Byte) /\ h \in Seq(Byte) /\ j \in Seq(Byte) /\ k \in Seq(Byte)
  BY <1>1, TextsPartType, SeedPartType, LanguagesPartType, ComponentsPartType
<1>7. b \in Seq(Byte) /\ d \in Seq(Byte)
  BY <1>3, <1>5, NumbersPartType
<1>8. e \in Seq(Byte) /\ f \in Seq(Byte) /\ i \in Seq(Byte)
  BY <1>4, <1>5, ParameterType
<1>9. g \in Seq(Byte)
  BY <1>3, ProtocolType
<1>10. Third \in Nat
  BY SMT DEF Third
<1> HIDE DEF a, b, d, e, f, g, h, i, j, k
<1>11. Len(Ten(a, b, d, e, f, g, h, i, j, k)) <= Third
  BY <1>1, <1>2
<1>12. /\ Len(a) <= Third /\ Len(b) <= Third /\ Len(d) <= Third /\ Len(e) <= Third
       /\ Len(f) <= Third /\ Len(g) <= Third /\ Len(h) <= Third /\ Len(i) <= Third
       /\ Len(j) <= Third /\ Len(k) <= Third
  <2>1. /\ a \in Seq(Byte) /\ b \in Seq(Byte) /\ d \in Seq(Byte) /\ e \in Seq(Byte)
        /\ f \in Seq(Byte) /\ g \in Seq(Byte) /\ h \in Seq(Byte) /\ i \in Seq(Byte)
        /\ j \in Seq(Byte) /\ k \in Seq(Byte)
    BY <1>6, <1>7, <1>8, <1>9
  <2> QED BY <2>1, <1>10, <1>11, TenParts
<1>13. Section(a, F, 0, 6)
  <2>1. \A x \in 1 .. 6 : F[x - 1] = <<Text(c.texts[x])>>
    BY Zenon DEF Holds
  <2>2. a = FlattenSeq([x \in DOMAIN c.texts |-> Parameter(x - 1, Text(c.texts[x]))])
    BY Zenon DEF a, TextsPart
  <2> QED BY <2>1, <2>2, <1>3, <1>12, TextsSection
<1>14. Section(b, F, 6, 7) /\ Section(d, F, 7, 8)
  <2>1. F[6] = Found(c.messagesSent) /\ F[7] = Found(c.messagesReceived)
    BY Zenon DEF Holds
  <2>2. Section(Numbers(6, c.messagesSent), F, 6, 6 + 1)
    BY <2>1, <1>3, <1>5, <1>12, NumbersSection DEF b
  <2>3. Section(Numbers(7, c.messagesReceived), F, 7, 7 + 1)
    BY <2>1, <1>3, <1>5, <1>12, NumbersSection DEF d
  <2> QED BY <2>2, <2>3, <1>5 DEF b, d
<1>15. Section(e, F, 8, 9) /\ Section(f, F, 9, 10)
  <2>1. F[8] = <<source>> /\ F[9] = <<current>>
    BY Zenon DEF Holds, source, current
  <2>2. Section(Parameter(8, source), F, 8, 8 + 1)
    BY <2>1, <1>4, <1>5, <1>12, AloneSection DEF e
  <2>3. Section(Parameter(9, current), F, 9, 9 + 1)
    BY <2>1, <1>4, <1>5, <1>12, AloneSection DEF f
  <2> QED BY <2>2, <2>3, <1>5 DEF e, f
<1>16. Section(g, F, 10, 11) /\ Len(body) <= Third
  <2>1. F[10] = <<body>>
    BY Zenon DEF Holds
  <2>2. Len(Protocol(c.protocolName)) <= Third
    BY <1>12 DEF g
  <2>3. body \in Seq(Byte) /\ g = Parameter(10, body)
    BY <2>2, <1>3, ProtocolIs DEF g
  <2> HIDE DEF body
  <2>4. Section(Parameter(10, body), F, 10, 10 + 1)
    BY <2>1, <2>3, <1>5, <1>12, AloneSection
  <2>5. Len(Parameter(10, body)) = 4 + Len(body) /\ Len(body) \in Nat
    BY <2>3, ParameterType
  <2>6. Len(body) <= Third
    BY <2>3, <2>5, <1>10, <1>12
  <2> QED BY <2>3, <2>4, <2>6, <1>5
<1>17. Section(h, F, 11, 12)
  <2>1. F[11] = Texts(Option(c.bundleSeed))
    BY Zenon DEF Holds
  <2>2. h = Optional(LAMBDA x : Parameter(11, Text(x)), c.bundleSeed)
    BY Zenon DEF h, SeedPart
  <2>3. Len(Optional(LAMBDA x : Parameter(11, Text(x)), c.bundleSeed)) <= Third
    BY <2>2, <1>12, Zenon
  <2>4. Section(Optional(LAMBDA x : Parameter(11, Text(x)), c.bundleSeed), F, 11, 11 + 1)
    BY <2>1, <2>3, <1>3, <1>5, SeedSection
  <2> QED BY <2>2, <2>4, <1>5
<1>18. Section(i, F, 12, 13)
  <2>1. F[12] = <<language>>
    BY Zenon DEF Holds, language
  <2>2. Section(Parameter(12, language), F, 12, 12 + 1)
    BY <2>1, <1>4, <1>5, <1>12, AloneSection DEF i
  <2> QED BY <2>2, <1>5 DEF i
<1>19. Section(j, F, 13, 14)
  <2>1. F[13] = Texts(c.languages)
    BY Zenon DEF Holds
  <2>2. j = Written(LAMBDA l : Parameter(13, Text(l)), c.languages)
    BY Zenon DEF j, LanguagesPart
  <2>3. Len(Written(LAMBDA l : Parameter(13, Text(l)), c.languages)) <= Third
    BY <2>2, <1>12, Zenon
  <2>4. Section(Written(LAMBDA l : Parameter(13, Text(l)), c.languages), F, 13, 13 + 1)
    BY <2>1, <2>3, <1>3, <1>5, LanguagesSection
  <2> QED BY <2>2, <2>4, <1>5
<1>20. /\ Section(k, F, 14, 19)
       /\ \A x \in 1 .. Len(c.components) : Len(ComponentBody(c.components[x])) <= Third
  <2>1. /\ F[14] = <<>> /\ F[15] = <<>> /\ F[16] = <<>>
        /\ F[17] = FirstBody(c.components) /\ F[18] = OtherBodies(c.components)
    BY Zenon DEF Holds
  <2>2. /\ 14 \in Nat /\ 19 \in Nat /\ 17 # 18 /\ 17 \in Span(14, 19) /\ 18 \in Span(14, 19)
        /\ \A x \in Span(14, 19) : x \in {14, 15, 16, 17, 18}
    BY SMT DEF Span
  <2>3. \A x \in Span(14, 19) : x \notin {17, 18} => F[x] = <<>>
    BY <2>1, <2>2
  <2>4. k = Installed(c.components, 17, 18)
    BY Zenon DEF k, ComponentsPart
  <2>5. /\ 17 \in U16s /\ 18 \in U16s /\ c.components \in Seq(Components)
        /\ Len(Installed(c.components, 17, 18)) <= Third
    BY <2>4, <1>3, <1>5, <1>12
  <2> QED BY <2>1, <2>2, <2>3, <2>4, <2>5, ComponentsSection
<1>21. Section(Ten(a, b, d, e, f, g, h, i, j, k), F, 0, 19)
  BY <1>13, <1>14, <1>15, <1>16, <1>17, <1>18, <1>19, <1>20, TenSections
<1>22. Section(Described(c), F, 0, 19)
  BY <1>2, <1>21, Zenon
<1> QED
  BY <1>16, <1>20, <1>22

LEMMA IdentityFound ==
  ASSUME Known(config), config.raw = <<>>, NEW F, Holds(config, F),
         NEW p, \A i \in Span(0, 19) : At(p, i) = F[i]
  PROVE  IdentityLearned(p)
<1> DEFINE c == config
           list == c.components
           known == At(p, 17) \o At(p, 18)
<1>1. /\ c \in Configurations /\ c.texts \in [1 .. 6 -> Seq(Byte)]
      /\ c.messagesSent \in Seq(Word) /\ c.messagesReceived \in Seq(Word)
      /\ c.protocolName \in Seq(Byte) /\ list \in Seq(Components)
  BY Fields DEF Known
<1>2. /\ Len(ProtocolBody(c.protocolName)) <= Third
      /\ \A i \in 1 .. Len(list) : Len(ComponentBody(list[i])) <= Third
  BY DescribedRead
<1>3. /\ \A i \in 1 .. 6 : At(p, i - 1) = F[i - 1]
      /\ At(p, 6) = F[6] /\ At(p, 7) = F[7] /\ At(p, 8) = F[8] /\ At(p, 9) = F[9]
      /\ At(p, 10) = F[10] /\ At(p, 11) = F[11] /\ At(p, 12) = F[12] /\ At(p, 13) = F[13]
      /\ At(p, 17) = F[17] /\ At(p, 18) = F[18]
  <2>1. /\ \A i \in 1 .. 6 : i - 1 \in Span(0, 19)
        /\ 6 \in Span(0, 19) /\ 7 \in Span(0, 19) /\ 8 \in Span(0, 19) /\ 9 \in Span(0, 19)
        /\ 10 \in Span(0, 19) /\ 11 \in Span(0, 19) /\ 12 \in Span(0, 19)
        /\ 13 \in Span(0, 19) /\ 17 \in Span(0, 19) /\ 18 \in Span(0, 19)
    BY SMT DEF Span
  <2> QED BY <2>1
<1>4. \A i \in DOMAIN c.texts : At(p, i - 1) = <<Text(c.texts[i])>>
  <2>1. DOMAIN c.texts = 1 .. 6
    BY <1>1
  <2>2. \A i \in 1 .. 6 : F[i - 1] = <<Text(c.texts[i])>>
    BY Zenon DEF Holds
  <2> QED BY <2>1, <2>2, <1>3
<1>5. FlattenSeq(At(p, 6)) = Written(U16, c.messagesSent)
  <2>1. At(p, 6) = Found(c.messagesSent)
    BY <1>3, Zenon DEF Holds
  <2> QED BY <2>1, <1>1, NumbersFound
<1>6. FlattenSeq(At(p, 7)) = Written(U16, c.messagesReceived)
  <2>1. At(p, 7) = Found(c.messagesReceived)
    BY <1>3, Zenon DEF Holds
  <2> QED BY <2>1, <1>1, NumbersFound
<1>7. /\ At(p, 8) = <<<<c.powerSource>>>> /\ At(p, 9) = <<U16(c.maxCurrent)>>
      /\ At(p, 11) = Texts(Option(c.bundleSeed)) /\ At(p, 12) = <<Text(c.language)>>
      /\ At(p, 13) = Texts(c.languages)
  BY <1>3, Zenon DEF Holds
<1>8. At(ByNumber(At(p, 10)[1]), 1) = <<Text(c.protocolName)>>
  <2> DEFINE b == ProtocolBody(c.protocolName)
  <2>1. At(p, 10) = <<b>>
    BY <1>3, Zenon DEF Holds
  <2>2. At(ByNumber(b), 1) = <<Text(c.protocolName)>>
    BY <1>1, <1>2, ProtocolRead
  <2> HIDE DEF b
  <2>3. At(p, 10)[1] = b
    BY <2>1
  <2> QED BY <2>2, <2>3
<1>9. known = FirstBody(list) \o OtherBodies(list)
  <2>1. At(p, 17) = FirstBody(list) /\ At(p, 18) = OtherBodies(list)
    BY <1>3, Zenon DEF Holds
  <2> QED BY <2>1
<1>10. /\ Len(known) = Len(list) /\ DOMAIN known = 1 .. Len(list)
       /\ \A i \in 1 .. Len(list) : known[i] = ComponentBody(list[i])
  BY <1>1, <1>9, AllBodies
<1>11. ASSUME NEW i \in DOMAIN known
       PROVE  LET d == list[i]
                  q == ByNumber(known[i])
              IN  /\ At(q, 0) = <<U16(d.id)>> /\ At(q, 1) = <<Text(d.name)>>
                  /\ At(q, 2) = <<FunctionBytes(d.function)>> /\ At(q, 3) = Option(d.extra)
  <2>1. i \in 1 .. Len(list)
    BY <1>10
  <2>2. list[i] \in Components
    BY <2>1, <1>1, ElementsIn
  <2>3. known[i] = ComponentBody(list[i]) /\ Len(ComponentBody(list[i])) <= Third
    BY <2>1, <1>2, <1>10
  <2> HIDE DEF known, list
  <2> QED BY <2>2, <2>3, ComponentIs
<1>12. /\ Len(known) = Len(list)
       /\ \A i \in DOMAIN known :
            LET d == list[i]
                q == ByNumber(known[i])
            IN  /\ At(q, 0) = <<U16(d.id)>> /\ At(q, 1) = <<Text(d.name)>>
                /\ At(q, 2) = <<FunctionBytes(d.function)>> /\ At(q, 3) = Option(d.extra)
  BY <1>10, <1>11
<1> QED
  BY <1>4, <1>5, <1>6, <1>7, <1>8, <1>12, Zenon DEF IdentityLearned

(* An identification that is not written by hand. *)
LEMMA IdentityMade ==
  ASSUME Known(config), config.raw = <<>>
  PROVE  LET b == IdentificationMessage(config)
         IN  /\ WellFramed(b) /\ ReadAs(b).id = Identification
             /\ IdentityLearned(ReadAs(b).params)
<1> DEFINE id == Identification
           d == Described(config)
           b == Message(id, d)
<1>1. PICK F : Holds(config, F)
  BY HoldsSome
<1>2. Section(d, F, 0, 19)
  BY <1>1, DescribedRead
<1>3. Len(d) <= Space /\ id \in U16s
  <2>1. Len(d) <= Third
    BY Zenon DEF Known, Fitting
  <2>2. d \in Seq(Byte)
    BY <1>2, SectionType
  <2> HIDE DEF d
  <2>3. id \in U16s
    BY SMT, SmallNumber DEF Identification
  <2> QED BY <2>1, <2>2, <2>3, SMT DEF Third, Space
<1>4. IdentificationMessage(config) = b
  BY DEF IdentificationMessage
<1> HIDE DEF d, id
<1>5. /\ WellFramed(b) /\ ReadAs(b).id = id
      /\ \A i \in Span(0, 19) : At(ReadAs(b).params, i) = F[i]
  BY <1>2, <1>3, SectionSent
<1> HIDE DEF b
<1>6. IdentityLearned(ReadAs(b).params)
  BY <1>1, <1>5, IdentityFound
<1> QED
  BY <1>4, <1>5, <1>6 DEF id

(* An identification written by hand, in any of its forms. *)
LEMMA RawSent ==
  ASSUME NEW c, Known(c), c.raw # <<>>
  PROVE  IdentificationMessage(c) = Message(Identification, c.rawParams)
<1> DEFINE p == c.rawParams
           id == Identification
           u == U16(id)
           s == <<64, 64>>
           x == u \o p
           m == Message(id, p)
           raw == c.raw
<1>1. p \in Seq(Byte) /\ Len(p) \in Nat /\ Len(p) <= Third
  <2>1. p \in Seq(Byte)
    BY Fields DEF Known
  <2>2. Len(p) <= Third
    BY Zenon DEF Known, Fitting
  <2> QED BY <2>1, <2>2
<1>2. id \in U16s /\ id \in Nat /\ id = 7425
  BY SMT, SmallNumber DEF Identification
<1>3. u \in Seq(Byte) /\ Len(u) = 2 /\ u[1] = 29
  <2>1. u \in Seq(Byte) /\ Len(u) = 2
    BY <1>2, U16Type
  <2>2. u[1] = 29
    BY <1>2, SMT DEF U16
  <2> QED BY <2>1, <2>2
<1>4. s \in Seq(Byte) /\ Len(s) = 2 /\ s[1] = 64
  BY SyncBytes
<1>5. raw = p \/ raw = x \/ raw = m
  BY Zenon DEF Known, Fitting
<1>6. ~ StartsWith(p, s) /\ ~ StartsWith(p, u)
  BY Zenon DEF Known, Fitting
<1>7. /\ IdentificationMessage(c) = RawMessage(raw)
      /\ RawMessage(raw) = IF Len(raw) >= 6 /\ StartsWith(raw, s) THEN raw
                           ELSE Message(id, RawBody(raw))
      /\ RawBody(raw) = IF StartsWith(raw, u) THEN SubSeq(raw, 3, Len(raw)) ELSE raw
  BY Zenon DEF IdentificationMessage, RawMessage, RawBody
<1>8. Len(m) >= 6 /\ StartsWith(m, s)
  <2>1. Len(p) <= Space
    BY <1>1, SMT DEF Third, Space
  <2>2. WellFramed(m)
    BY <2>1, <1>1, <1>2, MessageFramed
  <2> HIDE DEF m
  <2> QED BY <2>2 DEF WellFramed, IsControl
<1> HIDE DEF p, id, u, s, m, raw
<1>9. ASSUME raw = p PROVE IdentificationMessage(c) = m
  BY <1>9, <1>6, <1>7 DEF m
<1>10. ASSUME raw = m PROVE IdentificationMessage(c) = m
  BY <1>10, <1>7, <1>8
<1>11. ASSUME raw = x PROVE IdentificationMessage(c) = m
  <2>1. /\ x \in Seq(Byte) /\ Len(x) = 2 + Len(p)
        /\ \A i \in 1 .. 2 : x[i] = u[i]
        /\ \A i \in 1 .. Len(p) : x[2 + i] = p[i]
    <3>1. /\ x \in Seq(Byte) /\ Len(x) = Len(u) + Len(p)
          /\ \A i \in 1 .. Len(u) : x[i] = u[i]
          /\ \A i \in 1 .. Len(p) : x[Len(u) + i] = p[i]
      <4>1. u \in Seq(Byte) /\ p \in Seq(Byte)
        BY <1>1, <1>3
      <4> QED BY <4>1, Joint
    <3> HIDE DEF x
    <3> QED BY <3>1, <1>3
  <2> HIDE DEF x
  <2>2. /\ SubSeq(x, 1, 2) \in Seq(Byte) /\ Len(SubSeq(x, 1, 2)) = 2
        /\ \A i \in 1 .. 2 : SubSeq(x, 1, 2)[i] = x[i]
    <3>1. 1 \in 1 .. Len(x) + 1 /\ 2 \in 1 - 1 .. Len(x) /\ 2 - 1 + 1 = 2
      BY <2>1, <1>1
    <3>2. /\ SubSeq(x, 1, 2) \in Seq(Byte) /\ Len(SubSeq(x, 1, 2)) = 2 - 1 + 1
          /\ \A i \in 1 .. 2 - 1 + 1 : SubSeq(x, 1, 2)[i] = x[1 + i - 1]
      BY <3>1, <2>1, PieceType
    <3>3. \A i \in 1 .. 2 : 1 + i - 1 = i
      OBVIOUS
    <3> QED BY <3>1, <3>2, <3>3
  <2>3. SubSeq(x, 1, 2) = u
    BY <2>1, <2>2, <1>3, SameSeq
  <2>4. StartsWith(x, u)
    BY <2>1, <2>3, <1>1, <1>3 DEF StartsWith
  <2>5. ~ StartsWith(x, s)
    BY <2>3, <1>3, <1>4 DEF StartsWith
  <2>6. SubSeq(x, 3, Len(x)) = p
    <3> DEFINE q == SubSeq(x, 3, Len(x))
               n == Len(x)
    <3>1. 3 \in 1 .. n + 1 /\ n \in 3 - 1 .. n /\ n - 3 + 1 = Len(p)
          /\ \A i \in 1 .. Len(p) : 3 + i - 1 = 2 + i
      BY <2>1, <1>1
    <3>2. /\ q \in Seq(Byte) /\ Len(q) = n - 3 + 1
          /\ \A i \in 1 .. n - 3 + 1 : q[i] = x[3 + i - 1]
      BY <3>1, <2>1, PieceType
    <3> HIDE DEF q, n
    <3>3. Len(q) = Len(p) /\ \A i \in 1 .. Len(q) : q[i] = p[i]
      BY <3>1, <3>2, <2>1
    <3>4. q = p
      BY <3>2, <3>3, <1>1, SameSeq
    <3> QED BY <3>4 DEF q
  <2> QED BY <2>4, <2>5, <2>6, <1>7, <1>11 DEF m
<1> QED
  BY <1>5, <1>9, <1>10, <1>11 DEF m, id, p

(* Whatever the identification is made from, the device learns it. *)
LEMMA IdentitySent ==
  ASSUME Known(config)
  PROVE  LET b == IdentificationMessage(config)
         IN  /\ WellFramed(b) /\ ReadAs(b).id = Identification
             /\ IdentityLearned(ReadAs(b).params)
<1>1. CASE config.raw = <<>>
  BY <1>1, IdentityMade
<1>2. CASE config.raw # <<>>
  <2> DEFINE p == config.rawParams
             id == Identification
             b == Message(id, p)
  <2>1. IdentificationMessage(config) = b
    BY <1>2, RawSent
  <2>2. p \in Seq(Byte) /\ Len(p) <= Third
    BY Fields, Zenon DEF Known, Fitting
  <2>3. Len(p) \in Nat
    BY <2>2
  <2>4. Len(p) <= Space
    BY <2>2, <2>3, SMT DEF Third, Space
  <2>5. id \in U16s
    BY SMT, SmallNumber DEF Identification
  <2> HIDE DEF p, id
  <2>6. WellFramed(b) /\ ReadAs(b) = [id |-> id, params |-> ByNumber(p)]
    BY <2>2, <2>4, <2>5, MessageFramed
  <2> HIDE DEF b
  <2>7. ReadAs(b).id = id /\ ReadAs(b).params = ByNumber(p)
    BY <2>6
  <2>8. IdentityLearned(ReadAs(b).params)
    BY <2>7, <1>2 DEF IdentityLearned, p
  <2> QED BY <2>1, <2>6, <2>7, <2>8 DEF id
<1> QED
  BY <1>1, <1>2

-----------------------------------------------------------------------------
(* What each message teaches                                               *)

Topics ==
  {"identification", "ea", "launch", "nowPlaying", "noPlaying", "keepalive",
   "certificate", "response", "hid", "noHid", "report"}

(* The ids of the messages. *)
Number(t) ==
  CASE t = "identification" -> 7425 [] t = "ea" -> 59906 [] t = "launch" -> 59906
    [] t = "nowPlaying" -> 20480 [] t = "noPlaying" -> 20482 [] t = "keepalive" -> 16727
    [] t = "certificate" -> 43521 [] t = "response" -> 43523 [] t = "hid" -> 26624
    [] t = "noHid" -> 26627 [] t = "report" -> 26626

(* The bytes of a message, built from a configuration. *)
Built(c, t, b) ==
  \/ t = "identification" /\ b = IdentificationMessage(c)
  \/ t = "ea" /\ b = EaSessionRequest(c, 0)
  \/ t = "launch" /\ b = AppLaunchRequest(c.bundle)
  \/ t = "nowPlaying" /\ b = StartNowPlaying(c)
  \/ t = "noPlaying" /\ b = StopNowPlaying
  \/ t = "keepalive" /\ b = RequestStatusUpdate
  \/ t = "certificate" /\ b = CertificateMessage(c.certificate)
  \/ t = "response" /\ b = ResponseMessage(c.response)
  \/ t = "hid" /\ b = StartHid(c)
  \/ t = "noHid" /\ b = StopHid(c)
  \/ t = "report" /\ \E r \in {Pressed(c.command), <<0>>} : b = HidReport(c, r)

(* What the device reads in it. *)
Teaches(t, p) ==
  /\ t = "identification" => IdentityLearned(p)
  /\ t = "ea" => DOMAIN p = {0, 1} /\ p[0] = <<<<config.protocolId>>>> /\ p[1] = <<<<0>>>>
  /\ t = "launch" => DOMAIN p = {0, 1} /\ p[0] = <<Text(config.bundle)>> /\ p[1] = <<<<1>>>>
  /\ t = "nowPlaying" => Asked(p, 0) = config.mediaAttributes /\ Asked(p, 1) = config.playbackAttributes
  /\ t \in {"noPlaying", "keepalive"} => DOMAIN p = {}
  /\ t = "certificate" => DOMAIN p = {0} /\ p[0] = <<config.certificate>>
  /\ t = "response" => DOMAIN p = {0} /\ p[0] = <<config.response>>
  /\ t = "hid" => At(p, 1) = <<U16(config.vendor)>> /\ At(p, 2) = <<U16(config.product)>>
                  /\ At(p, 4) = <<config.descriptor>>
  /\ t \in {"hid", "noHid", "report"} => At(p, 0) = <<U16(config.hidComponent)>>

LEMMA NumbersAre ==
  /\ Number("identification") = 7425 /\ Number("ea") = 59906 /\ Number("launch") = 59906
  /\ Number("nowPlaying") = 20480 /\ Number("noPlaying") = 20482
  /\ Number("keepalive") = 16727 /\ Number("certificate") = 43521
  /\ Number("response") = 43523 /\ Number("hid") = 26624 /\ Number("noHid") = 26627
  /\ Number("report") = 26626
BY SMT DEF Number

LEMMA TopicsAre ==
  ASSUME NEW t \in Topics
  PROVE  \/ t = "identification" \/ t = "ea" \/ t = "launch" \/ t = "nowPlaying"
         \/ t = "noPlaying" \/ t = "keepalive" \/ t = "certificate" \/ t = "response"
         \/ t = "hid" \/ t = "noHid" \/ t = "report"
BY DEF Topics

LEMMA NumberIs ==
  ASSUME NEW t \in Topics
  PROVE  Number(t) \in U16s
<1>1. Number(t) \in Nat /\ Number(t) <= 65535
  BY NumbersAre, TopicsAre, SMT
<1> QED
  BY <1>1, SmallNumber

(* Only two messages have the same id. *)
LEMMA NumbersDiffer ==
  ASSUME NEW t \in Topics, NEW u \in Topics, Number(t) = Number(u), t # u
  PROVE  \/ t = "ea" /\ u = "launch"
         \/ t = "launch" /\ u = "ea"
<1>1. \/ u = "identification" \/ u = "ea" \/ u = "launch" \/ u = "nowPlaying"
      \/ u = "noPlaying" \/ u = "keepalive" \/ u = "certificate" \/ u = "response"
      \/ u = "hid" \/ u = "noHid" \/ u = "report"
  BY TopicsAre
<1>2. CASE t = "identification"
  BY <1>1, <1>2, NumbersAre, SMT
<1>3. CASE t \in {"ea", "launch"}
  <2>1. Number(t) = Number("ea") /\ Number(u) = Number("ea")
    BY <1>3, NumbersAre
  <2>2. u \in {"ea", "launch"}
    BY <2>1, <1>1, NumbersAre, SMT
  <2> QED BY <2>2, <1>3
<1>4. CASE t \in {"nowPlaying", "noPlaying", "keepalive"}
  BY <1>1, <1>4, NumbersAre, SMT
<1>5. CASE t \in {"certificate", "response"}
  BY <1>1, <1>5, NumbersAre, SMT
<1>6. CASE t \in {"hid", "noHid", "report"}
  BY <1>1, <1>6, NumbersAre, SMT
<1> QED
  BY <1>2, <1>3, <1>4, <1>5, <1>6, TopicsAre

(* Messages with one or two parameters. *)
LEMMA EaSent ==
  ASSUME Known(config), NEW id \in U16s
  PROVE  LET b == Message(id, Parameter(0, <<config.protocolId>>) \o Parameter(1, <<0>>))
         IN  WellFramed(b) /\ ReadAs(b).id = id /\ Teaches("ea", ReadAs(b).params)
<1> DEFINE x == <<config.protocolId>>
           y == <<0>>
           b == Message(id, Parameter(0, x) \o Parameter(1, y))
           p == ReadAs(b).params
<1>1. x \in Seq(Byte) /\ Len(x) <= Third + 1 /\ y \in Seq(Byte) /\ Len(y) <= Third + 1
  <2>1. config.protocolId \in Byte /\ 0 \in Byte
    BY Fields, SMT DEF Known, Byte
  <2>2. Len(x) = 1 /\ Len(y) = 1 /\ 1 <= Third + 1
    BY SMT DEF Third
  <2>3. x \in Seq(Byte) /\ y \in Seq(Byte)
    BY <2>1, ByteFits
  <2> HIDE DEF x, y
  <2> QED BY <2>2, <2>3
<1>2. 0 \in U16s /\ 1 \in U16s /\ 0 # 1
  BY SMT DEF U16s
<1> HIDE DEF x, y
<1>3. WellFramed(b) /\ ReadAs(b).id = id /\ DOMAIN p = {0, 1} /\ p[0] = <<x>> /\ p[1] = <<y>>
  BY <1>1, <1>2, TwoSent
<1> HIDE DEF b
<1>4. Teaches("ea", p)
  BY <1>3 DEF Teaches, x, y
<1> QED
  BY <1>3, <1>4 DEF b, x, y

LEMMA LaunchSent ==
  ASSUME Known(config), NEW id \in U16s
  PROVE  LET b == Message(id, Parameter(0, Text(config.bundle)) \o Parameter(1, <<1>>))
         IN  WellFramed(b) /\ ReadAs(b).id = id /\ Teaches("launch", ReadAs(b).params)
<1> DEFINE x == Text(config.bundle)
           y == <<1>>
           b == Message(id, Parameter(0, x) \o Parameter(1, y))
           p == ReadAs(b).params
<1>1. config.bundle \in Seq(Byte) /\ Len(config.bundle) <= Third /\ Len(config.bundle) \in Nat
  <2>1. config.bundle \in Seq(Byte)
    BY Fields, Zenon DEF Known
  <2>2. Len(config.bundle) <= Third
    BY Zenon DEF Known, Fitting
  <2> QED BY <2>1, <2>2
<1>2. x \in Seq(Byte) /\ Len(x) = Len(config.bundle) + 1
  BY <1>1, TextType
<1>3. y \in Seq(Byte) /\ Len(y) = 1
  <2>1. 1 \in Byte
    BY SMT DEF Byte
  <2> QED BY <2>1, ByteFits
<1> HIDE DEF x, y
<1>4. Len(x) <= Third + 1 /\ Len(y) <= Third + 1
  BY <1>1, <1>2, <1>3, SMT DEF Third
<1>5. 0 \in U16s /\ 1 \in U16s /\ 0 # 1
  BY SMT DEF U16s
<1>6. WellFramed(b) /\ ReadAs(b).id = id /\ DOMAIN p = {0, 1} /\ p[0] = <<x>> /\ p[1] = <<y>>
  <2>1. x \in Seq(Byte) /\ y \in Seq(Byte)
    BY <1>2, <1>3
  <2> QED BY <2>1, <1>4, <1>5, TwoSent
<1> HIDE DEF b
<1>7. Teaches("launch", p)
  BY <1>6 DEF Teaches, x, y
<1> QED
  BY <1>6, <1>7 DEF b, x, y

LEMMA ReportSent ==
  ASSUME Known(config), NEW id \in U16s, NEW r \in {Pressed(config.command), << 0 >>}
  PROVE  LET b == Message(id, Parameter(0, U16(config.hidComponent)) \o Parameter(1, r))
         IN  WellFramed(b) /\ ReadAs(b).id = id /\ Teaches("report", ReadAs(b).params)
<1> DEFINE x == U16(config.hidComponent)
           b == Message(id, Parameter(0, x) \o Parameter(1, r))
           p == ReadAs(b).params
<1>1. r \in Seq(Byte) /\ Len(r) <= Third /\ x \in Seq(Byte) /\ Len(x) <= Third
  BY Fields, Buttons, WordFits DEF Known
<1> HIDE DEF x
<1>2. Len(x) <= Third + 1 /\ Len(r) <= Third + 1
  <2>1. Len(x) \in Nat /\ Len(r) \in Nat
    BY <1>1
  <2> QED BY <2>1, <1>1, SMT DEF Third
<1>3. 0 \in U16s /\ 1 \in U16s /\ 0 # 1
  BY SMT DEF U16s
<1>4. WellFramed(b) /\ ReadAs(b).id = id /\ DOMAIN p = {0, 1} /\ p[0] = <<x>>
  BY <1>1, <1>2, <1>3, TwoSent
<1> HIDE DEF b
<1>5. Teaches("report", p)
  BY <1>4 DEF Teaches, At, x
<1> QED
  BY <1>4, <1>5 DEF b, x

LEMMA StopHidSent ==
  ASSUME Known(config), NEW id \in U16s
  PROVE  LET b == Message(id, Parameter(0, U16(config.hidComponent)))
         IN  WellFramed(b) /\ ReadAs(b).id = id /\ Teaches("noHid", ReadAs(b).params)
<1> DEFINE x == U16(config.hidComponent)
           b == Message(id, Parameter(0, x))
           p == ReadAs(b).params
<1>1. x \in Seq(Byte) /\ Len(x) <= Third
  BY Fields, WordFits DEF Known
<1>2. 0 \in U16s
  BY SMT DEF U16s
<1> HIDE DEF x
<1>3. WellFramed(b) /\ ReadAs(b).id = id /\ DOMAIN p = {0} /\ p[0] = <<x>>
  BY <1>1, <1>2, OneSent
<1> HIDE DEF b
<1>4. Teaches("noHid", p)
  BY <1>3 DEF Teaches, At, x
<1> QED
  BY <1>3, <1>4 DEF b, x

LEMMA AuthSent ==
  ASSUME Known(config), NEW id \in U16s
  PROVE  /\ LET b == Message(id, Parameter(0, config.certificate))
            IN  WellFramed(b) /\ ReadAs(b).id = id /\ Teaches("certificate", ReadAs(b).params)
         /\ LET b == Message(id, Parameter(0, config.response))
            IN  WellFramed(b) /\ ReadAs(b).id = id /\ Teaches("response", ReadAs(b).params)
<1> DEFINE x == config.certificate
           y == config.response
           b == Message(id, Parameter(0, x))
           d == Message(id, Parameter(0, y))
           p == ReadAs(b).params
           q == ReadAs(d).params
<1>1. x \in Seq(Byte) /\ Len(x) <= Third /\ y \in Seq(Byte) /\ Len(y) <= Third
  BY Fields, Zenon DEF Known, Fitting
<1>2. 0 \in U16s
  BY SMT DEF U16s
<1> HIDE DEF x, y
<1>3. WellFramed(b) /\ ReadAs(b).id = id /\ DOMAIN p = {0} /\ p[0] = <<x>>
  BY <1>1, <1>2, OneSent
<1>4. WellFramed(d) /\ ReadAs(d).id = id /\ DOMAIN q = {0} /\ q[0] = <<y>>
  BY <1>1, <1>2, OneSent
<1> HIDE DEF b, d
<1>5. Teaches("certificate", p)
  BY <1>3 DEF Teaches, x
<1>6. Teaches("response", q)
  BY <1>4 DEF Teaches, y
<1> QED
  BY <1>3, <1>4, <1>5, <1>6 DEF b, d, x, y

(* Whatever is sent is well framed, and read as what it was built from. *)
LEMMA BuiltTeaches ==
  ASSUME Known(config), NEW t, NEW b, Built(config, t, b)
  PROVE  /\ t \in Topics /\ WellFramed(b)
         /\ ReadAs(b).id = Number(t) /\ Teaches(t, ReadAs(b).params)
<1> DEFINE p == ReadAs(b).params
           c == config
<1>1. t \in Topics
  BY SMT DEF Built, Topics
<1>2. CASE t = "identification"
  <2>1. b = IdentificationMessage(c)
    BY <1>2, SMT DEF Built
  <2>2. Number(t) = Identification
    BY <1>2, NumbersAre, SMT DEF Identification
  <2>3. WellFramed(b) /\ ReadAs(b).id = Number(t) /\ IdentityLearned(p)
    BY <2>1, <2>2, IdentitySent
  <2> HIDE DEF p
  <2>4. Teaches(t, p)
    BY <1>2, <2>3 DEF Teaches
  <2> QED BY <1>1, <2>3, <2>4 DEF p
<1>3. CASE t = "ea"
  <2>1. b = Message(Number(t), Parameter(0, <<c.protocolId>>) \o Parameter(1, <<0>>))
    BY <1>3, NumbersAre, SMT DEF Built, EaSessionRequest
  <2> QED BY <1>1, <1>3, <2>1, NumberIs, EaSent
<1>4. CASE t = "launch"
  <2>1. b = Message(Number(t), Parameter(0, Text(c.bundle)) \o Parameter(1, <<1>>))
    BY <1>4, NumbersAre, SMT DEF Built, AppLaunchRequest
  <2> QED BY <1>1, <1>4, <2>1, NumberIs, LaunchSent
<1>5. CASE t = "nowPlaying"
  <2>1. b = Message(Number(t), Attributes(0, c.mediaAttributes) \o Attributes(1, c.playbackAttributes))
    BY <1>5, NumbersAre, SMT DEF Built, StartNowPlaying
  <2>2. /\ WellFramed(b) /\ ReadAs(b).id = Number(t)
        /\ Asked(p, 0) = c.mediaAttributes /\ Asked(p, 1) = c.playbackAttributes
    BY <1>1, <2>1, NumberIs, StartPlayingSent
  <2> HIDE DEF p
  <2>3. Teaches(t, p)
    BY <1>5, <2>2 DEF Teaches
  <2> QED BY <1>1, <2>2, <2>3 DEF p
<1>6. CASE t \in {"noPlaying", "keepalive"}
  <2>1. b = Message(Number(t), <<>>)
    BY <1>6, NumbersAre, SMT DEF Built, StopNowPlaying, RequestStatusUpdate
  <2>2. WellFramed(b) /\ ReadAs(b).id = Number(t) /\ DOMAIN p = {}
    BY <1>1, <2>1, NumberIs, NoneSent
  <2> HIDE DEF p
  <2>3. Teaches(t, p)
    BY <1>6, <2>2 DEF Teaches
  <2> QED BY <1>1, <2>2, <2>3 DEF p
<1>7. CASE t = "certificate"
  <2>1. b = Message(Number(t), Parameter(0, c.certificate))
    BY <1>7, NumbersAre, SMT DEF Built, CertificateMessage
  <2> QED BY <1>1, <1>7, <2>1, NumberIs, AuthSent
<1>8. CASE t = "response"
  <2>1. b = Message(Number(t), Parameter(0, c.response))
    BY <1>8, NumbersAre, SMT DEF Built, ResponseMessage
  <2> QED BY <1>1, <1>8, <2>1, NumberIs, AuthSent
<1>9. CASE t = "hid"
  <2>1. b = Message(Number(t), Parameter(0, U16(c.hidComponent)) \o Parameter(1, U16(c.vendor))
                                 \o Parameter(2, U16(c.product)) \o Parameter(4, c.descriptor))
    BY <1>9, NumbersAre, SMT DEF Built, StartHid
  <2>2. /\ WellFramed(b) /\ ReadAs(b).id = Number(t)
        /\ At(p, 0) = <<U16(c.hidComponent)>> /\ At(p, 1) = <<U16(c.vendor)>>
        /\ At(p, 2) = <<U16(c.product)>> /\ At(p, 4) = <<c.descriptor>>
    BY <1>1, <2>1, NumberIs, StartHidSent
  <2> HIDE DEF p
  <2>3. Teaches(t, p)
    BY <1>9, <2>2 DEF Teaches
  <2> QED BY <1>1, <2>2, <2>3 DEF p
<1>10. CASE t = "noHid"
  <2>1. b = Message(Number(t), Parameter(0, U16(c.hidComponent)))
    BY <1>10, NumbersAre, SMT DEF Built, StopHid
  <2> QED BY <1>1, <1>10, <2>1, NumberIs, StopHidSent
<1>11. CASE t = "report"
  <2>1. PICK r \in {Pressed(c.command), <<0>>} : b = HidReport(c, r)
    BY <1>11, SMT DEF Built
  <2>2. b = Message(Number(t), Parameter(0, U16(c.hidComponent)) \o Parameter(1, r))
    BY <1>11, <2>1, NumbersAre, SMT DEF HidReport
  <2> QED BY <1>1, <1>11, <2>2, NumberIs, ReportSent
<1> QED
  BY <1>1, <1>2, <1>3, <1>4, <1>5, <1>6, <1>7, <1>8, <1>9, <1>10, <1>11, TopicsAre

(* What the device has learned from messages of two kinds is not the same. *)
LEMMA LearnedApart ==
  ASSUME Known(config), NEW t, NEW u, NEW b, NEW d, Built(config, t, b), Built(config, u, d),
         ReadAs(b) = ReadAs(d)
  PROVE  t = u
<1>1. /\ t \in Topics /\ u \in Topics
      /\ ReadAs(b).id = Number(t) /\ Teaches(t, ReadAs(b).params)
      /\ ReadAs(d).id = Number(u) /\ Teaches(u, ReadAs(d).params)
  BY BuiltTeaches
<1> DEFINE p == ReadAs(b).params
<1>2. Number(t) = Number(u) /\ Teaches(t, p) /\ Teaches(u, p)
  BY <1>1
<1> HIDE DEF p
<1>3. SUFFICES ASSUME t # u PROVE FALSE
  OBVIOUS
<1>4. Teaches("ea", p) /\ Teaches("launch", p)
  BY <1>1, <1>2, <1>3, NumbersDiffer
<1>5. p[1] = <<<<0>>>> /\ p[1] = <<<<1>>>>
  BY <1>4 DEF Teaches
<1> QED
  BY <1>5

-----------------------------------------------------------------------------
(* What the device has learned                                             *)

(* The inductive invariant of the messages to the device: each is built    *)
(* from the configuration, and what was learned was read in one.           *)
Learning ==
  /\ Known(config)
  /\ toDev = {} \/ \E m : toDev = {m}
  /\ \A m \in toDev : Built(config, m.topic, m.bytes)
  /\ \A t \in DOMAIN learned : \E b : Built(config, t, b) /\ learned[t] = ReadAs(b)

LEMMA LearningStarts ==
  ASSUME Init
  PROVE  Learning
<1>1. PICK s \in Scenarios : config = s.config
  BY DEF Init
<1>2. Known(config)
  BY <1>1, ScenarioKnown
<1>3. toDev = {} /\ DOMAIN learned = {}
  BY DEF Init
<1> QED
  BY <1>2, <1>3 DEF Learning

LEMMA LearningSent ==
  ASSUME Learning, NEW t, NEW b, Sends(t, b), Built(config, t, b)
  PROVE  Learning'
<1> DEFINE m == [topic |-> t, bytes |-> b]
<1>1. toDev' = {m} /\ UNCHANGED <<config, learned>>
  BY DEF Sends
<1>2. m.topic = t /\ m.bytes = b
  OBVIOUS
<1> HIDE DEF m
<1> QED
  BY <1>1, <1>2 DEF Learning

LEMMA LearningRead ==
  ASSUME Learning, DevReads
  PROVE  Learning'
<1>1. PICK m \in toDev :
        learned' = Overlay(learned, [t \in {m.topic} |-> [id |-> MessageId(m.bytes),
                                                          params |-> ByNumber(Contents(m.bytes))]])
  BY DEF DevReads
<1>2. toDev' = {} /\ config' = config
  BY DEF DevReads
<1> DEFINE l == ReadAs(m.bytes)
           f == [t \in {m.topic} |-> l]
<1>3. learned' = Overlay(learned, f)
  BY <1>1 DEF ReadAs
<1>4. Built(config, m.topic, m.bytes)
  BY DEF Learning
<1>5. ASSUME NEW t \in DOMAIN learned'
      PROVE  \E b : Built(config, t, b) /\ learned'[t] = ReadAs(b)
  <2>1. CASE t = m.topic
    <3>1. learned'[t] = l
      BY <2>1, <1>3 DEF Overlay
    <3> QED BY <3>1, <2>1, <1>4
  <2>2. CASE t # m.topic
    <3>1. t \in DOMAIN learned /\ learned'[t] = learned[t]
      BY <2>2, <1>3, <1>5 DEF Overlay
    <3> QED BY <3>1 DEF Learning
  <2> QED BY <2>1, <2>2
<1> QED
  BY <1>2, <1>5 DEF Learning

LEMMA LearningKept ==
  ASSUME Learning, [Next]_vars
  PROVE  Learning'
<1>1. ASSUME UNCHANGED <<config, toDev, learned>> PROVE Learning'
  BY <1>1 DEF Learning
<1>2. CASE UNCHANGED vars
  BY <1>1, <1>2 DEF vars, accessory
<1>3. CASE DevReads
  BY <1>3, LearningRead
<1>4. CASE DeviceSpeaks \/ AccReads
  <2>1. \A k, a, d : Says(k, a, d) => UNCHANGED <<config, toDev, learned>>
    BY DEF Says
  <2>2. CASE DevStartsSession \/ DevStopsSession
    <3>1. CASE DevStartsSession
      <4>1. PICK s \in Sessions, b \in Behind : Says("EaSessionStarted", s, StartBytes(s, b))
        BY <3>1, SMT DEF DevStartsSession, StartBytes
      <4> QED BY <4>1, <2>1, <1>1
    <3>2. CASE DevStopsSession
      <4>1. PICK s \in Sessions, b \in Behind : Says("EaSessionStopped", s, StopBytes(s, b))
        BY <3>2, SMT DEF DevStopsSession, StopBytes
      <4> QED BY <4>1, <2>1, <1>1
    <3> QED BY <2>2, <3>1, <3>2
  <2>3. CASE DevChallenges
    BY <2>1, <2>3, <1>1 DEF DevChallenges
  <2>4. CASE DevPlays
    BY <2>1, <2>4, <1>1 DEF DevPlays
  <2>5. CASE DevSendsJunk \/ AccReads
    BY <2>5, <1>1 DEF DevSendsJunk, AccReads, accessory
  <2> QED BY <1>4, <2>2, <2>3, <2>4, <2>5 DEF DeviceSpeaks
<1>5. CASE AccessorySends
  <2>1. \E t, b : Sends(t, b) /\ Built(config, t, b)
    <3>1. CASE SendIdentification \/ SendEaSessionRequest \/ SendAppLaunchRequest
      BY <3>1 DEF SendIdentification, SendEaSessionRequest, SendAppLaunchRequest, Built
    <3>2. CASE SendStartNowPlayingUpdates \/ SendStopNowPlayingUpdates \/ SendKeepalive
      BY <3>2 DEF SendStartNowPlayingUpdates, SendStopNowPlayingUpdates, SendKeepalive, Built
    <3>3. CASE SendCertificate \/ SendResponse
      BY <3>3 DEF SendCertificate, SendResponse, Built
    <3>4. CASE SendStart \/ SendStop
      BY <3>4 DEF SendStart, SendStop, Built
    <3>5. CASE SendReport
      BY <3>5 DEF SendReport, Built
    <3> QED BY <1>5, <3>1, <3>2, <3>3, <3>4, <3>5 DEF AccessorySends
  <2> QED BY <2>1, LearningSent
<1> QED
  BY <1>2, <1>3, <1>4, <1>5 DEF Next

(* Messages are bytes, and those of the accessory are well framed; what is *)
(* shown was played.                                                       *)
THEOREM MessagesAreWellFramed == Spec => []TypeOK
<1>1. Init => Understanding /\ Learning
  BY UnderstandingStarts, LearningStarts
<1>2. (Understanding /\ Learning) /\ [Next]_vars => (Understanding /\ Learning)'
  BY UnderstandingKept, LearningKept
<1>3. Understanding /\ Learning => TypeOK
  <2> SUFFICES ASSUME Understanding, Learning PROVE TypeOK
    OBVIOUS
  <2>1. ASSUME NEW m \in toDev
        PROVE  /\ m.bytes \in Seq(0 .. 255)
               /\ IsControl(m.bytes) /\ U16At(m.bytes, 3) = Len(m.bytes)
               /\ LinkMessageId(m.bytes) = {MessageId(m.bytes)}
    <3>1. WellFramed(m.bytes)
      BY BuiltTeaches DEF Learning
    <3> QED BY <3>1 DEF WellFramed, Byte
  <2>2. PICK rest \in Seq(Things) : Told_Heard(rest)
    BY DEF Understanding
  <2>3. toAcc = {} \/ \E d \in Seq(Byte) : toAcc = {d}
    BY <2>2 DEF Told_Heard, Waiting
  <2>4. \A d \in toAcc : d \in Seq(0 .. 255)
    BY <2>3 DEF Byte
  <2>5. Cardinality(toDev) <= 1 /\ Cardinality(toAcc) <= 1
    <3>1. Cardinality({}) = 0 /\ \A x : Cardinality({x}) = 1
      BY FS_EmptySet, FS_Singleton
    <3>2. toDev = {} \/ \E m : toDev = {m}
      BY DEF Learning
    <3>3. Cardinality(toDev) = 0 \/ Cardinality(toDev) = 1
      BY <3>1, <3>2
    <3>4. Cardinality(toAcc) = 0 \/ Cardinality(toAcc) = 1
      BY <3>1, <2>3
    <3> QED BY <3>3, <3>4
  <2>6. DOMAIN shown \subseteq DOMAIN playing
    <3>1. DOMAIN Soon(shown, rest) \subseteq DOMAIN playing
      BY <2>2 DEF Told_Heard, Current
    <3>2. DOMAIN shown \subseteq DOMAIN Soon(shown, rest)
      BY DEF Soon, Overlay
    <3> QED BY <3>1, <3>2
  <2> QED BY <2>1, <2>4, <2>5, <2>6 DEF TypeOK
<1> QED
  BY <1>1, <1>2, <1>3, PTL DEF Spec

(* The device learns what is configured, from every message, and no two    *)
(* messages are read alike.                                                *)
THEOREM LearnsWhatIsConfigured == Spec => []LearnsConfig
<1>1. Init => Learning
  BY LearningStarts
<1>2. Learning /\ [Next]_vars => Learning'
  BY LearningKept
<1>3. Learning => LearnsConfig
  <2> SUFFICES ASSUME Learning PROVE LearnsConfig
    OBVIOUS
  <2>1. \A t \in DOMAIN learned : t \in Topics /\ Teaches(t, learned[t].params)
    BY BuiltTeaches DEF Learning
  <2>2. ASSUME NEW t \in DOMAIN learned, NEW u \in DOMAIN learned, learned[t] = learned[u]
        PROVE  t = u
    <3>1. PICK b : Built(config, t, b) /\ learned[t] = ReadAs(b)
      BY DEF Learning
    <3>2. PICK d : Built(config, u, d) /\ learned[u] = ReadAs(d)
      BY DEF Learning
    <3> QED BY <3>1, <3>2, <2>2, LearnedApart DEF Learning
  <2>3. ASSUME NEW t \in DOMAIN learned
        PROVE  LET p == learned[t].params
               IN  CASE t = "identification" -> IdentityLearned(p)
                     [] t = "ea" -> /\ DOMAIN p = {0, 1}
                                    /\ p[0] = <<<<config.protocolId>>>> /\ p[1] = <<<<0>>>>
                     [] t = "launch" -> /\ DOMAIN p = {0, 1}
                                        /\ p[0] = <<Text(config.bundle)>> /\ p[1] = <<<<1>>>>
                     [] t = "nowPlaying" -> /\ Asked(p, 0) = config.mediaAttributes
                                            /\ Asked(p, 1) = config.playbackAttributes
                     [] t = "certificate" -> DOMAIN p = {0} /\ p[0] = <<config.certificate>>
                     [] t = "response" -> DOMAIN p = {0} /\ p[0] = <<config.response>>
                     [] t = "hid" -> /\ At(p, 1) = <<U16(config.vendor)>>
                                     /\ At(p, 2) = <<U16(config.product)>>
                                     /\ At(p, 4) = <<config.descriptor>>
                     [] t \in {"report", "noHid"} ->
                          "hid" \in DOMAIN learned => At(p, 0) = At(learned["hid"].params, 0)
                     [] t \in {"noPlaying", "keepalive"} -> DOMAIN p = {}
    <3> DEFINE p == learned[t].params
               q == learned["hid"].params
    <3>1. t \in Topics /\ Teaches(t, p)
      BY <2>1
    <3>2. "hid" \in DOMAIN learned => At(q, 0) = <<U16(config.hidComponent)>>
      BY <2>1 DEF Teaches
    <3> HIDE DEF p, q
    <3>3. CASE t = "identification"
      BY <3>1, <3>3, SMT DEF Teaches, p
    <3>4. CASE t = "ea"
      BY <3>1, <3>4, SMT DEF Teaches, p
    <3>5. CASE t = "launch"
      BY <3>1, <3>5, SMT DEF Teaches, p
    <3>6. CASE t = "nowPlaying"
      BY <3>1, <3>6, SMT DEF Teaches, p
    <3>7. CASE t = "certificate"
      BY <3>1, <3>7, SMT DEF Teaches, p
    <3>8. CASE t = "response"
      BY <3>1, <3>8, SMT DEF Teaches, p
    <3>9. CASE t = "hid"
      BY <3>1, <3>9, SMT DEF Teaches, p
    <3>10. CASE t = "report"
      <4>1. "hid" \in DOMAIN learned => At(p, 0) = At(q, 0)
        BY <3>1, <3>2, <3>10 DEF Teaches
      <4> QED BY <4>1, <3>10, SMT DEF p, q
    <3>11. CASE t = "noHid"
      <4>1. "hid" \in DOMAIN learned => At(p, 0) = At(q, 0)
        BY <3>1, <3>2, <3>11 DEF Teaches
      <4> QED BY <4>1, <3>11, SMT DEF p, q
    <3>12. CASE t = "noPlaying"
      BY <3>1, <3>12, SMT DEF Teaches, p
    <3>13. CASE t = "keepalive"
      BY <3>1, <3>13, SMT DEF Teaches, p
    <3> QED BY <3>1, <3>3, <3>4, <3>5, <3>6, <3>7, <3>8, <3>9, <3>10, <3>11, <3>12, <3>13 DEF Topics
  <2> QED BY <2>2, <2>3 DEF LearnsConfig
<1> QED
  BY <1>1, <1>2, <1>3, PTL DEF Spec
=============================================================================
