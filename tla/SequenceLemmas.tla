--------------------------- MODULE SequenceLemmas ---------------------------
(***************************************************************************)
(* What the proofs about bytes need of sequences: pieces of them, several  *)
(* joined, and FlattenSeq.  What a recursive definition of the community   *)
(* modules returns is shown in three steps: a function that satisfies its  *)
(* equation exists, the one chosen is such a function, and any two agree.  *)
(* Each step looks at the shortest sequence, or the first place, where it  *)
(* would fail.                                                             *)
(***************************************************************************)
EXTENDS Integers, SequencesExt, WellFoundedInduction, TLAPS

-----------------------------------------------------------------------------
(* Sequences                                                               *)

LEMMA LeastNat ==
  ASSUME NEW T \in SUBSET Nat, T # {}
  PROVE  \E m \in T : \A k \in T : m <= k
<1> DEFINE R == {e \in Nat \X Nat : e[1] < e[2]}
<1>1. \A x, y \in Nat : x < y => <<x, y>> \in R
  OBVIOUS
<1>2. IsWellFoundedOn(R, Nat)
  BY NatLessThanWellFounded, Zenon DEF OpToRel
<1> HIDE DEF R
<1>3. PICK m \in T : \A k \in T : ~ (<<k, m>> \in R)
  BY WFMin, <1>2
<1>4. \A k \in T : ~ (k < m)
  BY <1>1, <1>3
<1> QED
  BY <1>4

LEMMA SameSeq ==
  ASSUME NEW S, NEW s \in Seq(S), NEW t \in Seq(S), Len(s) = Len(t),
         \A i \in 1 .. Len(s) : s[i] = t[i]
  PROVE  s = t
OBVIOUS

(* A piece of a sequence. *)
LEMMA PieceType ==
  ASSUME NEW S, NEW s \in Seq(S), NEW a \in 1 .. Len(s) + 1, NEW b \in a - 1 .. Len(s)
  PROVE  /\ SubSeq(s, a, b) \in Seq(S)
         /\ Len(SubSeq(s, a, b)) = b - a + 1
         /\ \A i \in 1 .. b - a + 1 : SubSeq(s, a, b)[i] = s[a + i - 1]
<1>1. \A i \in a .. b : s[i] \in S
  OBVIOUS
<1> QED
  BY <1>1

LEMMA PieceOfPiece ==
  ASSUME NEW S, NEW s \in Seq(S),
         NEW a \in 1 .. Len(s) + 1, NEW b \in a - 1 .. Len(s),
         NEW c \in 1 .. b - a + 2, NEW d \in c - 1 .. b - a + 1
  PROVE  SubSeq(SubSeq(s, a, b), c, d) = SubSeq(s, a + c - 1, a + d - 1)
<1> DEFINE t == SubSeq(s, a, b)
           u == SubSeq(t, c, d)
           v == SubSeq(s, a + c - 1, a + d - 1)
<1>1. /\ t \in Seq(S) /\ Len(t) = b - a + 1
      /\ \A i \in 1 .. b - a + 1 : t[i] = s[a + i - 1]
  BY PieceType
<1>2. /\ u \in Seq(S) /\ Len(u) = d - c + 1
      /\ \A i \in 1 .. d - c + 1 : u[i] = t[c + i - 1]
  <2> HIDE DEF t
  <2> QED BY <1>1, PieceType
<1>3. /\ v \in Seq(S) /\ Len(v) = d - c + 1
      /\ \A i \in 1 .. d - c + 1 : v[i] = s[a + c - 1 + i - 1]
  <2> DEFINE e == a + c - 1
             f == a + d - 1
  <2>1. e \in 1 .. Len(s) + 1 /\ f \in e - 1 .. Len(s) /\ f - e + 1 = d - c + 1
    OBVIOUS
  <2> HIDE DEF e, f
  <2>2. /\ SubSeq(s, e, f) \in Seq(S)
        /\ Len(SubSeq(s, e, f)) = f - e + 1
        /\ \A i \in 1 .. f - e + 1 : SubSeq(s, e, f)[i] = s[e + i - 1]
    BY <2>1, PieceType
  <2> QED BY <2>1, <2>2 DEF e, f
<1>4. \A i \in 1 .. d - c + 1 : u[i] = v[i]
  <2> TAKE i \in 1 .. d - c + 1
  <2> HIDE DEF t, u, v
  <2>1. c + i - 1 \in 1 .. b - a + 1 /\ a + (c + i - 1) - 1 = a + c - 1 + i - 1
    OBVIOUS
  <2> QED BY <2>1, <1>1, <1>2, <1>3
<1> QED
  <2> HIDE DEF u, v
  <2> QED BY <1>2, <1>3, <1>4, SameSeq DEF u, v

LEMMA Joined ==
  ASSUME NEW S, NEW s \in Seq(S), NEW t \in Seq(S)
  PROVE  /\ s \o t \in Seq(S) /\ Len(s \o t) = Len(s) + Len(t)
         /\ \A i \in 1 .. Len(s) : (s \o t)[i] = s[i]
         /\ \A i \in 1 .. Len(t) : (s \o t)[Len(s) + i] = t[i]
OBVIOUS

LEMMA JoinedThree ==
  ASSUME NEW S, NEW s \in Seq(S), NEW t \in Seq(S), NEW u \in Seq(S)
  PROVE  s \o (t \o u) = (s \o t) \o u
<1> DEFINE l == s \o (t \o u)
           r == (s \o t) \o u
<1>1. /\ l \in Seq(S) /\ r \in Seq(S)
      /\ Len(l) = Len(s) + Len(t) + Len(u) /\ Len(r) = Len(s) + Len(t) + Len(u)
  OBVIOUS
<1>2. \A i \in 1 .. Len(s) + Len(t) + Len(u) : l[i] = r[i]
  OBVIOUS
<1> HIDE DEF l, r
<1>3. l = r
  BY <1>1, <1>2, SameSeq
<1> QED
  BY <1>3 DEF l, r

(* Behind a position of its first part, a joined sequence is the rest of   *)
(* that part and the second one.                                           *)
LEMMA PieceOfJoined ==
  ASSUME NEW S, NEW s \in Seq(S), NEW t \in Seq(S), NEW a \in 1 .. Len(s) + 1
  PROVE  SubSeq(s \o t, a, Len(s) + Len(t)) = SubSeq(s, a, Len(s)) \o t
<1> DEFINE j == s \o t
           u == SubSeq(j, a, Len(s) + Len(t))
           v == SubSeq(s, a, Len(s))
<1>1. /\ j \in Seq(S) /\ Len(j) = Len(s) + Len(t)
      /\ \A i \in 1 .. Len(s) : j[i] = s[i]
      /\ \A i \in 1 .. Len(t) : j[Len(s) + i] = t[i]
  BY Joined
<1>2. /\ u \in Seq(S) /\ Len(u) = Len(s) + Len(t) - a + 1
      /\ \A i \in 1 .. Len(s) + Len(t) - a + 1 : u[i] = j[a + i - 1]
  <2> HIDE DEF j
  <2> QED BY <1>1, PieceType
<1>3. /\ v \in Seq(S) /\ Len(v) = Len(s) - a + 1
      /\ \A i \in 1 .. Len(s) - a + 1 : v[i] = s[a + i - 1]
  BY PieceType
<1> HIDE DEF j, u, v
<1>4. /\ v \o t \in Seq(S) /\ Len(v \o t) = Len(v) + Len(t)
      /\ \A i \in 1 .. Len(v) : (v \o t)[i] = v[i]
      /\ \A i \in 1 .. Len(t) : (v \o t)[Len(v) + i] = t[i]
  <2>1. v \in Seq(S)
    BY <1>3
  <2> QED BY <2>1, Joined
<1>5. ASSUME NEW i \in 1 .. Len(u) PROVE u[i] = (v \o t)[i]
  <2>1. CASE i <= Len(v)
    <3>1. i \in 1 .. Len(s) - a + 1 /\ a + i - 1 \in 1 .. Len(s)
      BY <2>1, <1>3
    <3> QED BY <3>1, <2>1, <1>1, <1>2, <1>3, <1>4
  <2>2. CASE i > Len(v)
    <3> DEFINE k == i - Len(v)
    <3>1. k \in 1 .. Len(t) /\ i = Len(v) + k /\ a + i - 1 = Len(s) + k
      BY <2>2, <1>2, <1>3
    <3>2. u[i] = j[Len(s) + k]
      BY <3>1, <1>2
    <3>3. (v \o t)[i] = t[k]
      BY <3>1, <1>4
    <3> QED BY <3>1, <3>2, <3>3, <1>1
  <2>3. Len(v) \in Nat
    BY <1>3
  <2>4. Len(u) \in Nat
    BY <1>2
  <2>5. i <= Len(v) \/ i > Len(v)
    BY <2>3, <2>4
  <2> QED BY <2>1, <2>2, <2>5
<1>6. Len(u) = Len(v \o t)
  BY <1>2, <1>3, <1>4
<1>7. u = v \o t
  <2> DEFINE w == v \o t
  <2>1. w \in Seq(S) /\ Len(u) = Len(w) /\ \A i \in 1 .. Len(u) : u[i] = w[i]
    BY <1>4, <1>5, <1>6
  <2> HIDE DEF w
  <2> QED BY <2>1, <1>2, SameSeq DEF w
<1> QED BY <1>7 DEF u, v, j

LEMMA WholePiece ==
  ASSUME NEW S, NEW s \in Seq(S)
  PROVE  SubSeq(s, 1, Len(s)) = s
OBVIOUS

-----------------------------------------------------------------------------
(* FlattenSeq                                                              *)

FlatTurn(f, ss, i) == IF i = 1 THEN ss[i] ELSE f[i - 1] \o ss[i]

IsFlat(f, ss) == f = [i \in 1 .. Len(ss) |-> FlatTurn(f, ss, i)]

LEMMA FlatExists ==
  ASSUME NEW A, NEW b \in Seq(Seq(A))
  PROVE  \E f : IsFlat(f, b)
<1> DEFINE S == Seq(A)
           T == {n \in Nat : \E d \in Seq(S) : Len(d) = n /\ ~ \E f : IsFlat(f, d)}
<1> HIDE DEF S
<1>1. T = {}
  <2> SUFFICES ASSUME T # {} PROVE FALSE
    OBVIOUS
  <2>1. T \in SUBSET Nat
    OBVIOUS
  <2>2. PICK n \in T : \A l \in T : n <= l
    <3> HIDE DEF T
    <3> QED BY <2>1, LeastNat
  <2>3. n \in Nat
    OBVIOUS
  <2>4. PICK d \in Seq(S) : Len(d) = n /\ ~ \E f : IsFlat(f, d)
    OBVIOUS
  <2>5. CASE n = 0
    <3> DEFINE f == [k \in 1 .. Len(d) |-> d[k]]
    <3>1. \A k : ~ (k \in 1 .. Len(d))
      BY <2>4, <2>5
    <3>2. f = [k \in 1 .. Len(d) |-> FlatTurn(f, d, k)]
      <4> DEFINE F(k) == FlatTurn(f, d, k)
                 G(k) == d[k]
      <4>1. \A k \in 1 .. Len(d) : F(k) = G(k)
        BY <3>1, Zenon
      <4> HIDE DEF F, G
      <4>2. [k \in 1 .. Len(d) |-> F(k)] = [k \in 1 .. Len(d) |-> G(k)]
        BY <4>1, Zenon
      <4> QED BY <4>2, Zenon DEF F, G
    <3> HIDE DEF f
    <3>3. IsFlat(f, d)
      BY <3>2, Zenon DEF IsFlat
    <3> QED BY <3>3, <2>4
  <2>6. CASE n > 0
    <3> DEFINE t == SubSeq(d, 1, n - 1)
    <3>2. /\ t \in Seq(S) /\ Len(t) = n - 1
          /\ \A i \in 1 .. n - 1 : t[i] = d[i]
      BY <2>3, <2>4, <2>6
    <3>3. n - 1 \in Nat /\ ~ (n <= n - 1)
      BY <2>3, <2>6
    <3>4. PICK h : IsFlat(h, t)
      <4> HIDE DEF t
      <4> QED BY <2>2, <3>2, <3>3
    <3> DEFINE last == IF n = 1 THEN d[n] ELSE h[n - 1] \o d[n]
    <3> HIDE DEF last
    <3> DEFINE f == [k \in 1 .. n |-> IF k = n THEN last ELSE h[k]]
    <3>5. \A k \in 1 .. n - 1 : h[k] = FlatTurn(h, t, k)
      <4> HIDE DEF t
      <4> QED BY <3>2, <3>4 DEF IsFlat
    <3>6. f[n] = last /\ \A k \in 1 .. n - 1 : f[k] = h[k]
      BY <2>3, <2>6
    <3>7. f = [k \in 1 .. n |-> f[k]]
      OBVIOUS
    <3> HIDE DEF f, t
    <3>8. ASSUME NEW k \in 1 .. n
          PROVE  f[k] = FlatTurn(f, d, k)
      <4>1. CASE k = n
        <5>1. n # 1 => f[n - 1] = h[n - 1]
          BY <3>6, <2>3, <2>6
        <5> QED BY <4>1, <5>1, <3>6, Zenon DEF FlatTurn, last
      <4>2. CASE k # n
        <5>1. k \in 1 .. n - 1 /\ (k # 1 => k - 1 \in 1 .. n - 1)
          BY <4>2, <2>3
        <5>2. (k # 1 => f[k - 1] = h[k - 1]) /\ t[k] = d[k]
          BY <5>1, <3>2, <3>6
        <5>3. f[k] = h[k]
          BY <5>1, <3>6
        <5>4. h[k] = FlatTurn(h, t, k)
          BY <5>1, <3>5
        <5> QED BY <5>2, <5>3, <5>4, Zenon DEF FlatTurn
      <4> QED BY <4>1, <4>2
    <3>9. IsFlat(f, d)
      <4>1. n = Len(d)
        BY <2>4
      <4>2. f = [k \in 1 .. Len(d) |-> FlatTurn(f, d, k)]
        <5> DEFINE F(k) == FlatTurn(f, d, k)
        <5>1. \A k \in 1 .. n : f[k] = F(k)
          BY <3>8
        <5> HIDE DEF F
        <5>2. f = [k \in 1 .. n |-> F(k)]
          BY <3>7, <5>1
        <5> QED BY <4>1, <5>2 DEF F
      <4> QED BY <4>2, Zenon DEF IsFlat
    <3> QED BY <3>9, <2>4
  <2> QED BY <2>3, <2>5, <2>6
<1>2. Len(b) \in Nat /\ b \in Seq(S)
  BY DEF S
<1> QED
  BY <1>1, <1>2

LEMMA FlattenIs ==
  ASSUME NEW A, NEW b \in Seq(Seq(A)), Len(b) # 0
  PROVE  \E f : IsFlat(f, b) /\ FlattenSeq(b) = f[Len(b)]
<1> DEFINE Eq(f) == f = [i \in 1 .. Len(b) |-> IF i = 1 THEN b[i] ELSE f[i - 1] \o b[i]]
           c == CHOOSE f : Eq(f)
<1>1. FlattenSeq(b) = c[Len(b)]
  BY Zenon DEF FlattenSeq
<1>2. \A f : Eq(f) <=> IsFlat(f, b)
  BY Zenon DEF IsFlat, FlatTurn
<1>3. Eq(c)
  <2> HIDE DEF Eq
  <2> QED BY <1>2, FlatExists, Zenon
<1> HIDE DEF c, Eq
<1> QED
  BY <1>1, <1>2, <1>3

LEMMA FlatsAgree ==
  ASSUME NEW A, NEW b \in Seq(Seq(A)), NEW d \in Seq(Seq(A)), NEW f, NEW g,
         IsFlat(f, b), IsFlat(g, d), Len(b) <= Len(d),
         \A i \in 1 .. Len(b) : b[i] = d[i]
  PROVE  \A k \in 1 .. Len(b) : f[k] = g[k] /\ f[k] \in Seq(A)
<1> DEFINE Good(k) == f[k] = g[k] /\ f[k] \in Seq(A)
           T == {k \in 1 .. Len(b) : ~ Good(k)}
<1>0. Len(b) \in Nat /\ Len(d) \in Nat
  OBVIOUS
<1>1. T = {}
  <2> SUFFICES ASSUME T # {} PROVE FALSE
    OBVIOUS
  <2>1. T \in SUBSET Nat
    BY <1>0
  <2>2. PICK k \in T : \A l \in T : k <= l
    <3> HIDE DEF T
    <3> QED BY <2>1, LeastNat
  <2>3. k \in 1 .. Len(b) /\ k \in 1 .. Len(d) /\ ~ Good(k)
    BY <1>0
  <2>4. f[k] = FlatTurn(f, b, k)
    BY <2>3 DEF IsFlat
  <2>5. g[k] = FlatTurn(g, d, k)
    BY <2>3 DEF IsFlat
  <2>a. b[k] = d[k] /\ b[k] \in Seq(A)
    <3> DEFINE S == Seq(A)
    <3> HIDE DEF S
    <3>1. b \in Seq(S)
      BY DEF S
    <3>2. b[k] \in S
      BY <2>3, <3>1
    <3> QED BY <2>3, <3>2 DEF S
  <2>6. CASE k = 1
    <3>1. f[k] = b[k] /\ g[k] = d[k]
      BY <2>4, <2>5, <2>6, Zenon DEF FlatTurn
    <3> QED BY <2>3, <2>a, <3>1
  <2>7. CASE k # 1
    <3>1. k - 1 \in 1 .. Len(b) /\ ~ (k <= k - 1)
      BY <1>0, <2>3, <2>7
    <3>2. Good(k - 1)
      <4>1. k - 1 \notin T
        <5> HIDE DEF T
        <5> QED BY <2>2, <3>1
      <4> QED BY <4>1, <3>1
    <3>3. f[k] = f[k - 1] \o b[k] /\ g[k] = g[k - 1] \o d[k]
      BY <2>4, <2>5, <2>7, Zenon DEF FlatTurn
    <3>4. f[k] = g[k]
      BY <2>a, <3>2, <3>3, Zenon
    <3>5. f[k - 1] \o b[k] \in Seq(A)
      <4> DEFINE x == f[k - 1]
                 y == b[k]
      <4>1. x \in Seq(A) /\ y \in Seq(A)
        BY <2>a, <3>2
      <4> HIDE DEF x, y
      <4>2. x \o y \in Seq(A)
        BY <4>1
      <4> QED BY <4>2 DEF x, y
    <3> QED BY <2>3, <3>3, <3>4, <3>5, Zenon
  <2> QED BY <2>6, <2>7
<1> QED
  BY <1>1

LEMMA FlattenType ==
  ASSUME NEW A, NEW b \in Seq(Seq(A))
  PROVE  FlattenSeq(b) \in Seq(A)
<1>1. CASE Len(b) = 0
  <2>1. FlattenSeq(b) = b
    BY <1>1, Zenon DEF FlattenSeq
  <2>2. b = <<>>
    BY <1>1
  <2> QED BY <2>1, <2>2
<1>2. CASE Len(b) # 0
  <2>1. PICK f : IsFlat(f, b) /\ FlattenSeq(b) = f[Len(b)]
    BY <1>2, FlattenIs
  <2>2. Len(b) \in 1 .. Len(b) /\ Len(b) <= Len(b)
    BY <1>2
  <2>3. f[Len(b)] \in Seq(A)
    BY <2>1, <2>2, FlatsAgree
  <2> QED BY <2>1, <2>3
<1> QED
  BY <1>1, <1>2

LEMMA FlattenAppend ==
  ASSUME NEW A, NEW b \in Seq(Seq(A)), NEW x \in Seq(A)
  PROVE  FlattenSeq(Append(b, x)) = FlattenSeq(b) \o x
<1> DEFINE S == Seq(A)
           d == Append(b, x)
           n == Len(b)
<1>1. /\ d \in Seq(S) /\ Len(d) = n + 1 /\ d[n + 1] = x /\ n \in Nat /\ n = Len(b)
      /\ \A i \in 1 .. n : b[i] = d[i]
  <2> HIDE DEF S
  <2>1. b \in Seq(S) /\ x \in S
    BY DEF S
  <2> QED BY <2>1
<1> HIDE DEF d, n
<1>2. Len(d) # 0 /\ n + 1 \in 1 .. Len(d)
  BY <1>1
<1>3. PICK g : IsFlat(g, d) /\ FlattenSeq(d) = g[n + 1]
  BY <1>1, <1>2, FlattenIs
<1>4. g[n + 1] = FlatTurn(g, d, n + 1)
  BY <1>2, <1>3 DEF IsFlat
<1>5. CASE n = 0
  <2>1. b = <<>>
    <3>1. Len(b) = 0
      BY <1>1, <1>5
    <3> QED BY <3>1
  <2>2. FlattenSeq(b) = b
    BY <1>1, <1>5, Zenon DEF FlattenSeq
  <2>3. g[n + 1] = x
    <3>1. n + 1 = 1
      BY <1>5
    <3> QED BY <1>1, <1>4, <3>1, Zenon DEF FlatTurn
  <2>4. <<>> \o x = x
    OBVIOUS
  <2> QED BY <1>3, <2>1, <2>2, <2>3, <2>4 DEF d
<1>6. CASE n # 0
  <2>1. PICK f : IsFlat(f, b) /\ FlattenSeq(b) = f[n]
    BY <1>1, <1>6, FlattenIs
  <2>2. n \in 1 .. Len(b) /\ Len(b) <= Len(d)
    BY <1>1, <1>6
  <2>3. f[n] = g[n]
    <3>1. d \in Seq(Seq(A)) /\ \A i \in 1 .. Len(b) : b[i] = d[i]
      BY <1>1, Zenon
    <3>2. \A k \in 1 .. Len(b) : f[k] = g[k] /\ f[k] \in Seq(A)
      BY <1>3, <2>1, <2>2, <3>1, FlatsAgree, Zenon
    <3> QED BY <2>2, <3>2
  <2>4. n + 1 # 1 /\ (n + 1) - 1 = n
    BY <1>1, <1>6
  <2>5. g[n + 1] = g[n] \o x
    BY <1>1, <1>4, <2>4, Zenon DEF FlatTurn
  <2> QED BY <1>3, <2>1, <2>3, <2>5, Zenon DEF d
<1> QED
  BY <1>5, <1>6
=============================================================================
