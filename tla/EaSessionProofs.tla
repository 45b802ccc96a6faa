-------------------------- MODULE EaSessionProofs ---------------------------
(***************************************************************************)
(* EaInOrder, OutgoingTransferId and SessionsAreOpened.                    *)
(*                                                                         *)
(* For a device that sends the data of a session on the link session with  *)
(* its id (~ shared), by EaInv: the device is ahead of the task by the      *)
(* messages on their way.  A view is what they tell of the sessions; they  *)
(* lead from the view the task has to that of the device, and the task's   *)
(* tables agree with its own view.                                         *)
(*                                                                         *)
(* For a device that sends the data of all sessions on the one link        *)
(* session it declared, SessionsAreOpened follows from SharedInv.  That    *)
(* there are at most twice as many EaSessions as sessions the application  *)
(* was told of is CountInv, for both kinds of device.                      *)
(***************************************************************************)
EXTENDS ConnectionProofs, FiniteSetTheorems

(* Of each session id the last session opened and whether it is open; how  *)
(* many sessions there were, and how much data was sent on each.           *)
Views ==
  [last : [Sids -> Nat], open : [Sids -> BOOLEAN], top : Nat, data : [Nat -> Nat]]

DeviceView ==
  [last |-> [s \in Sids |-> session[s].n],
   open |-> [s \in Sids |-> session[s].open],
   top |-> Len(sent),
   data |-> [n \in Nat |-> IF n \in 1 .. Len(sent) THEN sent[n] ELSE 0]]

(* What a message tells. *)
Opens(v, m, w) ==
  /\ m.kind = "EaStart"
  /\ m.arg.sid \in Sids /\ ~ v.open[m.arg.sid] /\ m.arg.n = v.top + 1
  /\ w.last = [v.last EXCEPT ![m.arg.sid] = m.arg.n]
  /\ w.open = [v.open EXCEPT ![m.arg.sid] = TRUE]
  /\ w.top = m.arg.n /\ w.data = v.data

Carries(v, m, w) ==
  /\ m.kind = "EaData"
  /\ m.arg.sid \in Sids /\ v.open[m.arg.sid] /\ m.arg.n = v.last[m.arg.sid]
  /\ m.arg.i = v.data[m.arg.n] + 1
  /\ w.last = v.last /\ w.open = v.open /\ w.top = v.top
  /\ w.data = [v.data EXCEPT ![m.arg.n] = @ + 1]

Closes(v, m, w) ==
  /\ m.kind = "EaStop"
  /\ m.arg.sid \in Sids /\ v.open[m.arg.sid]
  /\ w.last = v.last /\ w.top = v.top /\ w.data = v.data
  /\ w.open = [v.open EXCEPT ![m.arg.sid] = FALSE]

Moves(v, m, w) ==
  \/ Opens(v, m, w) \/ Carries(v, m, w) \/ Closes(v, m, w)
  \/ m.kind \notin {"EaStart", "EaData", "EaStop"} /\ w = v

(* Sessions are numbered in the order they are opened. *)
Valid(v) ==
  /\ \A s \in Sids : v.last[s] <= v.top
  /\ \A s, t \in Sids : v.last[s] = v.last[t] /\ v.last[s] # 0 => s = t
  /\ \A s \in Sids : v.open[s] => v.last[s] # 0
  /\ \A n \in Nat : n > v.top => v.data[n] = 0

Stops(m, s) == m.kind = "EaStop" /\ m.arg.sid = s

(* The view v before message i + 1, seen from b, the one after the last. *)
Behind(v, from, i, b) ==
  /\ Valid(v) /\ v.top <= b.top
  /\ \A s \in Sids :
       /\ b.last[s] <= v.top => v.last[s] = b.last[s]
       /\ v.last[s] = b.last[s]
            /\ (b.open[s] \/ \E j \in i + 1 .. Len(from) : Stops(from[j], s))
          => v.open[s]

Follows(st, from, a, b) ==
  /\ st[0] = a /\ st[Len(from)] = b
  /\ \A i \in 1 .. Len(from) : Moves(st[i - 1], from[i], st[i])
  /\ \A i \in 0 .. Len(from) : Behind(st[i], from, i, b)

Leads(from, a, b) ==
  \E st \in [0 .. Len(from) -> Views] : Follows(st, from, a, b)

OnWay(from, n) ==
  {i \in 1 .. Len(from) : from[i].kind = "EaData" /\ from[i].arg.n = n}

(* The data of a session is with the task or on its way. *)
Conserved(from, a, b) ==
  \A n \in Nat : a.data[n] + Cardinality(OnWay(from, n)) = b.data[n]

-----------------------------------------------------------------------------
(* The task's tables, and its view                                         *)

Held(s) == channels[s] \in 1 .. Len(handles)

(* A channel is that of the session that is open. *)
ChannelsFit(v) ==
  /\ \A s \in LinkSids : Held(s) =>
       /\ s \in Sids /\ v.open[s]
       /\ handles[channels[s]].sid = s /\ handles[channels[s]].n = v.last[s]
  /\ Alive => \A s \in LinkSids : channels[s] <= Len(handles)

TransferIdsFit(v) ==
  \A s \in LinkSids : transferIds[s] # 0 =>
    s \in Sids /\ v.open[s] /\ transferIds[s] = v.last[s]

Newest(g, s) == \A h \in 1 .. Len(handles) : h > g => handles[h].sid # s

(* A handle the application keeps of the session that is open is in its    *)
(* channel, and the newest one of a session that is open is of that        *)
(* session; a handle is in the place of one that was dropped.              *)
HandlesFit(v) ==
  /\ \A h \in 1 .. Len(handles) :
       /\ handles[h].n \in 1 .. v.top /\ handles[h].sid \in Sids
       /\ \A s \in Sids : handles[h].n = v.last[s] =>
            /\ handles[h].sid = s
            /\ v.open[s] /\ handles[h].open => channels[s] = h
  /\ Alive => \A s \in Sids : v.open[s] =>
       \E g \in 1 .. Len(handles) : Newest(g, s) /\ handles[g].n = v.last[s]
  /\ \A g, h \in 1 .. Len(handles) :
       g < h /\ handles[g].n = handles[h].n => ~ handles[g].open

First(h) == \A g \in 1 .. h - 1 : handles[g].n # handles[h].n

(* The data of a handle hd is without a gap; what the task has read last   *)
(* is there, if it is in the channel, and all, if hd is the first.         *)
DataInOrder(v, hd) ==
  /\ \A i \in 1 .. Len(hd.got) :
       hd.got[i] = [n |-> hd.n, i |-> hd.got[1].i + i - 1] /\ hd.got[i].i <= v.data[hd.n]
  /\ ~ IsEaData(hd.sid) => hd.got = <<>>

LastRead(v, hd) ==
  hd.got # <<>> => hd.got[Len(hd.got)].i = v.data[hd.n]

AllRead(v, hd) ==
  hd.open /\ v.open[hd.sid] /\ v.last[hd.sid] = hd.n /\ IsEaData(hd.sid) =>
    Len(hd.got) = v.data[hd.n]

DataFits(v) ==
  \A h \in 1 .. Len(handles) :
    /\ DataInOrder(v, handles[h])
    /\ channels[handles[h].sid] = h => LastRead(v, handles[h])
    /\ First(h) => AllRead(v, handles[h])

(* Every session that was opened was told. *)
Opened == Cardinality(Positions("EaSessionStarted"))

OpenedAreTold(v) ==
  /\ \A h \in 1 .. Len(handles) : handles[h].n <= Opened
  /\ Alive => v.top = Opened

TaskAt(v) ==
  /\ ChannelsFit(v) /\ TransferIdsFit(v) /\ HandlesFit(v) /\ DataFits(v)
  /\ OpenedAreTold(v)

Ahead(from, a, b) == Leads(from, a, b) /\ Conserved(from, a, b)

EaInv == \E v \in Views : Ahead(fromDev, v, DeviceView) /\ TaskAt(v)

-----------------------------------------------------------------------------
(* A message is taken by the task, or sent by the device                   *)

LEMMA MovesValid ==
  ASSUME NEW v \in Views, NEW w \in Views, NEW m \in DevMessages, Valid(v), Moves(v, m, w)
  PROVE  Valid(w) /\ v.top <= w.top
<1>1. CASE Opens(v, m, w)
  <2> DEFINE s == m.arg.sid
             n == v.top + 1
  <2>1. /\ s \in Sids /\ n \in Nat /\ w.last = [v.last EXCEPT ![s] = n]
        /\ w.open = [v.open EXCEPT ![s] = TRUE]
        /\ w.top = n /\ w.data = v.data
    BY <1>1 DEF Opens, Views
  <2> HIDE DEF s
  <2>2. /\ \A t \in Sids : w.last[t] = IF t = s THEN n ELSE v.last[t]
        /\ \A t \in Sids : w.open[t] = IF t = s THEN TRUE ELSE v.open[t]
        /\ \A t \in Sids : v.last[t] \in Nat /\ v.last[t] <= v.top
    BY <2>1 DEF Views, Valid
  <2> QED
    BY <2>1, <2>2 DEF Views, Valid
<1>2. CASE Carries(v, m, w)
  <2> DEFINE s == m.arg.sid
             n == m.arg.n
  <2>1. /\ s \in Sids /\ n = v.last[s]
        /\ w.last = v.last /\ w.open = v.open /\ w.top = v.top
        /\ w.data = [v.data EXCEPT ![n] = @ + 1]
    BY <1>2 DEF Carries
  <2> HIDE DEF s, n
  <2>2. /\ n \in Nat /\ n <= v.top /\ v.top \in Nat /\ v.data \in [Nat -> Nat]
    BY <2>1 DEF Views, Valid
  <2>3. \A k \in Nat : k # n => w.data[k] = v.data[k]
    BY <2>1, <2>2
  <2>4. \A k \in Nat : k > w.top => w.data[k] = 0
    BY <2>1, <2>2, <2>3 DEF Valid
  <2>5. /\ \A t \in Sids : w.last[t] <= w.top
        /\ \A t, u \in Sids : w.last[t] = w.last[u] /\ w.last[t] # 0 => t = u
        /\ \A t \in Sids : w.open[t] => w.last[t] # 0
    BY <2>1 DEF Valid
  <2> QED
    BY <2>1, <2>2, <2>4, <2>5 DEF Valid
<1>3. CASE Closes(v, m, w)
  BY <1>3 DEF Closes, Views, Valid
<1>4. CASE w = v
  BY <1>4 DEF Views
<1> QED
  BY <1>1, <1>2, <1>3, <1>4 DEF Moves

LEMMA LeadsTaken ==
  ASSUME NEW from \in Seq(DevMessages), from # <<>>, NEW a \in Views, NEW b \in Views,
         Leads(from, a, b)
  PROVE  /\ Behind(a, from, 0, b)
         /\ \E c \in Views : Moves(a, from[1], c) /\ Leads(Tail(from), c, b)
<1>1. PICK st \in [0 .. Len(from) -> Views] : Follows(st, from, a, b)
  BY DEF Leads
<1> DEFINE to == Tail(from)
           k == Len(to)
           sh == [i \in 0 .. k |-> st[i + 1]]
<1>2. /\ k \in Nat /\ Len(from) = k + 1
      /\ \A i \in 1 .. k : to[i] = from[i + 1] /\ i + 1 \in 1 .. Len(from)
      /\ 0 \in 0 .. Len(from) /\ 1 \in 1 .. Len(from) /\ 1 \in 0 .. Len(from)
      /\ \A i \in 0 .. k : i + 1 \in 0 .. Len(from)
  OBVIOUS
<1>3. \A i \in 0 .. k : sh[i] = st[i + 1]
  OBVIOUS
<1>4. sh \in [0 .. k -> Views]
  BY <1>2
<1> HIDE DEF sh, to, k
<1>5. Behind(a, from, 0, b) /\ Moves(a, from[1], st[1])
  <2>1. st[1 - 1] = st[0]
    OBVIOUS
  <2> QED
    BY <1>1, <1>2, <2>1 DEF Follows
<1>6. sh[0] = st[1] /\ sh[k] = b
  <2>1. 0 \in 0 .. k /\ k \in 0 .. k /\ 0 + 1 = 1
    BY <1>2
  <2> QED
    BY <1>1, <1>2, <1>3, <2>1 DEF Follows
<1>7. ASSUME NEW i \in 1 .. k PROVE Moves(sh[i - 1], to[i], sh[i])
  <2>1. /\ i \in 0 .. k /\ i - 1 \in 0 .. k /\ (i - 1) + 1 = (i + 1) - 1
        /\ i + 1 \in 1 .. Len(from) /\ to[i] = from[i + 1]
    BY <1>2
  <2> QED
    BY <1>1, <1>3, <2>1 DEF Follows
<1>8. ASSUME NEW i \in 0 .. k PROVE Behind(sh[i], to, i, b)
  <2>1. sh[i] = st[i + 1] /\ Behind(st[i + 1], from, i + 1, b)
    BY <1>1, <1>2, <1>3 DEF Follows
  <2>2. ASSUME NEW s \in Sids, NEW j \in i + 1 .. k, Stops(to[j], s)
        PROVE  \E l \in (i + 1) + 1 .. Len(from) : Stops(from[l], s)
    <3>1. j + 1 \in (i + 1) + 1 .. Len(from) /\ to[j] = from[j + 1]
      BY <1>2
    <3> QED
      BY <2>2, <3>1
  <2>3. k = Len(to)
    BY DEF k
  <2> QED
    BY <2>1, <2>2, <2>3 DEF Behind
<1>9. Leads(to, st[1], b)
  <2>1. k = Len(to)
    BY DEF k
  <2> QED
    BY <1>4, <1>6, <1>7, <1>8, <2>1 DEF Leads, Follows
<1> QED
  BY <1>1, <1>2, <1>5, <1>9 DEF to

LEMMA LeadsSent ==
  ASSUME NEW from \in Seq(DevMessages), NEW a \in Views, NEW b \in Views, Leads(from, a, b),
         NEW m \in DevMessages, NEW c \in Views, Moves(b, m, c)
  PROVE  Leads(Append(from, m), a, c)
<1>1. PICK st \in [0 .. Len(from) -> Views] : Follows(st, from, a, b)
  BY DEF Leads
<1> DEFINE to == Append(from, m)
           k == Len(from)
           ext == [i \in 0 .. k + 1 |-> IF i = k + 1 THEN c ELSE st[i]]
<1>2. /\ k \in Nat /\ Len(to) = k + 1 /\ to[k + 1] = m
      /\ \A i \in 1 .. k : to[i] = from[i]
  OBVIOUS
<1>3. /\ \A i \in 0 .. k : ext[i] = st[i]
      /\ ext[k + 1] = c /\ ext \in [0 .. k + 1 -> Views]
  BY <1>2
<1>4. k = Len(from)
  OBVIOUS
<1> HIDE DEF ext, to, k
<1>5. ext[0] = a /\ ext[k] = b /\ k \in 0 .. k
  <2>1. 0 \in 0 .. k /\ k \in 0 .. k
    BY <1>2
  <2> QED
    BY <1>1, <1>3, <1>4, <2>1 DEF Follows
<1>6. ASSUME NEW i \in 1 .. k + 1 PROVE Moves(ext[i - 1], to[i], ext[i])
  <2>1. CASE i \in 1 .. k
    <3>1. i \in 0 .. k /\ i - 1 \in 0 .. k /\ to[i] = from[i]
      BY <1>2, <2>1
    <3> QED
      BY <1>1, <1>3, <1>4, <2>1, <3>1 DEF Follows
  <2>2. CASE i = k + 1
    <3>1. i - 1 = k
      BY <1>2, <2>2
    <3> QED
      BY <1>2, <1>3, <1>5, <2>2, <3>1
  <2>3. i \in 1 .. k \/ i = k + 1
    BY <1>2
  <2> QED
    BY <2>1, <2>2, <2>3
<1>7. Valid(b) /\ Valid(c) /\ b.top <= c.top
  <2>1. Valid(b)
    BY <1>1, <1>3, <1>4, <1>5 DEF Follows, Behind
  <2> QED
    BY <2>1, MovesValid
<1>8. ASSUME NEW i \in 0 .. k PROVE Behind(ext[i], to, i, c)
  <2> DEFINE v == ext[i]
  <2>1. v \in Views /\ Behind(v, from, i, b)
    BY <1>1, <1>3, <1>4 DEF Follows
  <2> HIDE DEF v
  <2>2. Valid(v) /\ v.top <= b.top /\ v.top <= c.top
    BY <1>7, <2>1 DEF Behind, Views
  <2>3. ASSUME NEW s \in Sids
        PROVE  /\ c.last[s] <= v.top => v.last[s] = c.last[s]
               /\ v.last[s] = c.last[s]
                    /\ (c.open[s] \/ \E j \in i + 1 .. k + 1 : Stops(to[j], s))
                  => v.open[s]
    <3>1. /\ b.last[s] <= v.top => v.last[s] = b.last[s]
          /\ v.last[s] = b.last[s] /\ b.open[s] => v.open[s]
          /\ v.last[s] = b.last[s] /\ (\E j \in i + 1 .. k : Stops(from[j], s)) => v.open[s]
      BY <1>4, <2>1 DEF Behind
    <3>2. (\E j \in i + 1 .. k + 1 : Stops(to[j], s)) =>
            (\E j \in i + 1 .. k : Stops(from[j], s)) \/ Stops(m, s)
      <4>1. ASSUME NEW j \in i + 1 .. k + 1 PROVE (j \in i + 1 .. k /\ to[j] = from[j]) \/ j = k + 1
        BY <1>2
      <4> QED
        BY <1>2, <4>1
    <3>3. v.last[s] \in Nat /\ v.last[s] <= v.top
      BY <2>1, <2>2 DEF Views, Valid
    <3>4. CASE Opens(b, m, c)
      <4>1. ~ Stops(m, s)
        BY <3>4 DEF Opens, Stops
      <4>2. CASE m.arg.sid = s
        <5>1. c.last[s] = b.top + 1 /\ b.top \in Nat /\ v.top \in Nat
          BY <2>1, <3>4, <4>2 DEF Opens, Views
        <5> QED
          BY <2>2, <3>3, <5>1
      <4>3. CASE m.arg.sid # s
        <5>1. c.last[s] = b.last[s] /\ c.open[s] = b.open[s]
          BY <3>4, <4>3 DEF Opens, Views
        <5> QED
          BY <3>1, <3>2, <4>1, <5>1
      <4> QED
        BY <4>2, <4>3
    <3>5. CASE Closes(b, m, c)
      <4>1. c.last[s] = b.last[s] /\ (c.open[s] => b.open[s]) /\ (Stops(m, s) => b.open[s])
        BY <3>5 DEF Closes, Views, Stops
      <4> QED
        BY <3>1, <3>2, <4>1
    <3>6. CASE Carries(b, m, c) \/ (m.kind \notin {"EaStart", "EaData", "EaStop"} /\ c = b)
      <4>1. c.last[s] = b.last[s] /\ c.open[s] = b.open[s] /\ ~ Stops(m, s)
        BY <3>6 DEF Carries, Stops
      <4> QED
        BY <3>1, <3>2, <4>1
    <3> QED
      BY <3>4, <3>5, <3>6 DEF Moves
  <2> QED
    BY <1>2, <2>2, <2>3 DEF Behind, v
<1>9. Behind(c, to, k + 1, c)
  <2>1. Len(to) = k + 1 /\ \A j \in (k + 1) + 1 .. k + 1 : FALSE
    BY <1>2
  <2>2. c.top <= c.top
    BY DEF Views
  <2> QED
    BY <1>7, <2>1, <2>2 DEF Behind
<1>10. ASSUME NEW i \in 0 .. k + 1 PROVE Behind(ext[i], to, i, c)
  <2>1. i \in 0 .. k \/ i = k + 1
    BY <1>2
  <2> QED
    BY <1>3, <1>8, <1>9, <2>1
<1>11. Leads(to, a, c)
  BY <1>2, <1>3, <1>5, <1>6, <1>10 DEF Leads, Follows
<1> QED
  BY <1>11 DEF to

(* The data on its way *)

CarriesOf(m, n) == m.kind = "EaData" /\ m.arg.n = n

LEMMA OnWayFinite ==
  ASSUME NEW from \in Seq(DevMessages), NEW n
  PROVE  IsFiniteSet(OnWay(from, n)) /\ Cardinality(OnWay(from, n)) \in Nat
<1>1. IsFiniteSet(1 .. Len(from)) /\ OnWay(from, n) \subseteq 1 .. Len(from)
  BY FS_Interval DEF OnWay
<1> QED
  BY <1>1, FS_Subset, FS_CardinalityType

LEMMA OnWayTaken ==
  ASSUME NEW from \in Seq(DevMessages), from # <<>>, NEW n
  PROVE  Cardinality(OnWay(from, n)) =
           Cardinality(OnWay(Tail(from), n)) + (IF CarriesOf(from[1], n) THEN 1 ELSE 0)
<1> DEFINE to == Tail(from)
           k == Len(to)
           S == OnWay(to, n)
           R == OnWay(from, n) \ {1}
           f == [i \in S |-> i + 1]
<1>1. /\ k \in Nat /\ Len(from) = k + 1 /\ to \in Seq(DevMessages)
      /\ \A i \in 1 .. k : to[i] = from[i + 1]
  OBVIOUS
<1>2. k = Len(to)
  OBVIOUS
<1> HIDE DEF to, k
<1>3. f \in Bijection(S, R)
  <2>1. \A i \in S : i \in Nat /\ i + 1 \in R
    BY <1>1, <1>2 DEF OnWay
  <2>2. \A j \in R : j - 1 \in S /\ (j - 1) + 1 = j
    <3> SUFFICES ASSUME NEW j \in R PROVE j - 1 \in S /\ (j - 1) + 1 = j
      OBVIOUS
    <3>1. j \in 1 .. k + 1 /\ j # 1 /\ from[j].kind = "EaData" /\ from[j].arg.n = n
      BY <1>1 DEF OnWay
    <3>2. j - 1 \in 1 .. k /\ (j - 1) + 1 = j
      BY <1>1, <3>1
    <3> QED
      BY <1>1, <1>2, <3>1, <3>2 DEF OnWay
  <2> HIDE DEF S, R
  <2>3. f \in [S -> R]
    BY <2>1
  <2>4. \A i, j \in S : f[i] = f[j] => i = j
    BY <2>1
  <2>5. \A j \in R : \E i \in S : f[i] = j
    BY <2>2
  <2> QED
    BY <2>3, <2>4, <2>5 DEF Bijection, Injection, Surjection, IsInjective
<1>4. IsFiniteSet(S) /\ IsFiniteSet(OnWay(from, n)) /\ Cardinality(S) \in Nat
  BY <1>1, OnWayFinite
<1>5. Cardinality(R) = Cardinality(S)
  BY <1>3, <1>4, FS_Bijection DEF ExistsBijection
<1>6. Cardinality(R) = IF 1 \in OnWay(from, n)
                       THEN Cardinality(OnWay(from, n)) - 1 ELSE Cardinality(OnWay(from, n))
  BY <1>4, FS_RemoveElement
<1>7. 1 \in OnWay(from, n) <=> CarriesOf(from[1], n)
  BY <1>1 DEF OnWay, CarriesOf
<1>8. Cardinality(OnWay(from, n)) \in Nat /\ S = OnWay(Tail(from), n)
  BY OnWayFinite DEF to
<1>9. Cardinality(OnWay(Tail(from), n)) \in Nat /\ Cardinality(OnWay(from, n)) \in Nat
  BY <1>4, <1>8
<1>10. Cardinality(OnWay(Tail(from), n)) =
         IF CarriesOf(from[1], n) THEN Cardinality(OnWay(from, n)) - 1
         ELSE Cardinality(OnWay(from, n))
  <2> HIDE DEF S, R
  <2> QED
    BY <1>5, <1>6, <1>7, <1>8
<1> QED
  BY <1>9, <1>10

LEMMA OnWaySent ==
  ASSUME NEW from \in Seq(DevMessages), NEW m \in DevMessages, NEW n
  PROVE  Cardinality(OnWay(Append(from, m), n)) =
           Cardinality(OnWay(from, n)) + (IF CarriesOf(m, n) THEN 1 ELSE 0)
<1> DEFINE to == Append(from, m)
           k == Len(from)
<1>1. /\ k \in Nat /\ Len(to) = k + 1 /\ to[k + 1] = m
      /\ \A i \in 1 .. k : to[i] = from[i]
  OBVIOUS
<1>a. k = Len(from)
  OBVIOUS
<1> HIDE DEF to, k
<1>2. k + 1 \notin OnWay(from, n)
  BY <1>1, <1>a DEF OnWay
<1>b. \A i : i \in 1 .. k + 1 <=> i \in 1 .. k \/ i = k + 1
  BY <1>1
<1>3. OnWay(to, n) = IF CarriesOf(m, n) THEN OnWay(from, n) \cup {k + 1} ELSE OnWay(from, n)
  BY <1>1, <1>a, <1>b DEF OnWay, CarriesOf
<1>4. IsFiniteSet(OnWay(from, n)) /\ Cardinality(OnWay(from, n)) \in Nat
  BY OnWayFinite
<1>5. Cardinality(OnWay(from, n) \cup {k + 1}) = Cardinality(OnWay(from, n)) + 1
  BY <1>2, <1>4, FS_AddElement
<1> QED
  BY <1>3, <1>4, <1>5 DEF to

LEMMA MovesData ==
  ASSUME NEW v \in Views, NEW m \in DevMessages, NEW w \in Views, Moves(v, m, w), NEW n \in Nat
  PROVE  w.data[n] = v.data[n] + (IF CarriesOf(m, n) THEN 1 ELSE 0)
<1>0. v.data[n] \in Nat
  BY DEF Views
<1>1. CASE Carries(v, m, w)
  <2>1. m.arg.n \in Nat
    BY <1>1, ArgTypes DEF Carries
  <2> QED
    BY <1>0, <1>1, <2>1 DEF Carries, CarriesOf, Views
<1>2. CASE w.data = v.data /\ m.kind # "EaData"
  BY <1>0, <1>2 DEF CarriesOf
<1> QED
  BY <1>1, <1>2 DEF Moves, Opens, Closes

LEMMA AheadTaken ==
  ASSUME NEW from \in Seq(DevMessages), from # <<>>, NEW a \in Views, NEW b \in Views,
         Ahead(from, a, b)
  PROVE  \E c \in Views : Moves(a, from[1], c) /\ Ahead(Tail(from), c, b)
<1>1. PICK c \in Views : Moves(a, from[1], c) /\ Leads(Tail(from), c, b)
  BY LeadsTaken DEF Ahead
<1>2. from[1] \in DevMessages /\ Tail(from) \in Seq(DevMessages)
  OBVIOUS
<1>3. ASSUME NEW n \in Nat
      PROVE  c.data[n] + Cardinality(OnWay(Tail(from), n)) = b.data[n]
  <2>1. a.data[n] + Cardinality(OnWay(from, n)) = b.data[n]
    BY DEF Ahead, Conserved
  <2>2. Cardinality(OnWay(Tail(from), n)) \in Nat /\ a.data[n] \in Nat
    BY <1>2, OnWayFinite DEF Views
  <2>3. c.data[n] = a.data[n] + (IF CarriesOf(from[1], n) THEN 1 ELSE 0)
    BY <1>1, <1>2, MovesData
  <2>4. Cardinality(OnWay(from, n)) =
          Cardinality(OnWay(Tail(from), n)) + (IF CarriesOf(from[1], n) THEN 1 ELSE 0)
    BY OnWayTaken
  <2> QED
    BY <2>1, <2>2, <2>3, <2>4
<1> QED
  BY <1>1, <1>3 DEF Ahead, Conserved

LEMMA AheadSent ==
  ASSUME NEW from \in Seq(DevMessages), NEW a \in Views, NEW b \in Views, Ahead(from, a, b),
         NEW m \in DevMessages, NEW c \in Views, Moves(b, m, c)
  PROVE  Ahead(Append(from, m), a, c)
<1>1. Leads(Append(from, m), a, c)
  BY LeadsSent DEF Ahead
<1>2. ASSUME NEW n \in Nat
      PROVE  a.data[n] + Cardinality(OnWay(Append(from, m), n)) = c.data[n]
  <2>1. a.data[n] + Cardinality(OnWay(from, n)) = b.data[n]
    BY DEF Ahead, Conserved
  <2>2. Cardinality(OnWay(from, n)) \in Nat /\ a.data[n] \in Nat
    BY OnWayFinite DEF Views
  <2> QED
    BY <2>1, <2>2, MovesData, OnWaySent
<1> QED
  BY <1>1, <1>2 DEF Ahead, Conserved

(* A message that tells nothing of sessions is dropped. *)
LEMMA LeadsWithout ==
  ASSUME NEW from \in Seq(DevMessages), NEW to \in Seq(DevMessages), NEW k \in 1 .. Len(from),
         Shorter(to, from, k), from[k].kind \notin {"EaStart", "EaData", "EaStop"},
         NEW a \in Views, NEW b \in Views, Leads(from, a, b)
  PROVE  Leads(to, a, b)
<1>1. PICK st \in [0 .. Len(from) -> Views] : Follows(st, from, a, b)
  BY DEF Leads
<1> DEFINE n == Len(to)
           rest == [i \in 0 .. n |-> st[Kept(k, i)]]
<1>2. /\ n \in Nat /\ Len(from) = n + 1 /\ k \in 1 .. n + 1 /\ n = Len(to)
      /\ \A i \in 1 .. n : to[i] = from[Kept(k, i)]
  BY DEF Shorter
<1> HIDE DEF n
<1>3. /\ \A i \in 0 .. n : Kept(k, i) \in 0 .. n + 1
      /\ \A i \in 0 .. n, j \in 1 .. n : i + 1 <= j =>
           Kept(k, j) \in Kept(k, i) + 1 .. n + 1
  BY <1>2 DEF Kept
<1>4. /\ rest \in [0 .. n -> Views]
      /\ \A i \in 0 .. n : rest[i] = st[Kept(k, i)]
  BY <1>2, <1>3
<1> HIDE DEF rest
<1>5. st[k - 1] = st[k]
  <2>1. Moves(st[k - 1], from[k], st[k])
    BY <1>1 DEF Follows
  <2> QED
    BY <2>1 DEF Moves, Opens, Carries, Closes
<1>6. rest[0] = a /\ rest[n] = b
  <2>1. 0 \in 0 .. n /\ n \in 0 .. n /\ Kept(k, 0) = 0
    BY <1>2 DEF Kept
  <2>2. rest[0] = a
    BY <1>1, <1>4, <2>1 DEF Follows
  <2>3. st[Kept(k, n)] = st[n + 1]
    <3>1. CASE k = n + 1
      <4>1. Kept(k, n) = k - 1
        BY <1>2, <3>1 DEF Kept
      <4> QED
        BY <1>5, <3>1, <4>1
    <3>2. CASE k # n + 1
      <4>1. Kept(k, n) = n + 1
        BY <1>2, <3>2 DEF Kept
      <4> QED
        BY <4>1
    <3> QED
      BY <3>1, <3>2
  <2> QED
    BY <1>1, <1>2, <1>4, <2>1, <2>2, <2>3 DEF Follows
<1>7. ASSUME NEW i \in 1 .. n PROVE Moves(rest[i - 1], to[i], rest[i])
  <2>1. /\ i \in 0 .. n /\ i - 1 \in 0 .. n /\ Kept(k, i) \in 1 .. n + 1
        /\ to[i] = from[Kept(k, i)]
    BY <1>2 DEF Kept
  <2>2. st[Kept(k, i - 1)] = st[Kept(k, i) - 1]
    <3>1. CASE i = k
      <4>1. Kept(k, i - 1) = k - 1 /\ Kept(k, i) - 1 = k
        BY <1>2, <3>1 DEF Kept
      <4> QED
        BY <1>5, <4>1
    <3>2. CASE i # k
      <4>1. Kept(k, i - 1) = Kept(k, i) - 1
        BY <1>2, <3>2 DEF Kept
      <4> QED
        BY <4>1
    <3> QED
      BY <3>1, <3>2
  <2>3. Moves(st[Kept(k, i) - 1], from[Kept(k, i)], st[Kept(k, i)])
    BY <1>1, <1>2, <2>1 DEF Follows
  <2> QED
    BY <1>4, <2>1, <2>2, <2>3
<1>8. ASSUME NEW i \in 0 .. n PROVE Behind(rest[i], to, i, b)
  <2>1. Behind(st[Kept(k, i)], from, Kept(k, i), b)
    BY <1>1, <1>2, <1>3 DEF Follows
  <2>2. rest[i] = st[Kept(k, i)]
    BY <1>4
  <2>3. ASSUME NEW s \in Sids, NEW j \in i + 1 .. n, Stops(to[j], s)
        PROVE  \E l \in Kept(k, i) + 1 .. n + 1 : Stops(from[l], s)
    <3>1. j \in 1 .. n /\ i + 1 <= j
      BY <1>2
    <3>2. Kept(k, j) \in Kept(k, i) + 1 .. n + 1 /\ to[j] = from[Kept(k, j)]
      BY <1>2, <1>3, <3>1
    <3> QED
      BY <2>3, <3>2
  <2> QED
    BY <1>2, <2>1, <2>2, <2>3 DEF Behind
<1> QED
  BY <1>2, <1>4, <1>6, <1>7, <1>8 DEF Leads, Follows

LEMMA AheadWithout ==
  ASSUME NEW from \in Seq(DevMessages), NEW to \in Seq(DevMessages), NEW k \in 1 .. Len(from),
         Shorter(to, from, k), from[k].kind \notin {"EaStart", "EaData", "EaStop"},
         NEW a \in Views, NEW b \in Views, Ahead(from, a, b)
  PROVE  Ahead(to, a, b)
<1>1. Leads(to, a, b)
  BY LeadsWithout DEF Ahead
<1>2. ASSUME NEW n \in Nat PROVE Cardinality(OnWay(to, n)) = Cardinality(OnWay(from, n))
  <2> DEFINE S == OnWay(to, n)
             R == OnWay(from, n)
             f == [i \in S |-> Kept(k, i)]
  <2>1. /\ Len(from) \in Nat /\ Len(to) = Len(from) - 1
        /\ \A i \in 1 .. Len(to) : to[i] = from[Kept(k, i)]
    BY DEF Shorter
  <2>2. /\ \A i \in 1 .. Len(to) : Kept(k, i) \in 1 .. Len(from)
        /\ \A i, j \in 1 .. Len(to) : i < j => Kept(k, i) < Kept(k, j)
        /\ \A i \in 1 .. Len(from) : i # k => \E j \in 1 .. Len(to) : i = Kept(k, j)
    BY <2>1, KeptInOrder
  <2>3. \A i \in S : i \in 1 .. Len(to) /\ Kept(k, i) \in R
    BY <2>1, <2>2 DEF OnWay
  <2>4. \A i, j \in S : Kept(k, i) = Kept(k, j) => i = j
    <3> SUFFICES ASSUME NEW i \in S, NEW j \in S, Kept(k, i) = Kept(k, j) PROVE i = j
      OBVIOUS
    <3>1. i \in 1 .. Len(to) /\ j \in 1 .. Len(to)
      BY <2>3
    <3> QED
      BY <2>1, <3>1 DEF Kept
  <2>5. \A i \in R : \E j \in S : i = Kept(k, j)
    <3> SUFFICES ASSUME NEW i \in R PROVE \E j \in S : i = Kept(k, j)
      OBVIOUS
    <3>1. i \in 1 .. Len(from) /\ from[i].kind = "EaData" /\ from[i].arg.n = n /\ i # k
      BY DEF OnWay
    <3>2. PICK j \in 1 .. Len(to) : i = Kept(k, j)
      BY <2>2, <3>1
    <3> QED
      BY <2>1, <3>1, <3>2 DEF OnWay
  <2> HIDE DEF S, R
  <2>6. f \in Bijection(S, R)
    BY <2>3, <2>4, <2>5 DEF Bijection, Injection, Surjection, IsInjective
  <2>7. IsFiniteSet(S)
    BY OnWayFinite DEF S
  <2>8. Cardinality(S) = Cardinality(R)
    BY <2>6, <2>7, FS_Bijection DEF ExistsBijection
  <2> QED
    BY <2>8 DEF S, R
<1> QED
  BY <1>1, <1>2 DEF Ahead, Conserved

-----------------------------------------------------------------------------
(* The steps that say nothing of sessions                                  *)

LEMMA EmitsOthers ==
  ASSUME Types, NEW evs \in Seq(Events), Emits(evs),
         \A i \in 1 .. Len(evs) : evs[i].kind # "EaSessionStarted"
  PROVE  Positions("EaSessionStarted")' = Positions("EaSessionStarted")
<1>1. events \in Seq(Events) /\ events' = events \o evs
  BY DEF Types, Emits
<1> DEFINE old == Len(events)
           new == Len(evs)
<1>2. /\ old \in Nat /\ new \in Nat /\ DOMAIN events = 1 .. old /\ DOMAIN events' = 1 .. old + new
      /\ \A i \in 1 .. old : events'[i] = events[i]
      /\ \A i \in 1 .. new : events'[old + i] = evs[i]
  BY <1>1
<1> HIDE DEF old
<1>3. ASSUME NEW i \in DOMAIN events', i \notin DOMAIN events
      PROVE  events'[i].kind # "EaSessionStarted"
  <2>1. i - old \in 1 .. new /\ old + (i - old) = i
    BY <1>2, <1>3
  <2>2. events'[i] = evs[i - old] /\ evs[i - old].kind # "EaSessionStarted"
    BY <1>2, <2>1
  <2> QED
    BY <2>2
<1>4. DOMAIN events \subseteq DOMAIN events' /\ \A i \in DOMAIN events : events'[i] = events[i]
  BY <1>2
<1> QED
  BY <1>3, <1>4 DEF Positions

LEMMA OpenedType == Types => Opened \in Nat /\ IsFiniteSet(Positions("EaSessionStarted"))
<1> SUFFICES ASSUME Types PROVE Opened \in Nat /\ IsFiniteSet(Positions("EaSessionStarted"))
  OBVIOUS
<1>1. IsFiniteSet(1 .. Len(events)) /\ Positions("EaSessionStarted") \subseteq 1 .. Len(events)
  BY FS_Interval DEF Positions, Types
<1> QED
  BY <1>1, FS_Subset, FS_CardinalityType DEF Opened

LEMMA TellsStarted ==
  ASSUME Types, NEW k \in EventKinds, Tells(k)
  PROVE  Opened' = IF k = "EaSessionStarted" THEN Opened + 1 ELSE Opened
<1> DEFINE last == Len(events)
           P == Positions("EaSessionStarted")
<1>1. /\ last \in Nat
      /\ P' = P \cup (IF "EaSessionStarted" = k THEN {last + 1} ELSE {})
  BY TellsOne DEF Types
<1>2. last + 1 \notin P
  BY <1>1 DEF Positions, Types
<1>3. IsFiniteSet(P)
  BY OpenedType
<1>4. Cardinality(P \cup {last + 1}) = Cardinality(P) + 1
  BY <1>2, <1>3, FS_AddElement
<1> QED
  BY <1>1, <1>4 DEF Opened

(* A step that keeps the tables, the EaSessions and the sessions told. *)
LEMMA SameTask ==
  ASSUME NEW v, TaskAt(v), UNCHANGED <<channels, transferIds, handles>>, Alive' => Alive,
         Positions("EaSessionStarted")' = Positions("EaSessionStarted")
  PROVE  TaskAt(v)'
<1>1. (ChannelsFit(v) /\ TransferIdsFit(v) /\ HandlesFit(v) /\ DataFits(v))'
  <2>1. ChannelsFit(v)'
    BY DEF TaskAt, ChannelsFit, Held
  <2>2. TransferIdsFit(v)'
    BY DEF TaskAt, TransferIdsFit
  <2>3. HandlesFit(v)'
    <3>1. \A g, s : Newest(g, s)' <=> Newest(g, s)
      BY DEF Newest
    <3> QED
      BY <3>1 DEF TaskAt, HandlesFit
  <2>4. DataFits(v)'
    <3>1. \A h : First(h)' <=> First(h)
      BY DEF First
    <3> QED
      BY <3>1 DEF TaskAt, DataFits
  <2> QED
    BY <2>1, <2>2, <2>3, <2>4
<1>2. OpenedAreTold(v)'
  BY DEF TaskAt, OpenedAreTold, Opened
<1> QED
  BY <1>1, <1>2 DEF TaskAt

ToldSame == Positions("EaSessionStarted")' = Positions("EaSessionStarted")

LEMMA TellsOther ==
  ASSUME Types, NEW k \in EventKinds, Tells(k), k # "EaSessionStarted"
  PROVE  ToldSame
<1>1. Positions("EaSessionStarted")' =
        Positions("EaSessionStarted") \cup (IF "EaSessionStarted" = k THEN {Len(events) + 1} ELSE {})
  BY TellsOne DEF Types
<1> QED
  BY <1>1 DEF ToldSame

LEMMA AckedSameTask ==
  ASSUME Types, StepInv, Answers, NEW v, TaskAt(v)
  PROVE  TaskAt(v)'
<1>1. ToldSame
  <2>1. ASSUME UNCHANGED events PROVE ToldSame
    BY <2>1 DEF ToldSame, Positions
  <2>2. "HidRemoteStarted" \in EventKinds /\ "HidRemoteStopped" \in EventKinds
    BY DEF EventKinds
  <2> QED
    BY <2>1, <2>2, AckedEvents, TellsOther DEF Answers
<1> QED
  BY <1>1, SameTask DEF Answers, SendOver, eaVars, ToldSame, Alive

(* The handlers that have nothing to do with sessions. *)
OtherHandler ==
  \/ Negotiated \/ Authentication \/ Top \/ ControlIdentification \/ ControlOther
  \/ OutgoingData \/ HidCommand \/ AppLaunch \/ Timer \/ Closed \/ Failed \/ Ended

LEMMA OtherHandlerTells == ASSUME Types, OtherHandler PROVE ToldSame
<1> USE DEF Ready, Goes, GoesOn
<1>0. 0 \in Nat
  OBVIOUS
<1>1. ASSUME UNCHANGED events PROVE ToldSame
  BY <1>1 DEF ToldSame, Positions
<1>2. ASSUME NEW k \in EventKinds \ {"EaSessionStarted"}, Emits(<<Msg(k, 0)>>) PROVE ToldSame
  BY <1>0, <1>2, TellsOther DEF Tells
<1>3. CASE Negotiated \/ AuthCertificate \/ AuthSucceeded \/ AuthFailed \/ Closed \/ ControlOther
  BY <1>2, <1>3
     DEF Negotiated, AuthCertificate, AuthSucceeded, AuthFailed, Closed, ControlOther, EventKinds
<1>4. CASE Ended \/ Top \/ AuthChallenge
  BY <1>1, <1>4 DEF Ended, Top, AuthChallenge
<1>5. CASE AuthIdentification
  BY <1>1, <1>2, <1>5 DEF AuthIdentification, Identifications, EventKinds
<1>6. CASE ControlIdentification
  BY <1>1, <1>2, <1>6 DEF ControlIdentification, Identifications, EventKinds
<1>7. CASE OutgoingData \/ HidCommand \/ AppLaunch \/ Timer
  BY <1>1, <1>7 DEF OutgoingData, HidCommand, AppLaunch, Timer
<1>8. CASE Failed
  <2> DEFINE a == Msg("Error", 0)
             b == Msg("Disconnected", 0)
  <2>1. a \in Events /\ b \in Events /\ a.kind = "Error" /\ b.kind = "Disconnected"
    BY <1>0, EventType DEF Msg, EventKinds
  <2>2. Emits(<<a, b>>)
    BY <1>8 DEF Failed, LastWords
  <2> HIDE DEF a, b
  <2>3. <<a, b>> \in Seq(Events) /\ Len(<<a, b>>) = 2 /\ <<a, b>>[1] = a /\ <<a, b>>[2] = b
    BY <2>1
  <2>4. \A i \in 1 .. Len(<<a, b>>) : <<a, b>>[i].kind # "EaSessionStarted"
    <3>1. \A i \in 1 .. 2 : i = 1 \/ i = 2
      OBVIOUS
    <3> QED
      BY <2>1, <2>3, <3>1
  <2> QED
    BY <2>2, <2>3, <2>4, EmitsOthers DEF ToldSame
<1> QED
  BY <1>3, <1>4, <1>5, <1>6, <1>7, <1>8 DEF OtherHandler, Authentication

LEMMA OtherHandlerTask ==
  ASSUME Types, OtherHandler, NEW v, TaskAt(v)
  PROVE  /\ TaskAt(v)'
         /\ \/ UNCHANGED fromDev
            \/ /\ fromDev # <<>> /\ fromDev' = Tail(fromDev)
               /\ Head(fromDev).kind \notin {"EaStart", "EaData", "EaStop"}
<1> USE DEF Ready, Goes, GoesOn, eaVars
<1>1. UNCHANGED <<channels, transferIds, handles>> /\ (Alive' => Alive)
  BY DEF OtherHandler, Negotiated, Authentication, AuthIdentification, AuthCertificate,
         AuthChallenge, AuthSucceeded, AuthFailed, Top, ControlIdentification, ControlOther,
         OutgoingData, HidCommand, AppLaunch, Timer, Closed, Failed, Ended, Alive
<1>2. TaskAt(v)'
  BY <1>1, OtherHandlerTells, SameTask DEF ToldSame
<1>3. CASE Negotiated \/ Top \/ OutgoingData \/ HidCommand \/ AppLaunch \/ Timer \/ Closed
           \/ Failed \/ Ended
  BY <1>2, <1>3 DEF Negotiated, Top, OutgoingData, HidCommand, AppLaunch, Timer, Closed,
                    Failed, Ended
<1>4. CASE Authentication
  BY <1>2, <1>4 DEF Authentication, AuthIdentification, AuthCertificate, AuthChallenge,
                    AuthSucceeded, AuthFailed, Takes, Identifications
<1>5. CASE ControlIdentification \/ ControlOther
  BY <1>2, <1>5 DEF ControlIdentification, ControlOther, Takes, Identifications
<1> QED
  BY <1>3, <1>4, <1>5 DEF OtherHandler

-----------------------------------------------------------------------------
(* Sessions that are opened and closed, and data                           *)

(* The data of a handle stays in order when nothing is said of it. *)
LEMMA DataKept ==
  ASSUME NEW v \in Views, NEW w \in Views, NEW hd \in Handles, w.data[hd.n] = v.data[hd.n]
  PROVE  /\ DataInOrder(v, hd) => DataInOrder(w, hd)
         /\ LastRead(v, hd) => LastRead(w, hd)
         /\ AllRead(v, hd)
              /\ (hd.open /\ w.open[hd.sid] /\ w.last[hd.sid] = hd.n =>
                    v.open[hd.sid] /\ v.last[hd.sid] = hd.n)
            => AllRead(w, hd)
BY DEF DataInOrder, LastRead, AllRead

LEMMA EaStopTask ==
  ASSUME Types, EaStop, NEW v \in Views, TaskAt(v), NEW w \in Views, Closes(v, fromDev[1], w)
  PROVE  TaskAt(w)'
<1> DEFINE s == fromDev[1].arg.sid
<1>1. /\ s \in Sids /\ w.last = v.last /\ w.top = v.top /\ w.data = v.data
      /\ w.open = [v.open EXCEPT ![s] = FALSE]
  BY DEF Closes
<1>2. /\ channels' = [channels EXCEPT ![s] = 0] /\ transferIds' = [transferIds EXCEPT ![s] = 0]
      /\ UNCHANGED handles /\ pc = "select" /\ pc' = "top" /\ Emits(<<Msg("EaSessionStopped", s)>>)
  <2>1. \A m : Takes(m) => m = fromDev[1]
    BY DEF Takes, Types, ArrivingTypes
  <2> QED
    BY <2>1 DEF EaStop, Forgotten, Goes, Ready
<1> HIDE DEF s
<1>3. /\ \A t \in LinkSids : channels'[t] = IF t = s THEN 0 ELSE channels[t]
      /\ \A t \in LinkSids : transferIds'[t] = IF t = s THEN 0 ELSE transferIds[t]
      /\ \A t \in Sids : w.open[t] = IF t = s THEN FALSE ELSE v.open[t]
      /\ Len(handles) \in Nat /\ handles \in Seq(Handles)
      /\ Sids \subseteq LinkSids /\ s \in Nat
  <2>1. \A t \in LinkSids : channels'[t] = IF t = s THEN 0 ELSE channels[t]
    BY <1>2 DEF Types, EaTypes
  <2>2. \A t \in LinkSids : transferIds'[t] = IF t = s THEN 0 ELSE transferIds[t]
    BY <1>2 DEF Types, EaTypes
  <2>3. \A t \in Sids : w.open[t] = IF t = s THEN FALSE ELSE v.open[t]
    BY <1>1 DEF Views
  <2>4. Len(handles) \in Nat /\ handles \in Seq(Handles)
    BY DEF Types, EaTypes
  <2>5. Sids \subseteq LinkSids /\ s \in Nat
    BY <1>1, SidTypes
  <2> QED
    BY <2>1, <2>2, <2>3, <2>4, <2>5
<1>4. ChannelsFit(w)'
  <2>1. Alive
    BY <1>2 DEF Alive
  <2> QED
    BY <1>1, <1>2, <1>3, <2>1 DEF TaskAt, ChannelsFit, Held
<1>5. TransferIdsFit(w)'
  BY <1>1, <1>3 DEF TaskAt, TransferIdsFit
<1>6. HandlesFit(w)'
  <2>1. ASSUME NEW h \in 1 .. Len(handles), NEW t \in Sids, handles[h].n = w.last[t]
        PROVE  handles[h].sid = t /\ (w.open[t] /\ handles[h].open => channels'[t] = h)
    <3>1. handles[h].sid = t /\ (v.open[t] /\ handles[h].open => channels[t] = h)
      BY <1>1, <2>1 DEF TaskAt, HandlesFit
    <3>2. w.open[t] => v.open[t] /\ channels'[t] = channels[t]
      BY <1>3
    <3> QED
      BY <3>1, <3>2
  <2>2. Alive
    BY <1>2 DEF Alive
  <2>3. \A t \in Sids : w.open[t] =>
          \E g \in 1 .. Len(handles) : Newest(g, t) /\ handles[g].n = w.last[t]
    BY <1>1, <1>3, <2>2 DEF TaskAt, HandlesFit
  <2>4. \A g, t : Newest(g, t)' <=> Newest(g, t)
    BY <1>2 DEF Newest
  <2> QED
    BY <1>1, <1>2, <2>1, <2>3, <2>4 DEF TaskAt, HandlesFit
<1>7. DataFits(w)'
  <2> SUFFICES ASSUME NEW h \in 1 .. Len(handles)
               PROVE  /\ DataInOrder(w, handles[h])
                      /\ channels'[handles[h].sid] = h => LastRead(w, handles[h])
                      /\ First(h) => AllRead(w, handles[h])
    <3>1. \A h : First(h)' <=> First(h)
      BY <1>2 DEF First
    <3> QED
      BY <1>2, <3>1 DEF DataFits
  <2> DEFINE hd == handles[h]
  <2>1. /\ hd \in Handles /\ hd.sid \in Sids /\ hd.sid \in LinkSids
        /\ DataInOrder(v, hd) /\ (channels[hd.sid] = h => LastRead(v, hd))
        /\ First(h) => AllRead(v, hd)
    BY <1>3 DEF TaskAt, HandlesFit, DataFits
  <2> HIDE DEF hd
  <2>2. h # 0
    BY <1>3
  <2>3. /\ channels'[hd.sid] = h => channels[hd.sid] = h
        /\ w.open[hd.sid] => v.open[hd.sid]
    BY <1>3, <2>1, <2>2
  <2>4. /\ DataInOrder(w, hd) /\ (channels'[hd.sid] = h => LastRead(w, hd))
        /\ First(h) => AllRead(w, hd)
    BY <1>1, <2>1, <2>3, DataKept
  <2> QED
    BY <2>4 DEF hd
<1>8. OpenedAreTold(w)'
  <2>1. ToldSame
    BY <1>2, <1>3, TellsOther DEF Tells, EventKinds
  <2> QED
    BY <1>1, <1>2, <2>1 DEF TaskAt, OpenedAreTold, Opened, ToldSame, Alive
<1> QED
  BY <1>4, <1>5, <1>6, <1>7, <1>8 DEF TaskAt

LEMMA EaIgnoredTask ==
  ASSUME Types, EaDataIgnored, NEW v \in Views, TaskAt(v), NEW w \in Views,
         Carries(v, fromDev[1], w), Valid(v)
  PROVE  TaskAt(w)'
<1> DEFINE s == fromDev[1].arg.sid
           n == fromDev[1].arg.n
<1>1. /\ s \in Sids /\ ~ IsEaData(s) /\ v.open[s] /\ n = v.last[s] /\ n \in Nat
      /\ w.last = v.last /\ w.top = v.top /\ w.open = v.open
      /\ w.data = [v.data EXCEPT ![n] = @ + 1]
      /\ UNCHANGED <<channels, transferIds, handles, events>> /\ pc = "select" /\ pc' = "top"
  <2>1. \A m : Takes(m) => m = fromDev[1]
    BY DEF Takes, Types, ArrivingTypes
  <2> QED
    BY <2>1 DEF EaDataIgnored, Goes, GoesOn, Ready, Carries, eaVars, Views
<1> HIDE DEF s, n
<1>2. (ChannelsFit(w) /\ TransferIdsFit(w) /\ HandlesFit(w))'
  <2>1. ChannelsFit(w)'
    BY <1>1 DEF TaskAt, ChannelsFit, Held, Alive
  <2>2. TransferIdsFit(w)'
    BY <1>1 DEF TaskAt, TransferIdsFit
  <2>3. HandlesFit(w)'
    <3>1. \A g, t : Newest(g, t)' <=> Newest(g, t)
      BY <1>1 DEF Newest
    <3> QED
      BY SMTT(30), <1>1, <3>1 DEF TaskAt, HandlesFit, Alive
  <2> QED
    BY <2>1, <2>2, <2>3
<1>3. DataFits(w)'
  <2> SUFFICES ASSUME NEW h \in 1 .. Len(handles)
               PROVE  /\ DataInOrder(w, handles[h])
                      /\ channels[handles[h].sid] = h => LastRead(w, handles[h])
                      /\ First(h) => AllRead(w, handles[h])
    <3>1. \A h : First(h)' <=> First(h)
      BY <1>1 DEF First
    <3> QED
      BY <1>1, <3>1 DEF DataFits
  <2> DEFINE hd == handles[h]
  <2>1. /\ hd \in Handles /\ DataInOrder(v, hd) /\ (channels[hd.sid] = h => LastRead(v, hd))
        /\ First(h) => AllRead(v, hd)
    BY DEF TaskAt, DataFits, Types, EaTypes
  <2>2. hd.n = n => hd.sid = s
    BY <1>1 DEF TaskAt, HandlesFit
  <2> HIDE DEF hd
  <2>3. CASE hd.n = n
    <3>1. ~ IsEaData(hd.sid)
      BY <1>1, <2>2, <2>3
    <3>2. hd.got = <<>>
      BY <2>1, <3>1 DEF DataInOrder
    <3>3. \A i \in 1 .. Len(hd.got) : FALSE
      BY <3>2
    <3> QED
      BY <3>1, <3>2, <3>3 DEF DataInOrder, LastRead, AllRead, hd
  <2>4. CASE hd.n # n
    <3>1. w.data[hd.n] = v.data[hd.n]
      BY <1>1, <2>1, <2>4 DEF Views, Handles
    <3>2. /\ DataInOrder(w, hd) /\ (channels[hd.sid] = h => LastRead(w, hd))
          /\ First(h) => AllRead(w, hd)
      BY <1>1, <2>1, <3>1, DataKept
    <3> QED
      BY <3>2 DEF hd
  <2> QED
    BY <2>3, <2>4
<1>4. OpenedAreTold(w)'
  BY <1>1 DEF TaskAt, OpenedAreTold, Opened, Positions, Alive
<1> QED
  BY <1>2, <1>3, <1>4 DEF TaskAt

LEMMA DropTask ==
  ASSUME Types, DropSession, NEW v \in Views, TaskAt(v)
  PROVE  TaskAt(v)'
<1>1. PICK d \in DOMAIN handles :
        handles[d].open /\ handles' = [handles EXCEPT ![d].open = FALSE]
  BY DEF DropSession
<1>2. UNCHANGED <<channels, transferIds, pc, events>>
  BY DEF DropSession
<1>3. /\ Len(handles') = Len(handles) /\ handles \in Seq(Handles)
      /\ \A h \in 1 .. Len(handles) :
           /\ handles'[h].sid = handles[h].sid /\ handles'[h].n = handles[h].n
           /\ handles'[h].got = handles[h].got
           /\ handles'[h].open => handles[h].open
  <2>0. handles \in Seq(Handles)
    BY DEF Types, EaTypes
  <2>1. Len(handles') = Len(handles)
    BY <1>1, <2>0, ClosedTypes
  <2>2. ASSUME NEW h \in 1 .. Len(handles)
        PROVE  /\ handles'[h].sid = handles[h].sid /\ handles'[h].n = handles[h].n
               /\ handles'[h].got = handles[h].got
               /\ handles'[h].open => handles[h].open
    <3>1. handles[h] \in Handles /\ h \in DOMAIN handles
      BY <2>0
    <3>2. handles'[h] = IF h = d THEN [handles[h] EXCEPT !.open = FALSE] ELSE handles[h]
      BY <1>1, <3>1
    <3> QED
      BY <3>1, <3>2 DEF Handles
  <2> QED
    BY <2>0, <2>1, <2>2
<1>4. ChannelsFit(v)'
  BY <1>2, <1>3 DEF TaskAt, ChannelsFit, Held, Alive
<1>5. TransferIdsFit(v)'
  BY <1>2 DEF TaskAt, TransferIdsFit
<1>6. HandlesFit(v)'
  <2>1. \A g, s : Newest(g, s)' <=> Newest(g, s)
    BY <1>3 DEF Newest
  <2> QED
    BY <1>2, <1>3, <2>1 DEF TaskAt, HandlesFit, Alive
<1>7. DataFits(v)'
  <2>1. ASSUME NEW h \in 1 .. Len(handles) PROVE First(h)' <=> First(h)
    <3>1. 1 .. h - 1 \subseteq 1 .. Len(handles)
      BY <1>3
    <3> QED
      BY <1>3, <3>1 DEF First
  <2>2. ASSUME NEW h \in 1 .. Len(handles)
        PROVE  /\ DataInOrder(v, handles'[h])
               /\ channels[handles'[h].sid] = h => LastRead(v, handles'[h])
               /\ First(h) => AllRead(v, handles'[h])
    <3> DEFINE hd == handles[h]
               he == handles'[h]
    <3>1. /\ he.sid = hd.sid /\ he.n = hd.n /\ he.got = hd.got /\ (he.open => hd.open)
          /\ DataInOrder(v, hd) /\ (channels[hd.sid] = h => LastRead(v, hd))
          /\ First(h) => AllRead(v, hd)
      BY <1>3 DEF TaskAt, DataFits
    <3> HIDE DEF hd, he
    <3>2. /\ DataInOrder(v, he) /\ (channels[he.sid] = h => LastRead(v, he))
          /\ First(h) => AllRead(v, he)
      BY <3>1 DEF DataInOrder, LastRead, AllRead
    <3> QED
      BY <3>2 DEF he
  <2> QED
    BY <1>2, <1>3, <2>1, <2>2 DEF DataFits
<1>8. OpenedAreTold(v)'
  BY <1>2, <1>3 DEF TaskAt, OpenedAreTold, Opened, Positions, Alive
<1> QED
  BY <1>4, <1>5, <1>6, <1>7, <1>8 DEF TaskAt

(* What is known of the handles when a session is told to be opened: it is *)
(* a new one.                                                              *)
LEMMA EaStartTask ==
  ASSUME Types, EaStart, NEW v \in Views, TaskAt(v), Valid(v), NEW w \in Views,
         Opens(v, fromDev[1], w)
  PROVE  TaskAt(w)'
<1> DEFINE s == fromDev[1].arg.sid
           n == fromDev[1].arg.n
           k == Len(handles)
<1>1. /\ s \in Sids /\ ~ v.open[s] /\ n = v.top + 1 /\ n \in Nat /\ v.top \in Nat
      /\ w.last = [v.last EXCEPT ![s] = n] /\ w.open = [v.open EXCEPT ![s] = TRUE]
      /\ w.top = n /\ w.data = v.data
  BY DEF Opens, Views
<1>2. /\ channels' = [channels EXCEPT ![s] = k + 1] /\ UNCHANGED transferIds /\ pc = "select"
      /\ \/ /\ handles' = Append(handles, Handle(s, n)) /\ pc' = "top"
            /\ Emits(<<Msg("EaSessionStarted", s)>>)
         \/ pc' = "failed" /\ UNCHANGED <<handles, events>>
  <2>1. \A m : Takes(m) => m = fromDev[1]
    BY DEF Takes, Types, ArrivingTypes
  <2> QED
    BY <2>1 DEF EaStart, Registered, Goes, GoesOn, Ready
<1>3. /\ s \in LinkSids /\ s \in Nat /\ Sids \subseteq LinkSids
      /\ handles \in Seq(Handles) /\ k \in Nat /\ k = Len(handles)
      /\ \A t \in LinkSids : channels'[t] = IF t = s THEN k + 1 ELSE channels[t]
      /\ \A t \in LinkSids : channels[t] \in 0 .. k + 1
  <2>1. s \in LinkSids /\ s \in Nat /\ Sids \subseteq LinkSids
    BY <1>1, SidTypes
  <2>2. handles \in Seq(Handles) /\ k \in Nat /\ k = Len(handles)
    BY DEF Types, EaTypes
  <2>3. \A t \in LinkSids : channels'[t] = IF t = s THEN k + 1 ELSE channels[t]
    BY <1>2 DEF Types, EaTypes
  <2>4. \A t \in LinkSids : channels[t] \in 0 .. k + 1
    BY DEF Types, EaTypes
  <2> QED
    BY <2>1, <2>2, <2>3, <2>4
<1>4. /\ \A t \in Sids : w.last[t] = IF t = s THEN n ELSE v.last[t]
      /\ \A t \in Sids : w.open[t] = IF t = s THEN TRUE ELSE v.open[t]
      /\ \A t \in Sids : v.last[t] \in Nat /\ v.last[t] # n
      /\ v.data[n] = 0
  <2>1. \A t \in Sids : w.last[t] = IF t = s THEN n ELSE v.last[t]
    BY <1>1 DEF Views
  <2>2. \A t \in Sids : w.open[t] = IF t = s THEN TRUE ELSE v.open[t]
    BY <1>1 DEF Views
  <2>3. \A t \in Sids : v.last[t] \in Nat /\ v.last[t] # n
    BY <1>1 DEF Views, Valid
  <2>4. v.data[n] = 0
    BY <1>1 DEF Valid
  <2> QED
    BY <2>1, <2>2, <2>3, <2>4
<1>6. ASSUME NEW h \in 1 .. k
      PROVE  /\ handles[h] \in Handles /\ handles[h].n \in 1 .. v.top /\ handles[h].n # n
             /\ handles[h].n \in 1 .. n /\ handles[h].sid \in Sids
             /\ DataInOrder(v, handles[h]) /\ handles[h].n <= Opened
             /\ channels[handles[h].sid] = h => LastRead(v, handles[h])
             /\ First(h) => AllRead(v, handles[h])
  <2>1. handles[h] \in Handles
    BY <1>3
  <2>2. handles[h].n \in 1 .. v.top /\ handles[h].sid \in Sids
    BY <1>3 DEF TaskAt, HandlesFit
  <2>3. handles[h].n # n /\ handles[h].n \in 1 .. n
    BY <1>1, <2>2
  <2> QED
    BY <1>3, <2>1, <2>2, <2>3 DEF TaskAt, DataFits, OpenedAreTold
<1>7. /\ \A h \in 1 .. k : handles'[h] = handles[h]
      /\ Len(handles') \in {k, k + 1} /\ (pc' # "failed" => Len(handles') = k + 1)
      /\ Len(handles') = k + 1 => handles'[k + 1] = Handle(s, n)
      /\ Alive /\ (Alive' => Len(handles') = k + 1)
  <2>1. /\ Len(Append(handles, Handle(s, n))) = k + 1
        /\ Append(handles, Handle(s, n))[k + 1] = Handle(s, n)
        /\ \A h \in 1 .. k : Append(handles, Handle(s, n))[h] = handles[h]
    BY <1>1, <1>3, NewHandleTypes
  <2> HIDE DEF s, n, k
  <2>2. CASE handles' = Append(handles, Handle(s, n)) /\ pc' = "top"
    BY <1>2, <2>1, <2>2 DEF Alive
  <2>3. CASE pc' = "failed" /\ UNCHANGED handles
    BY <1>2, <1>3, <2>3 DEF Alive
  <2> QED
    BY <1>2, <2>2, <2>3
<1>8. /\ Handle(s, n).sid = s /\ Handle(s, n).n = n /\ Handle(s, n).got = <<>>
      /\ Handle(s, n).open
  BY DEF Handle
<1> HIDE DEF s, n, k
<1>9. \A h \in 1 .. Len(handles') :
        \/ h \in 1 .. k /\ handles'[h] = handles[h]
        \/ h = k + 1 /\ handles'[h] = Handle(s, n)
  BY <1>3, <1>7
<1>10. \A t \in LinkSids : channels[t] <= k
  BY <1>3, <1>7 DEF TaskAt, ChannelsFit
<1>11. ChannelsFit(w)'
  <2>1. ASSUME NEW t \in LinkSids, Held(t)'
        PROVE  /\ t \in Sids /\ w.open[t]
               /\ handles'[channels'[t]].sid = t /\ handles'[channels'[t]].n = w.last[t]
    <3>1. CASE t = s
      <4>1. channels'[t] = k + 1 /\ Len(handles') = k + 1
        BY <1>3, <1>7, <2>1, <3>1 DEF Held
      <4> QED
        BY ZenonT(60), <1>1, <1>4, <1>7, <1>8, <3>1, <4>1
    <3>2. CASE t # s
      <4>1. channels'[t] = channels[t] /\ channels[t] \in 1 .. k
        BY <1>3, <1>10, <2>1, <3>2 DEF Held
      <4>2. /\ t \in Sids /\ v.open[t]
            /\ handles[channels[t]].sid = t /\ handles[channels[t]].n = v.last[t]
        BY <1>3, <4>1 DEF TaskAt, ChannelsFit, Held
      <4> QED
        BY ZenonT(60), <1>4, <1>7, <3>2, <4>1, <4>2
    <3> QED
      BY <3>1, <3>2
  <2>2. ASSUME Alive', NEW t \in LinkSids PROVE channels'[t] <= Len(handles')
    BY <1>3, <1>7, <1>10, <2>2
  <2> QED
    BY <2>1, <2>2 DEF ChannelsFit
<1>12. TransferIdsFit(w)'
  BY <1>1, <1>2, <1>4 DEF TaskAt, TransferIdsFit
<1>13. HandlesFit(w)'
  <2>1. ASSUME NEW h \in 1 .. Len(handles')
        PROVE  handles'[h].n \in 1 .. w.top /\ handles'[h].sid \in Sids
    BY <1>1, <1>6, <1>8, <1>9
  <2>2. ASSUME NEW h \in 1 .. Len(handles'), NEW t \in Sids, handles'[h].n = w.last[t]
        PROVE  handles'[h].sid = t /\ (w.open[t] /\ handles'[h].open => channels'[t] = h)
    <3>1. CASE h \in 1 .. k /\ handles'[h] = handles[h]
      <4>1. t # s
        BY <1>4, <1>6, <2>2, <3>1
      <4>2. handles[h].n = v.last[t] /\ w.open[t] = v.open[t] /\ channels'[t] = channels[t]
        BY <1>3, <1>4, <2>2, <3>1, <4>1
      <4> QED
        BY <1>3, <3>1, <4>2 DEF TaskAt, HandlesFit
    <3>2. CASE h = k + 1 /\ handles'[h] = Handle(s, n)
      <4>1. t = s
        BY <1>4, <1>8, <2>2, <3>2
      <4> QED
        BY <1>3, <1>8, <3>2, <4>1
    <3> QED
      BY <1>9, <3>1, <3>2
  <2>3. ASSUME Alive', NEW t \in Sids, w.open[t]
        PROVE  \E g \in 1 .. Len(handles') : Newest(g, t)' /\ handles'[g].n = w.last[t]
    <3>1. Len(handles') = k + 1 /\ k + 1 \in 1 .. Len(handles') /\ 1 .. k \subseteq 1 .. Len(handles')
      BY <1>3, <1>7, <2>3
    <3>2. CASE t = s
      <4>1. \A h \in 1 .. Len(handles') : ~ (h > k + 1)
        BY <1>3, <3>1
      <4>2. handles'[k + 1].n = w.last[t]
        BY <1>4, <1>7, <1>8, <3>1, <3>2
      <4> QED
        BY <3>1, <4>1, <4>2 DEF Newest
    <3>3. CASE t # s
      <4>1. v.open[t] /\ w.last[t] = v.last[t]
        BY <1>4, <2>3, <3>3
      <4>2. PICK g \in 1 .. k : Newest(g, t) /\ handles[g].n = v.last[t]
        BY <1>3, <1>7, <4>1 DEF TaskAt, HandlesFit
      <4>3. Newest(g, t)'
        <5>1. \A h \in 1 .. k : h > g => handles[h].sid # t
          BY <1>3, <4>2 DEF Newest
        <5>2. \A h \in 1 .. Len(handles') : h > g => handles'[h].sid # t
          BY <1>8, <1>9, <3>3, <5>1
        <5> QED
          BY <5>2 DEF Newest
      <4> QED
        BY <1>7, <3>1, <4>1, <4>2, <4>3
    <3> QED
      BY <3>2, <3>3
  <2>4. ASSUME NEW g \in 1 .. Len(handles'), NEW h \in 1 .. Len(handles'),
               g < h, handles'[g].n = handles'[h].n
        PROVE  ~ handles'[g].open
    <3>1. CASE g \in 1 .. k /\ h \in 1 .. k
      BY <1>3, <1>7, <2>4, <3>1 DEF TaskAt, HandlesFit
    <3>2. CASE ~ (g \in 1 .. k /\ h \in 1 .. k)
      <4>1. g \in 1 .. k /\ h = k + 1
        BY <1>3, <1>9, <2>4, <3>2
      <4> QED
        BY <1>6, <1>7, <1>8, <1>9, <2>4, <4>1
    <3> QED
      BY <3>1, <3>2
  <2> QED
    BY <2>1, <2>2, <2>3, <2>4 DEF HandlesFit
<1>14. DataFits(w)'
  <2>1. ASSUME NEW h \in 1 .. k PROVE First(h)' <=> First(h)
    <3>1. 1 .. h - 1 \subseteq 1 .. k
      BY <1>3
    <3> QED
      BY <1>7, <3>1 DEF First
  <2>2. ASSUME NEW h \in 1 .. k
        PROVE  /\ DataInOrder(w, handles[h])
               /\ channels'[handles[h].sid] = h => LastRead(w, handles[h])
               /\ First(h)' => AllRead(w, handles[h])
    <3> DEFINE hd == handles[h]
    <3>1. /\ hd \in Handles /\ hd.n # n /\ hd.sid \in Sids /\ hd.sid \in LinkSids
          /\ DataInOrder(v, hd) /\ (channels[hd.sid] = h => LastRead(v, hd))
          /\ First(h) => AllRead(v, hd)
      BY <1>3, <1>6
    <3> HIDE DEF hd
    <3>2. h # k + 1
      BY <1>3
    <3>3. /\ channels'[hd.sid] = h => channels[hd.sid] = h
          /\ w.open[hd.sid] /\ w.last[hd.sid] = hd.n => v.open[hd.sid] /\ v.last[hd.sid] = hd.n
      BY <1>3, <1>4, <3>1, <3>2
    <3>4. /\ DataInOrder(w, hd) /\ (channels'[hd.sid] = h => LastRead(w, hd))
          /\ First(h) => AllRead(w, hd)
      BY <1>1, <3>1, <3>3, DataKept
    <3> QED
      BY <2>1, <3>4 DEF hd
  <2>3. /\ DataInOrder(w, Handle(s, n)) /\ LastRead(w, Handle(s, n))
        /\ AllRead(w, Handle(s, n))
    <3>1. Len(<<>>) = 0 /\ \A i \in 1 .. 0 : FALSE
      OBVIOUS
    <3> QED
      BY <1>1, <1>4, <1>8, <3>1 DEF DataInOrder, LastRead, AllRead
  <2> QED
    BY <1>9, <2>2, <2>3 DEF DataFits
<1>15. OpenedAreTold(w)'
  <2>0. Opened \in Nat /\ v.top = Opened
    BY <1>7, OpenedType DEF TaskAt, OpenedAreTold
  <2>1. CASE pc' = "failed" /\ UNCHANGED <<handles, events>>
    <3>1. Opened' = Opened /\ ~ Alive'
      BY <2>1 DEF Opened, Positions, Alive
    <3> QED
      BY <1>3, <1>6, <2>1, <3>1 DEF OpenedAreTold
  <2>2. CASE Emits(<<Msg("EaSessionStarted", s)>>)
    <3>1. Opened' = Opened + 1
      BY <1>3, <2>2, TellsStarted DEF Tells, EventKinds
    <3>2. \A h \in 1 .. Len(handles') : handles'[h].n <= Opened'
      <4>1. \A h \in 1 .. k : handles[h].n <= Opened'
        <5> SUFFICES ASSUME NEW h \in 1 .. k PROVE handles[h].n <= Opened'
          OBVIOUS
        <5>1. handles[h].n \in 1 .. v.top
          BY <1>6
        <5> QED
          BY <1>1, <2>0, <3>1, <5>1
      <4> QED
        BY <1>1, <1>8, <1>9, <2>0, <3>1, <4>1
    <3> QED
      BY <1>1, <2>0, <3>1, <3>2 DEF OpenedAreTold
  <2> QED
    BY <1>2, <2>1, <2>2
<1> QED
  BY <1>11, <1>12, <1>13, <1>14, <1>15 DEF TaskAt

(* A handle gets the next piece of data of its session. *)
LEMMA DataAdded ==
  ASSUME NEW v \in Views, NEW w \in Views, NEW hd \in Handles,
         w.data = [v.data EXCEPT ![hd.n] = @ + 1], w.last = v.last, w.open = v.open,
         IsEaData(hd.sid), DataInOrder(v, hd), LastRead(v, hd),
         NEW he \in Handles, he.sid = hd.sid, he.n = hd.n, he.open = hd.open,
         he.got = Append(hd.got, [n |-> hd.n, i |-> v.data[hd.n] + 1])
  PROVE  /\ DataInOrder(w, he) /\ LastRead(w, he)
         /\ AllRead(v, hd) => AllRead(w, he)
<1> DEFINE n == hd.n
           p == [n |-> n, i |-> v.data[n] + 1]
           g == hd.got
           k == Len(g)
<1>1. /\ n \in Nat /\ v.data[n] \in Nat /\ w.data[n] = v.data[n] + 1 /\ w.data[n] \in Nat
      /\ g \in Seq(Pieces) /\ k \in Nat
  <2>1. n \in Nat /\ g \in Seq(Pieces)
    BY DEF Handles
  <2> HIDE DEF n
  <2>2. v.data[n] \in Nat /\ w.data = [v.data EXCEPT ![n] = @ + 1] /\ v.data \in [Nat -> Nat]
    BY <2>1 DEF Views, n
  <2>3. v.data[n] \in Nat /\ w.data[n] = v.data[n] + 1 /\ w.data[n] \in Nat
    <3> DEFINE before == v.data
               after == w.data
    <3>1. before \in [Nat -> Nat] /\ after = [before EXCEPT ![n] = before[n] + 1]
      BY <2>2
    <3> HIDE DEF g, k, p, before, after
    <3>2. before[n] \in Nat /\ after[n] = before[n] + 1
      BY <2>1, <3>1
    <3> QED
      BY <3>2 DEF before, after
  <2>4. k \in Nat
    BY <2>1
  <2> QED
    BY <2>1, <2>3, <2>4
<1>2. p \in Pieces /\ p.n = n /\ p.i = v.data[n] + 1
  BY <1>1 DEF Pieces
<1> HIDE DEF p
<1>3. he.got = Append(g, p)
  BY DEF p
<1>4. /\ Len(he.got) = k + 1 /\ he.got[k + 1] = p
      /\ \A i \in 1 .. k : he.got[i] = g[i] /\ g[i] \in Pieces
      /\ he.got # <<>>
  BY <1>1, <1>2, <1>3
<1>5. /\ \A i \in 1 .. k : g[i] = [n |-> n, i |-> g[1].i + i - 1] /\ g[i].i <= v.data[n]
      /\ k # 0 => g[k].i = v.data[n]
  <2>1. k # 0 => g # <<>>
    BY <1>1
  <2> QED
    BY <2>1 DEF DataInOrder, LastRead
<1> HIDE DEF g, k, n
<1>6. k # 0 => 1 \in 1 .. k /\ k \in 1 .. k /\ g[1].i \in Nat
  BY <1>1, <1>4 DEF Pieces
<1>7. /\ he.got[k + 1] = [n |-> n, i |-> he.got[1].i + (k + 1) - 1]
      /\ he.got[k + 1].i = w.data[n]
  <2>1. p = [n |-> n, i |-> v.data[n] + 1]
    BY DEF p, n
  <2>2. CASE k = 0
    <3>1. he.got[1] = p /\ k + 1 = 1
      BY <1>4, <2>2
    <3>2. he.got[1].i + (k + 1) - 1 = v.data[n] + 1
      BY <1>1, <1>2, <2>2, <3>1
    <3> QED
      BY <1>1, <1>2, <1>4, <2>1, <3>2
  <2>3. CASE k # 0
    <3>1. he.got[1] = g[1] /\ g[k] = [n |-> n, i |-> g[1].i + k - 1] /\ g[k].i = v.data[n]
      BY <1>4, <1>5, <1>6, <2>3
    <3>2. g[1].i + k - 1 = v.data[n]
      BY <3>1
    <3>3. g[1].i + (k + 1) - 1 = v.data[n] + 1
      <4> DEFINE start == g[1].i
                 last == v.data[n]
      <4>1. start \in Nat /\ k \in Nat /\ last \in Nat /\ start + k - 1 = last
        BY <1>1, <1>6, <2>3, <3>2
      <4> HIDE DEF start, last
      <4>2. start + (k + 1) - 1 = last + 1
        BY <4>1
      <4> QED
        BY <4>2 DEF start, last
    <3> QED
      BY <1>1, <1>2, <1>4, <2>1, <3>1, <3>3
  <2> QED
    BY <2>2, <2>3
<1>8. ASSUME NEW i \in 1 .. k
      PROVE  he.got[i] = [n |-> n, i |-> he.got[1].i + i - 1] /\ he.got[i].i <= w.data[n]
  <2>1. he.got[i] = g[i] /\ g[i] \in Pieces
    BY <1>4
  <2>2. 1 \in 1 .. k
    BY <1>1
  <2>3. he.got[1] = g[1] /\ g[i].i \in Nat
    BY <1>4, <2>1, <2>2 DEF Pieces
  <2>4. g[i] = [n |-> n, i |-> g[1].i + i - 1] /\ g[i].i <= v.data[n]
    BY <1>5
  <2>5. g[i].i <= w.data[n]
    BY <1>1, <2>3, <2>4
  <2> QED
    BY <2>1, <2>3, <2>4, <2>5
<1>9. \A i \in 1 .. k + 1 : i \in 1 .. k \/ i = k + 1
  BY <1>1
<1>10. he.n = n /\ w.data[n] <= w.data[n]
  BY <1>1 DEF n
<1>11. DataInOrder(w, he)
  BY <1>4, <1>7, <1>8, <1>9, <1>10 DEF DataInOrder
<1>12. LastRead(w, he)
  BY <1>4, <1>7, <1>10 DEF LastRead
<1>13. AllRead(v, hd) => AllRead(w, he)
  <2> SUFFICES ASSUME AllRead(v, hd), he.open, w.open[he.sid], w.last[he.sid] = he.n
               PROVE  Len(he.got) = w.data[he.n]
    BY DEF AllRead
  <2>1. k = Len(hd.got) /\ n = hd.n
    BY DEF k, g, n
  <2>2. k = v.data[n]
    BY <2>1 DEF AllRead
  <2> QED
    BY <1>1, <1>4, <1>10, <2>2
<1> QED
  BY <1>11, <1>12, <1>13

(* What data does: a new EaSession gets it, for a session that has none in *)
(* its channel; the one in the channel gets it; or nobody does, as the     *)
(* application has dropped it.                                             *)
Fed(hd, n, i) == [hd EXCEPT !.got = Append(@, [n |-> n, i |-> i])]

GivenNew(s, n, i) ==
  /\ channels[s] = 0 /\ pc' = "top" /\ pending /\ ~ pending'
  /\ channels' = [channels EXCEPT ![s] = Len(handles) + 1]
  /\ Len(handles') = Len(handles) + 1
  /\ \A h \in 1 .. Len(handles) : handles'[h] = handles[h]
  /\ handles'[Len(handles) + 1] = Fed(Handle(s, n), n, i)

GivenOld(s, n, i) ==
  LET c == channels[s]
  IN  /\ Held(s) /\ handles[c].open /\ pc' = "top" /\ UNCHANGED channels
      /\ Len(handles') = Len(handles)
      /\ \A h \in 1 .. Len(handles) : h # c => handles'[h] = handles[h]
      /\ handles'[c] = Fed(handles[c], n, i)

GivenNobody(s) ==
  /\ UNCHANGED handles
  /\ Held(s) => ~ handles[channels[s]].open
  /\ \/ channels' = [channels EXCEPT ![s] = 0] /\ pc' = "top"
     \/ channels' = [channels EXCEPT ![s] = Len(handles) + 1] /\ pc' = "failed"

LEMMA EaDataCases ==
  ASSUME Types, EaData, \A t \in LinkSids : channels[t] <= Len(handles)
  PROVE  LET s == fromDev[1].arg.sid
             n == fromDev[1].arg.n
             i == fromDev[1].arg.i
         IN  /\ pc = "select" /\ UNCHANGED events /\ IsEaData(s)
             /\ fromDev # <<>> /\ fromDev' = Tail(fromDev)
             /\ transferIds' = [transferIds EXCEPT ![s] = n] /\ (pending' => pending)
             /\ GivenNew(s, n, i) \/ GivenOld(s, n, i) \/ GivenNobody(s)
<1> DEFINE s == fromDev[1].arg.sid
           n == fromDev[1].arg.n
           i == fromDev[1].arg.i
           k == Len(handles)
           register == Registers(s)
           known == IF register THEN Append(handles, Handle(s, n)) ELSE handles
           h == IF register THEN Len(known) ELSE channels[s]
           p == [n |-> n, i |-> i]
<1>1. \A m : Takes(m) => m = fromDev[1] /\ m \in DevMessages
  BY TakesTypes DEF Takes, Types, ArrivingTypes
<1>2. /\ fromDev # <<>> /\ fromDev' = Tail(fromDev) /\ fromDev[1].kind = "EaData" /\ IsEaData(s)
      /\ fromDev[1] \in DevMessages
      /\ transferIds' = [transferIds EXCEPT ![s] = n] /\ pc = "select" /\ UNCHANGED events
      /\ pending' = (pending /\ ~ register)
      /\ \/ /\ register /\ pc' = "failed" /\ channels' = [channels EXCEPT ![s] = k + 1]
            /\ UNCHANGED handles
         \/ /\ h # 0 /\ known[h].open /\ pc' = "top"
            /\ handles' = [known EXCEPT ![h].got = Append(@, p)]
            /\ channels' = [channels EXCEPT ![s] = h]
         \/ /\ ~ (h # 0 /\ known[h].open) /\ pc' = "top"
            /\ channels' = [channels EXCEPT ![s] = 0] /\ UNCHANGED handles
  BY ZenonT(60), <1>1 DEF EaData, Registered, Goes, GoesOn, Ready, Takes
<1>3. s \in LinkSids /\ n \in Nat /\ i \in Nat /\ p \in Pieces
  BY <1>2, ArgTypes DEF Pieces
<1>4. /\ handles \in Seq(Handles) /\ k \in Nat /\ channels \in [LinkSids -> 0 .. k + 1]
      /\ channels[s] \in 0 .. k
  <2>1. handles \in Seq(Handles) /\ k \in Nat /\ channels \in [LinkSids -> 0 .. k + 1]
    BY DEF Types, EaTypes
  <2>2. channels[s] \in 0 .. k + 1 /\ channels[s] <= k
    BY <1>3, <2>1
  <2> QED
    BY <2>1, <2>2
<1>5. /\ Append(handles, Handle(s, n)) \in Seq(Handles)
      /\ Len(Append(handles, Handle(s, n))) = k + 1
      /\ Append(handles, Handle(s, n))[k + 1] = Handle(s, n)
      /\ \A g \in 1 .. k : Append(handles, Handle(s, n))[g] = handles[g]
  BY <1>3, <1>4, NewHandleTypes
<1>6. ASSUME h # 0, handles' = [known EXCEPT ![h].got = Append(@, p)]
      PROVE  /\ Len(handles') = Len(known) /\ handles'[h] = Fed(known[h], n, i)
             /\ \A g \in 1 .. Len(known) : g # h => handles'[g] = known[g]
  <2>1. known \in Seq(Handles) /\ h \in 1 .. Len(known) /\ h \in Nat
    <3>1. CASE register
      <4>1. known = Append(handles, Handle(s, n)) /\ h = Len(known)
        BY <3>1
      <4> HIDE DEF known, h
      <4> QED
        BY <1>4, <1>5, <4>1
    <3>2. CASE ~ register
      <4>1. known = handles /\ h = channels[s] /\ k = Len(handles)
        BY <3>2
      <4>2. h # 0 /\ channels[s] \in 0 .. k
        BY <1>4, <1>6
      <4> HIDE DEF known, h, k
      <4>3. channels[s] \in 1 .. k /\ channels[s] \in Nat
        BY <1>4, <4>1, <4>2
      <4> QED
        BY <1>4, <4>1, <4>3
    <3> QED
      BY <3>1, <3>2
  <2> HIDE DEF known, h, p
  <2>2. LET gs == [known EXCEPT ![h].got = Append(@, p)]
        IN  gs \in Seq(Handles) /\ Len(gs) = Len(known)
    BY <1>3, <2>1, GetsTypes
  <2>3. \A g \in 1 .. Len(known) :
          handles'[g] = IF g = h THEN [known[g] EXCEPT !.got = Append(@, p)] ELSE known[g]
    BY SMTT(30), <1>6, <2>1
  <2>4. Fed(known[h], n, i) = [known[h] EXCEPT !.got = Append(@, p)]
    BY DEF Fed, p
  <2>5. Len(handles') = Len(known)
    BY <1>6, <2>2
  <2>6. handles'[h] = [known[h] EXCEPT !.got = Append(@, p)]
    BY <2>1, <2>3
  <2>7. \A g \in 1 .. Len(known) : g # h => handles'[g] = known[g]
    BY <2>3
  <2> QED
    BY <2>4, <2>5, <2>6, <2>7
<1> HIDE DEF s, n, i, p, k
<1>7. CASE register /\ pc' = "failed" /\ channels' = [channels EXCEPT ![s] = k + 1]
           /\ UNCHANGED handles
  <2>1. ~ Held(s)
    BY <1>7 DEF Registers, Held
  <2> QED
    BY <1>2, <1>7, <2>1 DEF GivenNobody, k, s, n, i
<1>8. CASE /\ h # 0 /\ known[h].open /\ pc' = "top"
           /\ handles' = [known EXCEPT ![h].got = Append(@, p)]
           /\ channels' = [channels EXCEPT ![s] = h]
  <2>0. /\ Len(handles') = Len(known) /\ handles'[h] = Fed(known[h], n, i)
        /\ \A g \in 1 .. Len(known) : g # h => handles'[g] = known[g]
    <3> HIDE DEF known, h
    <3> QED
      BY <1>6, <1>8
  <2>1. CASE register
    <3>1. /\ known = Append(handles, Handle(s, n)) /\ h = k + 1 /\ channels[s] = 0
          /\ k + 1 \in 1 .. k + 1
      BY <1>4, <1>5, <2>1 DEF Registers
    <3>6. pending /\ ~ pending'
      BY <1>2, <2>1 DEF Registers
    <3> HIDE DEF known, h
    <3>2. /\ Len(handles') = k + 1 /\ handles'[k + 1] = Fed(Handle(s, n), n, i)
          /\ \A g \in 1 .. k + 1 : g # k + 1 => handles'[g] = Append(handles, Handle(s, n))[g]
      BY <1>5, <2>0, <3>1
    <3>3. \A g \in 1 .. k : g \in 1 .. k + 1 /\ g # k + 1
      BY <1>4
    <3>4. \A g \in 1 .. k : handles'[g] = handles[g]
      BY <1>5, <3>2, <3>3
    <3>5. GivenNew(s, n, i)
      BY <1>8, <3>1, <3>2, <3>4, <3>6 DEF GivenNew, k
    <3> QED
      BY <1>2, <3>5 DEF s, n, i
  <2>2. CASE ~ register
    <3>1. known = handles /\ h = channels[s] /\ h \in 1 .. k
      BY <1>4, <1>8, <2>2
    <3> HIDE DEF known, h
    <3>2. [channels EXCEPT ![s] = channels[s]] = channels
      BY <1>3, <1>4
    <3>3. k = Len(handles)
      BY DEF k
    <3>4. /\ Len(handles') = k /\ handles'[h] = Fed(handles[h], n, i)
          /\ \A g \in 1 .. k : g # h => handles'[g] = handles[g]
      BY <2>0, <3>1, <3>3
    <3>5. GivenOld(s, n, i)
      BY <1>8, <3>1, <3>2, <3>3, <3>4 DEF GivenOld, Held
    <3> QED
      BY <1>2, <3>5 DEF s, n, i
  <2> QED
    BY <2>1, <2>2
<1>9. CASE /\ ~ (h # 0 /\ known[h].open) /\ pc' = "top"
           /\ channels' = [channels EXCEPT ![s] = 0] /\ UNCHANGED handles
  <2>1. CASE register
    <3>1. ~ Held(s)
      BY <2>1 DEF Registers, Held
    <3> QED
      BY <1>2, <1>9, <3>1 DEF GivenNobody, s, n, i
  <2>2. CASE ~ register
    <3>1. Held(s) => ~ handles[channels[s]].open
      BY <1>9, <2>2 DEF Held
    <3> QED
      BY <1>2, <1>9, <3>1 DEF GivenNobody, s, n, i
  <2> QED
    BY <2>1, <2>2
<1> QED
  BY <1>2, <1>7, <1>8, <1>9

LEMMA EaDataTask ==
  ASSUME Types, EaData, NEW v \in Views, TaskAt(v), Valid(v), NEW w \in Views,
         Carries(v, fromDev[1], w)
  PROVE  TaskAt(w)'
<1> DEFINE s == fromDev[1].arg.sid
           n == fromDev[1].arg.n
           i == fromDev[1].arg.i
           k == Len(handles)
           c == channels'[s]
           FirstAfter(h) == \A g \in 1 .. h - 1 : handles'[g].n # handles'[h].n
<1>1. /\ s \in Sids /\ v.open[s] /\ n = v.last[s] /\ n \in Nat /\ i = v.data[n] + 1
      /\ w.last = v.last /\ w.top = v.top /\ w.open = v.open
      /\ w.data = [v.data EXCEPT ![n] = @ + 1]
      /\ n \in 1 .. v.top
  <2>1. /\ s \in Sids /\ v.open[s] /\ n = v.last[s] /\ i = v.data[n] + 1
        /\ w.last = v.last /\ w.top = v.top /\ w.open = v.open
        /\ w.data = [v.data EXCEPT ![n] = @ + 1]
    BY DEF Carries
  <2> HIDE DEF s, n, i
  <2>2. n \in Nat /\ v.top \in Nat /\ n <= v.top /\ n # 0
    BY <2>1 DEF Views, Valid
  <2> QED
    BY <2>1, <2>2
<1>2. /\ s \in LinkSids /\ Sids \subseteq LinkSids
      /\ handles \in Seq(Handles) /\ k \in Nat /\ k = Len(handles)
      /\ channels \in [LinkSids -> 0 .. k + 1]
  <2>1. handles \in Seq(Handles) /\ k \in Nat /\ k = Len(handles)
    BY DEF Types, EaTypes
  <2> QED
    BY <1>1, <2>1, SidTypes DEF Types, EaTypes
<1>3. pc = "select" /\ Alive /\ \A t \in LinkSids : channels[t] <= k
  <2>1. pc = "select"
    BY DEF EaData, Ready
  <2> QED
    BY <2>1 DEF Alive, TaskAt, ChannelsFit
<1>4. /\ UNCHANGED events /\ IsEaData(s) /\ transferIds' = [transferIds EXCEPT ![s] = n]
      /\ GivenNew(s, n, i) \/ GivenOld(s, n, i) \/ GivenNobody(s)
  <2>1. \A t \in LinkSids : channels[t] <= Len(handles)
    BY <1>3
  <2> QED
    BY <2>1, EaDataCases
<1> HIDE DEF s, n, i, k, c
<1>5. ASSUME NEW h \in 1 .. k, handles[h].n = n
      PROVE  handles[h].sid = s /\ (handles[h].open => channels[s] = h)
  BY <1>1, <1>2, <1>5 DEF TaskAt, HandlesFit
<1>6. PICK g0 \in 1 .. k : handles[g0].n = n
  BY <1>1, <1>2, <1>3 DEF TaskAt, HandlesFit
<1>7. ASSUME NEW h \in 1 .. k
      PROVE  /\ handles[h] \in Handles /\ handles[h].n \in 1 .. v.top /\ handles[h].sid \in Sids
             /\ DataInOrder(v, handles[h]) /\ handles[h].n <= Opened
             /\ channels[handles[h].sid] = h => LastRead(v, handles[h])
             /\ First(h) => AllRead(v, handles[h])
  <2>1. handles[h] \in Handles
    BY <1>2
  <2>2. handles[h].n \in 1 .. v.top /\ handles[h].sid \in Sids
    BY <1>2 DEF TaskAt, HandlesFit
  <2> QED
    BY <1>2, <2>1, <2>2 DEF TaskAt, DataFits, OpenedAreTold
<1>8. ASSUME NEW hd \in Handles, hd.sid = s, hd.n = n, DataInOrder(v, hd), LastRead(v, hd)
      PROVE  LET he == Fed(hd, n, i)
             IN  /\ he.sid = s /\ he.n = n /\ he.open = hd.open
                 /\ DataInOrder(w, he) /\ LastRead(w, he) /\ (AllRead(v, hd) => AllRead(w, he))
  <2> DEFINE p == [n |-> n, i |-> i]
             he == Fed(hd, n, i)
  <2>1. i \in Nat /\ p \in Pieces
    BY <1>1 DEF Pieces, Views
  <2>2. hd.got \in Seq(Pieces)
    BY DEF Handles
  <2>3. Append(hd.got, p) \in Seq(Pieces)
    <3> HIDE DEF p
    <3> QED
      BY <2>1, <2>2
  <2>4. /\ he \in Handles /\ he.sid = hd.sid /\ he.n = hd.n /\ he.open = hd.open
        /\ he.got = Append(hd.got, p)
    BY <2>3 DEF Fed, Handles
  <2>5. p = [n |-> hd.n, i |-> v.data[hd.n] + 1]
    BY <1>1, <1>8
  <2> HIDE DEF he, p
  <2>6. DataInOrder(w, he) /\ LastRead(w, he) /\ (AllRead(v, hd) => AllRead(w, he))
    BY <1>1, <1>4, <1>8, <2>4, <2>5, DataAdded
  <2> QED
    BY <1>8, <2>4, <2>6 DEF he
<1>9. /\ \A t \in LinkSids : t # s => channels'[t] = channels[t]
      /\ c \in 0 .. k + 1 /\ Len(handles') \in {k, k + 1}
      /\ Len(handles') = k + 1 => c = k + 1
      /\ Alive' => c <= Len(handles')
      /\ \A h \in 1 .. k : h # c =>
           handles'[h] = handles[h] /\ (handles[h].n = n => ~ handles[h].open)
      /\ c \in 1 .. Len(handles') =>
           /\ handles'[c].sid = s /\ handles'[c].n = n /\ handles'[c].open
           /\ DataInOrder(w, handles'[c]) /\ LastRead(w, handles'[c])
           /\ FirstAfter(c) => AllRead(w, handles'[c])
  <2>1. CASE GivenNew(s, n, i)
    <3>1. /\ channels[s] = 0 /\ channels' = [channels EXCEPT ![s] = k + 1]
          /\ Len(handles') = k + 1 /\ \A h \in 1 .. k : handles'[h] = handles[h]
          /\ handles'[k + 1] = Fed(Handle(s, n), n, i)
      BY <2>1 DEF GivenNew, k
    <3>2. c = k + 1 /\ \A t \in LinkSids : t # s => channels'[t] = channels[t]
      BY <1>2, <3>1 DEF c
    <3>3. \A h \in 1 .. k : handles[h].n = n => ~ handles[h].open
      <4>1. \A h \in 1 .. k : h # 0
        BY <1>2
      <4> QED
        BY <1>5, <3>1, <4>1
    <3>4. /\ handles'[c].sid = s /\ handles'[c].n = n /\ handles'[c].open
          /\ DataInOrder(w, handles'[c]) /\ LastRead(w, handles'[c])
      <4> DEFINE hd == Handle(s, n)
      <4>1. hd \in Handles /\ hd.sid = s /\ hd.n = n /\ hd.got = <<>> /\ hd.open
        BY <1>1, <1>2, HandleType DEF Handle
      <4>2. DataInOrder(v, hd) /\ LastRead(v, hd)
        <5>1. Len(<<>>) = 0 /\ \A j \in 1 .. 0 : FALSE
          OBVIOUS
        <5> HIDE DEF hd
        <5> QED
          BY <4>1, <5>1 DEF DataInOrder, LastRead
      <4> HIDE DEF hd
      <4>3. handles'[c] = Fed(hd, n, i)
        BY <3>1, <3>2 DEF hd
      <4> QED
        BY <1>8, <4>1, <4>2, <4>3
    <3>5. ~ FirstAfter(c)
      <4>1. g0 \in 1 .. c - 1 /\ handles'[g0].n = n
        BY <1>2, <1>6, <3>1, <3>2
      <4> QED
        BY <3>4, <4>1
    <3> QED
      BY <1>2, <3>1, <3>2, <3>3, <3>4, <3>5
  <2>2. CASE GivenOld(s, n, i)
    <3>1. /\ channels[s] \in 1 .. k /\ handles[channels[s]].open /\ UNCHANGED channels
          /\ Len(handles') = k
          /\ \A h \in 1 .. k : h # channels[s] => handles'[h] = handles[h]
          /\ handles'[channels[s]] = Fed(handles[channels[s]], n, i)
      BY <2>2 DEF GivenOld, Held, k
    <3>2. c = channels[s] /\ c \in 1 .. k
      BY <3>1 DEF c
    <3>3. \A h \in 1 .. k : h # c /\ handles[h].n = n => ~ handles[h].open
      BY <1>5, <3>2
    <3>4. handles[c].sid = s /\ handles[c].n = n /\ handles[c].open
      <4>1. Held(s)
        BY <1>2, <3>1 DEF Held
      <4> QED
        BY <1>1, <1>2, <3>1, <3>2, <4>1 DEF TaskAt, ChannelsFit
    <3>5. DataInOrder(v, handles[c]) /\ LastRead(v, handles[c]) /\ handles[c] \in Handles
      BY <1>7, <3>2, <3>4
    <3>6. FirstAfter(c) => First(c)
      <4>1. \A g \in 1 .. c - 1 : g \in 1 .. k /\ g # c
        BY <1>2, <3>2
      <4>2. handles'[c].n = n
        BY <1>8, <3>1, <3>2, <3>4, <3>5
      <4> QED
        BY <3>1, <3>2, <3>4, <4>1, <4>2 DEF First
    <3>7. /\ handles'[c].sid = s /\ handles'[c].n = n /\ handles'[c].open
          /\ DataInOrder(w, handles'[c]) /\ LastRead(w, handles'[c])
          /\ FirstAfter(c) => AllRead(w, handles'[c])
      <4>1. handles'[c] = Fed(handles[c], n, i)
        BY <3>1, <3>2
      <4>2. FirstAfter(c) => AllRead(v, handles[c])
        BY <1>7, <3>2, <3>6
      <4> QED
        BY <1>8, <3>4, <3>5, <4>1, <4>2
    <3>8. c \in 0 .. k + 1 /\ c <= Len(handles') /\ k # k + 1
      BY <1>2, <3>1, <3>2
    <3> QED
      BY <3>1, <3>2, <3>3, <3>7, <3>8
  <2>3. CASE GivenNobody(s)
    <3>1. /\ UNCHANGED handles /\ (channels[s] \in 1 .. k => ~ handles[channels[s]].open)
          /\ \/ channels' = [channels EXCEPT ![s] = 0]
             \/ channels' = [channels EXCEPT ![s] = k + 1] /\ pc' = "failed"
      BY <2>3 DEF GivenNobody, Held, k
    <3>2. /\ c = 0 \/ (c = k + 1 /\ ~ Alive')
          /\ \A t \in LinkSids : t # s => channels'[t] = channels[t]
      BY <1>2, <3>1 DEF c, Alive
    <3>3. \A h \in 1 .. k : handles[h].n = n => ~ handles[h].open
      BY <1>5, <3>1
    <3>4. c \notin 1 .. k /\ Len(handles') = k /\ k # k + 1 /\ c \in 0 .. k + 1
          /\ (Alive' => c <= k)
      BY <1>2, <3>1, <3>2
    <3> QED
      BY <3>1, <3>2, <3>3, <3>4
  <2> QED
    BY <1>4, <2>1, <2>2, <2>3
<1>10. /\ 1 .. k \subseteq 1 .. Len(handles')
       /\ \A h \in 1 .. Len(handles') :
            h = c \/ (h \in 1 .. k /\ handles'[h] = handles[h]
                       /\ (handles[h].n = n => ~ handles[h].open))
  <2>1. 1 .. k \subseteq 1 .. Len(handles')
    BY <1>2, <1>9
  <2>2. ASSUME NEW h \in 1 .. Len(handles'), h # c PROVE h \in 1 .. k
    BY <1>2, <1>9, <2>2
  <2> QED
    BY <1>9, <2>1, <2>2
<1>b. c \in 1 .. k => handles[c].sid = s /\ handles[c].n = n /\ handles[c].open
  <2> SUFFICES ASSUME c \in 1 .. k
               PROVE  handles[c].sid = s /\ handles[c].n = n /\ handles[c].open
    OBVIOUS
  <2>1. c # 0 /\ c # k + 1
    BY <1>2
  <2>2. GivenOld(s, n, i)
    BY <1>2, <1>4, <2>1 DEF GivenNew, GivenNobody, c, k
  <2>3. Held(s) /\ c = channels[s] /\ handles[c].open
    BY <2>2 DEF GivenOld, c
  <2> QED
    BY <1>1, <1>2, <2>3 DEF TaskAt, ChannelsFit
<1>a. \A t \in Sids : v.last[t] = n => t = s
  BY <1>1 DEF Valid
<1>11. ChannelsFit(w)'
  <2>1. ASSUME NEW t \in LinkSids, Held(t)'
        PROVE  /\ t \in Sids /\ w.open[t]
               /\ handles'[channels'[t]].sid = t /\ handles'[channels'[t]].n = w.last[t]
    <3>1. CASE t = s
      <4>1. c \in 1 .. Len(handles')
        BY <2>1, <3>1 DEF Held, c
      <4> QED
        BY <1>1, <1>9, <3>1, <4>1 DEF c
    <3>2. CASE t # s
      <4> DEFINE d == channels[t]
      <4>1. channels'[t] = d /\ d \in 1 .. k
        BY <1>2, <1>3, <1>9, <2>1, <3>2 DEF Held
      <4>2. /\ t \in Sids /\ v.open[t] /\ handles[d].sid = t /\ handles[d].n = v.last[t]
        BY <1>2, <4>1 DEF TaskAt, ChannelsFit, Held
      <4> HIDE DEF d
      <4>3. d # c
        BY <1>b, <3>2, <4>1, <4>2
      <4>4. handles'[d] = handles[d]
        BY <1>9, <4>1, <4>3
      <4> QED
        BY <1>1, <4>1, <4>2, <4>4
    <3> QED
      BY <3>1, <3>2
  <2>2. ASSUME Alive', NEW t \in LinkSids PROVE channels'[t] <= Len(handles')
    <3>1. CASE t = s
      BY <1>9, <2>2, <3>1 DEF c
    <3>2. CASE t # s
      BY <1>2, <1>3, <1>9, <3>2
    <3> QED
      BY <3>1, <3>2
  <2> QED
    BY <2>1, <2>2 DEF ChannelsFit
<1>12. TransferIdsFit(w)'
  <2>1. \A t \in LinkSids : transferIds'[t] = IF t = s THEN n ELSE transferIds[t]
    BY <1>2, <1>4 DEF Types, EaTypes
  <2> QED
    BY <1>1, <2>1 DEF TaskAt, TransferIdsFit
<1>13. HandlesFit(w)'
  <2>1. ASSUME NEW h \in 1 .. Len(handles')
        PROVE  handles'[h].n \in 1 .. w.top /\ handles'[h].sid \in Sids
    <3>1. CASE h = c
      BY <1>1, <1>9, <3>1
    <3>2. CASE h \in 1 .. k /\ handles'[h] = handles[h]
      BY <1>1, <1>7, <3>2
    <3> QED
      BY <1>10, <3>1, <3>2
  <2>2. ASSUME NEW h \in 1 .. Len(handles'), NEW t \in Sids, handles'[h].n = w.last[t]
        PROVE  handles'[h].sid = t /\ (w.open[t] /\ handles'[h].open => channels'[t] = h)
    <3>1. CASE h = c
      <4>1. t = s
        BY <1>1, <1>9, <1>a, <2>2, <3>1
      <4> QED
        BY <1>9, <3>1, <4>1 DEF c
    <3>2. CASE /\ h \in 1 .. k /\ handles'[h] = handles[h]
               /\ handles[h].n = n => ~ handles[h].open
      <4>1. handles[h].sid = t /\ (v.open[t] /\ handles[h].open => channels[t] = h)
        BY <1>1, <1>2, <2>2, <3>2 DEF TaskAt, HandlesFit
      <4>2. t = s => ~ handles[h].open
        BY <1>1, <2>2, <3>2
      <4>3. t # s => channels'[t] = channels[t]
        BY <1>2, <1>9
      <4> QED
        BY <1>1, <3>2, <4>1, <4>2, <4>3
    <3> QED
      BY <1>10, <3>1, <3>2
  <2>3. ASSUME Alive', NEW t \in Sids, w.open[t]
        PROVE  \E g \in 1 .. Len(handles') : Newest(g, t)' /\ handles'[g].n = w.last[t]
    <3>1. PICK g \in 1 .. k : Newest(g, t) /\ handles[g].n = v.last[t]
      BY <1>1, <1>2, <1>3, <2>3 DEF TaskAt, HandlesFit
    <3>2. \A h \in 1 .. k : handles'[h].n = handles[h].n /\ handles'[h].sid = handles[h].sid
      BY <1>9, <1>10, <1>b
    <3>3. CASE Len(handles') = k + 1 /\ t = s
      <4>1. /\ c = k + 1 /\ c \in 1 .. Len(handles') /\ handles'[c].n = w.last[t]
            /\ \A h \in 1 .. Len(handles') : ~ h > c
        BY <1>1, <1>2, <1>9, <3>3
      <4> QED
        BY <4>1 DEF Newest
    <3>4. CASE ~ (Len(handles') = k + 1 /\ t = s)
      <4>1. \A h \in 1 .. k : h > g => handles[h].sid # t
        BY <1>2, <3>1 DEF Newest
      <4>2. ASSUME NEW h \in 1 .. Len(handles'), h > g PROVE handles'[h].sid # t
        <5>1. CASE h \in 1 .. k
          BY <3>2, <4>1, <4>2, <5>1
        <5>2. CASE h \notin 1 .. k
          <6>1. h = c /\ Len(handles') = k + 1
            BY <1>2, <1>9, <1>10, <5>2
          <6> QED
            BY <1>9, <3>4, <6>1
        <5> QED
          BY <5>1, <5>2
      <4> QED
        BY <1>1, <1>10, <3>1, <3>2, <4>2 DEF Newest
    <3> QED
      BY <3>3, <3>4
  <2>4. ASSUME NEW g \in 1 .. Len(handles'), NEW h \in 1 .. Len(handles'),
               g < h, handles'[g].n = handles'[h].n
        PROVE  ~ handles'[g].open
    <3>1. CASE h = c
      <4>1. g # c /\ handles'[h].n = n
        BY <1>9, <2>4, <3>1
      <4> QED
        BY <1>10, <2>4, <4>1
    <3>3. CASE g = c
      <4>1. /\ h # c /\ h \in 1 .. k /\ handles'[h] = handles[h] /\ handles'[c].n = n
        BY <1>9, <1>10, <2>4, <3>3
      <4>2. c \in 1 .. k
        BY <1>2, <2>4, <3>3, <4>1
      <4> QED
        BY <1>2, <1>b, <2>4, <3>3, <4>1, <4>2 DEF TaskAt, HandlesFit
    <3>2. CASE g # c /\ h # c
      <4>1. /\ g \in 1 .. k /\ h \in 1 .. k
            /\ handles'[g] = handles[g] /\ handles'[h] = handles[h]
        BY <1>10, <3>2
      <4> QED
        BY <1>2, <2>4, <4>1 DEF TaskAt, HandlesFit
    <3> QED
      BY <3>1, <3>2, <3>3
  <2> QED
    BY <2>1, <2>2, <2>3, <2>4 DEF HandlesFit
<1>14. DataFits(w)'
  <2>1. ASSUME NEW h \in 1 .. k, h # c, FirstAfter(h) PROVE First(h)
    <3>1. handles'[h] = handles[h] /\ handles[h].n \in Nat
      BY <1>7, <1>9, <2>1
    <3>2. ASSUME NEW g \in 1 .. h - 1 PROVE handles[g].n # handles[h].n
      <4>1. g \in 1 .. k /\ handles'[g].n # handles[h].n
        BY <1>2, <2>1, <3>1
      <4>2. g # c => handles'[g] = handles[g]
        BY <1>9, <4>1
      <4>3. g = c => handles'[g].n = handles[g].n
        BY <1>9, <1>10, <1>b, <4>1
      <4> QED
        BY <4>1, <4>2, <4>3
    <3> QED
      BY <3>2 DEF First
  <2>2. ASSUME NEW h \in 1 .. k, h # c
        PROVE  /\ DataInOrder(w, handles[h])
               /\ channels'[handles[h].sid] = h => LastRead(w, handles[h])
               /\ FirstAfter(h) => AllRead(w, handles[h])
    <3> DEFINE hd == handles[h]
    <3>1. /\ hd \in Handles /\ hd.sid \in Sids /\ hd.sid \in LinkSids
          /\ DataInOrder(v, hd) /\ (channels[hd.sid] = h => LastRead(v, hd))
          /\ FirstAfter(h) => AllRead(v, hd)
          /\ hd.n = n => ~ hd.open /\ hd.sid = s
      BY <1>2, <1>5, <1>7, <1>9, <2>1, <2>2
    <3> HIDE DEF hd
    <3>2. channels'[hd.sid] = h => hd.sid # s /\ channels[hd.sid] = h
      BY <1>9, <2>2, <3>1 DEF c
    <3>3. CASE hd.n = n
      <4>1. ~ hd.open /\ hd.sid = s
        BY <3>1, <3>3
      <4>2. DataInOrder(w, hd)
        <5>1. v.data[n] \in Nat /\ w.data[n] = v.data[n] + 1 /\ n \in Nat
          BY <1>1 DEF Views
        <5>2. ASSUME NEW j \in 1 .. Len(hd.got) PROVE hd.got[j].i <= w.data[n]
          <6>1. hd.got[j].i <= v.data[n]
            BY <3>1, <3>3 DEF DataInOrder
          <6>2. hd.got \in Seq(Pieces)
            BY <3>1 DEF Handles
          <6>3. hd.got[j] \in Pieces
            BY <6>2
          <6>4. hd.got[j].i \in Nat
            BY <6>3 DEF Pieces
          <6> QED
            BY <5>1, <6>1, <6>4
        <5> QED
          BY <3>1, <3>3, <5>2 DEF DataInOrder
      <4> QED
        BY <3>2, <4>1, <4>2 DEF AllRead, hd
    <3>4. CASE hd.n # n
      <4>1. w.data[hd.n] = v.data[hd.n]
        BY <1>1, <3>1, <3>4 DEF Views, Handles
      <4>2. /\ DataInOrder(w, hd) /\ (channels'[hd.sid] = h => LastRead(w, hd))
            /\ FirstAfter(h) => AllRead(w, hd)
        BY <1>1, <3>1, <3>2, <4>1, DataKept
      <4> QED
        BY <4>2 DEF hd
    <3> QED
      BY <3>3, <3>4
  <2>3. ASSUME NEW h \in 1 .. Len(handles')
        PROVE  /\ DataInOrder(w, handles'[h])
               /\ channels'[handles'[h].sid] = h => LastRead(w, handles'[h])
               /\ FirstAfter(h) => AllRead(w, handles'[h])
    <3>1. CASE h = c
      <4>1. c \in 1 .. Len(handles')
        BY <3>1
      <4> HIDE DEF FirstAfter
      <4> QED
        BY <1>9, <3>1, <4>1
    <3>2. CASE h # c
      <4>1. h \in 1 .. k /\ handles'[h] = handles[h]
        BY <1>10, <3>2
      <4> HIDE DEF FirstAfter
      <4> QED
        BY <2>2, <3>2, <4>1
    <3> QED
      BY <3>1, <3>2
  <2>4. \A h \in 1 .. Len(handles') : First(h)' => FirstAfter(h)
    BY DEF First
  <2> HIDE DEF FirstAfter
  <2> QED
    BY <2>3, <2>4 DEF DataFits
<1>15. OpenedAreTold(w)'
  <2>1. Opened' = Opened /\ v.top = Opened
    BY <1>3, <1>4 DEF Opened, Positions, TaskAt, OpenedAreTold
  <2>2. Opened \in Nat
    BY OpenedType
  <2>3. ASSUME NEW h \in 1 .. Len(handles') PROVE handles'[h].n <= Opened
    <3>1. CASE h = c
      <4>1. handles'[h].n = n
        BY <1>9, <3>1
      <4> QED
        BY <1>1, <2>1, <2>2, <4>1
    <3>2. CASE h # c
      BY <1>7, <1>10, <3>2
    <3> QED
      BY <3>1, <3>2
  <2> QED
    BY <1>1, <2>1, <2>3 DEF OpenedAreTold
<1> QED
  BY <1>11, <1>12, <1>13, <1>14, <1>15 DEF TaskAt

-----------------------------------------------------------------------------
(* The device                                                              *)

LEMMA DeviceViewType == Types => DeviceView \in Views
<1> SUFFICES ASSUME Types PROVE DeviceView \in Views
  OBVIOUS
<1>1. /\ session \in [Sids -> Sessions] /\ sent \in Seq(Nat)
  BY DEF Types, DeviceTypes
<1>2. \A s \in Sids : session[s].n \in Nat /\ session[s].open \in BOOLEAN
  BY <1>1 DEF Sessions
<1>3. \A n \in Nat : (IF n \in 1 .. Len(sent) THEN sent[n] ELSE 0) \in Nat
  BY <1>1
<1> QED
  BY <1>1, <1>2, <1>3 DEF DeviceView, Views

LEMMA ExceptIs ==
  ASSUME NEW S, NEW T, NEW f \in [S -> T], NEW g \in [S -> T], NEW s \in S, NEW e,
         \A x \in S : g[x] = IF x = s THEN e ELSE f[x]
  PROVE  g = [f EXCEPT ![s] = e]
OBVIOUS

LEMMA DeviceMoves ==
  ASSUME Types, Types', ~ shared, Device
  PROVE  /\ UNCHANGED <<pc, channels, transferIds, handles, events>>
         /\ \E m \in DevMessages :
              fromDev' = Append(fromDev, m) /\ Moves(DeviceView, m, DeviceView')
<1> DEFINE a == DeviceView
           b == DeviceView'
           Goal ==
             /\ UNCHANGED <<pc, channels, transferIds, handles, events>>
             /\ \E m \in DevMessages : fromDev' = Append(fromDev, m) /\ Moves(a, m, b)
<1>4. /\ session \in [Sids -> Sessions] /\ sent \in Seq(Nat) /\ Len(sent) \in Nat
      /\ \A s \in Sids : session[s].open => session[s].n \in 1 .. Len(sent)
      /\ Sids \subseteq LinkSids
      /\ \A s \in Sids : a.last[s] = session[s].n /\ a.open[s] = session[s].open
      /\ a.top = Len(sent)
      /\ \A n \in Nat : a.data[n] = IF n \in 1 .. Len(sent) THEN sent[n] ELSE 0
  <2>1. session \in [Sids -> Sessions] /\ sent \in Seq(Nat) /\ Len(sent) \in Nat
    BY DEF Types, DeviceTypes
  <2>2. \A s \in Sids : session[s].open => session[s].n \in 1 .. Len(sent)
    BY DEF Types, DeviceTypes
  <2> QED
    BY <2>1, <2>2, SidTypes DEF DeviceView
<1>5. /\ b.last = [s \in Sids |-> session'[s].n] /\ b.open = [s \in Sids |-> session'[s].open]
      /\ b.top = Len(sent')
      /\ b.data = [n \in Nat |-> IF n \in 1 .. Len(sent') THEN sent'[n] ELSE 0]
      /\ a.last = [s \in Sids |-> session[s].n] /\ a.open = [s \in Sids |-> session[s].open]
      /\ a.data = [n \in Nat |-> IF n \in 1 .. Len(sent) THEN sent[n] ELSE 0]
  BY DEF DeviceView
<1>b. a \in Views /\ b \in Views
  <2>1. (Types => DeviceView \in Views)'
    BY DeviceViewType, PTL
  <2> QED
    BY <2>1, DeviceViewType
<1>c. /\ a.last \in [Sids -> Nat] /\ b.last \in [Sids -> Nat]
      /\ a.open \in [Sids -> BOOLEAN] /\ b.open \in [Sids -> BOOLEAN]
      /\ a.data \in [Nat -> Nat] /\ b.data \in [Nat -> Nat]
  BY <1>b DEF Views
<1>e. \A t \in Sids : b.last[t] = session'[t].n /\ a.last[t] = session[t].n
  BY DEF DeviceView
<1>f. \A t \in Sids : b.open[t] = session'[t].open /\ a.open[t] = session[t].open
  BY DEF DeviceView
<1>d. UNCHANGED <<session, sent>> => a = b
  BY DEF DeviceView
<1> SUFFICES Goal
  OBVIOUS
<1> HIDE DEF a, b, Goal
<1>1. ASSUME NEW kind \in FromDevice, NEW arg, Sends(kind, arg),
             Msg(kind, arg) \in DevMessages, Moves(a, Msg(kind, arg), b)
      PROVE  Goal
  BY <1>1 DEF Sends, task, eaVars, Goal
<1>2. ASSUME NEW kind \in FromDevice \ {"EaStart", "EaData", "EaStop"}, NEW arg, Sends(kind, arg),
             Msg(kind, arg) \in DevMessages, UNCHANGED <<session, sent>>
      PROVE  Goal
  <2>1. a = b
    BY <1>2, <1>d
  <2>2. Msg(kind, arg).kind = kind
    BY DEF Msg
  <2>3. Moves(a, Msg(kind, arg), b)
    BY <1>2, <2>1, <2>2 DEF Moves
  <2> QED
    BY <1>1, <1>2, <2>3
<1>3. ASSUME NEW kind \in PlainKinds, Sends(kind, 0), UNCHANGED <<session, sent>>
      PROVE  Goal
  <2> QED
    BY <1>2, <1>3, PlainMessages DEF PlainKinds
<1>6. ASSUME DevIdentifies \/ DevPlays PROVE Goal
  <2> QED
    BY <1>3, <1>6 DEF DevIdentifies, DevPlays, PlainKinds, FromDevice
<1>7. ASSUME DevAuthenticates PROVE Goal
  <2>1. \A c \in Challenges : Msg("Challenge", c) \in DevMessages
    BY DEF Msg, DevMessages
  <2> QED
    BY <1>2, <1>3, <1>7, <2>1 DEF DevAuthenticates, PlainKinds, FromDevice
<1>8. ASSUME NEW s \in Sids, DevOpens(s)
      PROVE  Goal
  <2> DEFINE n == Len(sent) + 1
             arg == [sid |-> s, n |-> n]
  <2>1. /\ ~ session[s].open /\ Sends("EaStart", arg)
        /\ session' = [session EXCEPT ![s] = [n |-> n, open |-> TRUE]]
        /\ sent' = Append(sent, 0)
    BY <1>8 DEF DevOpens
  <2>2. n \in Nat /\ Msg("EaStart", arg) \in DevMessages
    BY <1>4 DEF Msg, DevMessages
  <2>3. Msg("EaStart", arg).kind = "EaStart" /\ Msg("EaStart", arg).arg = arg /\ arg.sid = s /\ arg.n = n
    BY DEF Msg
  <2>4. Len(sent') = n /\ \A j \in 1 .. n : sent'[j] = IF j = n THEN 0 ELSE sent[j]
    BY <1>4, <2>1
  <2> HIDE DEF arg
  <2>a. \A t \in Sids : session'[t] = IF t = s THEN [n |-> n, open |-> TRUE] ELSE session[t]
    BY <1>4, <2>1
  <2>b. /\ \A t \in Sids : b.last[t] = IF t = s THEN n ELSE a.last[t]
        /\ \A t \in Sids : b.open[t] = IF t = s THEN TRUE ELSE a.open[t]
    <3>1. \A t \in Sids : b.last[t] = IF t = s THEN n ELSE a.last[t]
      BY <1>e, <2>a
    <3>2. ASSUME NEW t \in Sids PROVE b.open[t] = IF t = s THEN TRUE ELSE a.open[t]
      <4>1. CASE t = s
        <5>1. session'[t] = [n |-> n, open |-> TRUE]
          BY <2>a, <4>1
        <5>2. session'[t].open
          BY <5>1
        <5>3. b.open[t] \in BOOLEAN
          BY <1>c
        <5> QED
          BY <1>f, <4>1, <5>2, <5>3
      <4>2. CASE t # s
        <5>1. session'[t] = session[t]
          BY <2>a, <4>2
        <5> QED
          BY <1>f, <4>2, <5>1
      <4> QED
        BY <4>1, <4>2
    <3> QED
      BY <3>1, <3>2
  <2>5. b.last = [a.last EXCEPT ![s] = n]
    BY <1>c, <2>b, ExceptIs
  <2>6. b.open = [a.open EXCEPT ![s] = TRUE]
    BY <1>c, <2>b, ExceptIs
  <2>7. b.data = a.data
    <3>1. \A j \in Nat : (IF j \in 1 .. Len(sent') THEN sent'[j] ELSE 0)
                          = (IF j \in 1 .. Len(sent) THEN sent[j] ELSE 0)
      <4> HIDE DEF n
      <4>1. \A j \in Nat : j \in 1 .. n <=> j \in 1 .. Len(sent) \/ j = n
        BY <1>4 DEF n
      <4>2. n \notin 1 .. Len(sent)
        BY <1>4 DEF n
      <4> QED
        BY <2>4, <4>1, <4>2
    <3> QED
      BY <1>5, <3>1
  <2>8. Opens(a, Msg("EaStart", arg), b)
    BY ZenonT(60), <1>4, <1>5, <2>1, <2>3, <2>4, <2>5, <2>6, <2>7 DEF Opens
  <2> QED
    BY <1>1, <2>1, <2>2, <2>8 DEF Moves, FromDevice
<1>9. ASSUME NEW s \in Sids, DevSendsData(s)
      PROVE  Goal
  <2> DEFINE n == session[s].n
             arg == [sid |-> s, n |-> n, i |-> sent[n] + 1]
  <2>1. /\ session[s].open /\ Sends("EaData", arg) /\ UNCHANGED session
        /\ sent' = [sent EXCEPT ![n] = @ + 1]
    BY <1>9 DEF DevSendsData
  <2>2. n \in 1 .. Len(sent) /\ n \in Nat /\ sent[n] \in Nat
    BY <1>4, <2>1
  <2>3. s \in LinkSids
    BY <1>4
  <2> HIDE DEF n
  <2>4. Msg("EaData", arg) \in DevMessages
    BY <2>2, <2>3 DEF Msg, DevMessages
  <2>5. /\ Msg("EaData", arg).kind = "EaData" /\ Msg("EaData", arg).arg = arg
        /\ arg.sid = s /\ arg.n = n /\ arg.i = sent[n] + 1
    BY DEF Msg
  <2>6. Len(sent') = Len(sent) /\ \A j \in 1 .. Len(sent) : sent'[j] = IF j = n THEN sent[n] + 1 ELSE sent[j]
    BY <1>4, <2>1, <2>2
  <2> HIDE DEF arg
  <2>7. a.data[n] = sent[n]
    BY <1>4, <2>2
  <2>8. b.data = [a.data EXCEPT ![n] = @ + 1]
    <3>1. \A j \in Nat : b.data[j] = IF j = n THEN a.data[n] + 1 ELSE a.data[j]
      BY <1>4, <1>5, <2>2, <2>6, <2>7
    <3> QED
      BY <1>c, <2>2, <3>1, ExceptIs
  <2>9. b.last = a.last /\ b.open = a.open /\ b.top = a.top
    BY <1>4, <1>5, <2>1, <2>6
  <2>10. a.last[s] = n /\ a.open[s]
    BY <1>4, <2>1 DEF n
  <2>11. Carries(a, Msg("EaData", arg), b)
    BY <2>5, <2>7, <2>8, <2>9, <2>10 DEF Carries
  <2> QED
    BY <1>1, <2>1, <2>4, <2>11 DEF Moves, FromDevice
<1>10. ASSUME NEW s \in Sids, DevCloses(s)
      PROVE  Goal
  <2> DEFINE arg == [sid |-> s]
  <2>1. /\ session[s].open /\ Sends("EaStop", arg) /\ UNCHANGED sent
        /\ session' = [session EXCEPT ![s].open = FALSE]
    BY <1>10 DEF DevCloses
  <2>2. Msg("EaStop", arg) \in DevMessages
    BY DEF Msg, DevMessages
  <2>3. Msg("EaStop", arg).kind = "EaStop" /\ Msg("EaStop", arg).arg = arg /\ arg.sid = s
    BY DEF Msg
  <2>4. \A t \in Sids : /\ session'[t].n = session[t].n
                        /\ session'[t].open = IF t = s THEN FALSE ELSE session[t].open
    BY <1>4, <2>1 DEF Sessions
  <2> HIDE DEF arg
  <2>5. b.last = a.last
    <3>1. \A t \in Sids : b.last[t] = a.last[t]
      BY <1>e, <2>4
    <3> QED
      BY <1>c, <3>1
  <2>6. b.open = [a.open EXCEPT ![s] = FALSE]
    <3>1. \A t \in Sids : b.open[t] = IF t = s THEN FALSE ELSE a.open[t]
      BY <1>f, <2>4
    <3> QED
      BY <1>c, <3>1, ExceptIs
  <2>7. b.top = a.top /\ b.data = a.data
    BY <1>4, <1>5, <2>1
  <2>8. Closes(a, Msg("EaStop", arg), b)
    BY <1>4, <2>1, <2>3, <2>5, <2>6, <2>7 DEF Closes
  <2> QED
    BY <1>1, <2>1, <2>2, <2>8 DEF Moves, FromDevice
<1> HIDE DEF a, b
<1> QED
  BY <1>6, <1>7, <1>8, <1>9, <1>10 DEF Device

-----------------------------------------------------------------------------
(* Every step keeps the task behind the device                             *)

LEMMA NextEaInv ==
  ASSUME Types, Types', StepInv, ~ shared, EaInv, [Next]_vars
  PROVE  EaInv'
<1>1. PICK v \in Views : Ahead(fromDev, v, DeviceView) /\ TaskAt(v)
  BY DEF EaInv
<1>2. DeviceView \in Views /\ fromDev \in Seq(DevMessages)
  BY DeviceViewType DEF Types, ArrivingTypes
<1>a. DeviceView' \in Views
  <2>1. (Types => DeviceView \in Views)'
    BY DeviceViewType, PTL
  <2> QED
    BY <2>1
<1>3. CASE Device
  <2>1. PICK m \in DevMessages :
          fromDev' = Append(fromDev, m) /\ Moves(DeviceView, m, DeviceView')
    BY <1>3, DeviceMoves
  <2>2. Ahead(fromDev', v, DeviceView')
    BY <1>1, <1>2, <1>a, <2>1, AheadSent
  <2>3. UNCHANGED <<pc, channels, transferIds, handles, events>>
    BY <1>3, DeviceMoves
  <2>4. TaskAt(v)'
    BY <1>1, <2>3, SameTask DEF Alive, Positions
  <2> QED
    BY <2>2, <2>4 DEF EaInv
<1>4. ASSUME UNCHANGED <<session, sent, fromDev>>, TaskAt(v)' PROVE EaInv'
  <2>1. DeviceView' = DeviceView
    BY <1>4 DEF DeviceView
  <2> QED
    BY <1>1, <1>4, <2>1 DEF EaInv
<1>5. ASSUME UNCHANGED <<session, sent>>, fromDev # <<>>, fromDev' = Tail(fromDev),
             NEW c \in Views, Ahead(Tail(fromDev), c, DeviceView), TaskAt(c)'
      PROVE  EaInv'
  <2>1. DeviceView' = DeviceView
    BY <1>5 DEF DeviceView
  <2> QED
    BY <1>5, <2>1 DEF EaInv
<1>6. fromDev # <<>> =>
        /\ Valid(v) /\ Head(fromDev) = fromDev[1]
        /\ \E c \in Views : Moves(v, fromDev[1], c) /\ Ahead(Tail(fromDev), c, DeviceView)
  <2> SUFFICES ASSUME fromDev # <<>>
               PROVE  /\ Valid(v) /\ Head(fromDev) = fromDev[1]
                      /\ \E c \in Views :
                           Moves(v, fromDev[1], c) /\ Ahead(Tail(fromDev), c, DeviceView)
    OBVIOUS
  <2>1. Valid(v)
    BY <1>1, <1>2, LeadsTaken DEF Ahead, Behind
  <2> QED
    BY <1>1, <1>2, <2>1, AheadTaken
<1>7. CASE Writes \/ GivesUp \/ Loses
  <2>1. /\ UNCHANGED <<session, sent, fromDev>> /\ UNCHANGED <<channels, transferIds, handles>>
        /\ UNCHANGED events /\ (Alive' => Alive)
    BY <1>7 DEF Writes, Write, GivesUp, StepFails, Loses, ReceiveFails, Goes, GoesOn, Ready,
                eaVars, device, Alive, Types, StepTypes, OnErrors
  <2>2. TaskAt(v)'
    BY <1>1, <2>1, SameTask DEF Positions
  <2> QED
    BY <1>4, <2>1, <2>2
<1>8. CASE Answers
  <2>1. UNCHANGED <<session, sent, fromDev>> /\ TaskAt(v)'
    BY <1>1, <1>8, AckedSameTask DEF Answers, SendOver, device
  <2> QED
    BY <1>4, <2>1
<1>9. CASE Runs
  <2>0. UNCHANGED <<session, sent>>
    BY <1>9 DEF Runs, device
  <2>1. CASE OtherHandler
    <3>1. TaskAt(v)'
      BY <1>1, <2>1, OtherHandlerTask
    <3>2. ASSUME fromDev # <<>>, fromDev' = Tail(fromDev),
                 Head(fromDev).kind \notin {"EaStart", "EaData", "EaStop"}
          PROVE  EaInv'
      <4>1. PICK c \in Views : Moves(v, fromDev[1], c) /\ Ahead(Tail(fromDev), c, DeviceView)
        BY <1>6, <3>2
      <4>2. fromDev[1].kind \notin {"EaStart", "EaData", "EaStop"}
        BY <1>6, <3>2
      <4>3. c = v
        BY <4>1, <4>2 DEF Moves, Opens, Carries, Closes
      <4> QED
        BY <1>5, <2>0, <3>1, <3>2, <4>1, <4>3
    <3> QED
      BY <1>1, <1>4, <2>0, <2>1, <3>1, <3>2, OtherHandlerTask
  <2>2. ASSUME EaStart \/ EaStop \/ EaData \/ EaDataIgnored PROVE EaInv'
    <3>1. /\ fromDev # <<>> /\ fromDev' = Tail(fromDev)
          /\ EaStart => Head(fromDev).kind = "EaStart"
          /\ EaStop => Head(fromDev).kind = "EaStop"
          /\ EaData \/ EaDataIgnored => Head(fromDev).kind = "EaData"
      BY <2>2 DEF EaStart, EaStop, EaData, EaDataIgnored, Takes
    <3>2. PICK c \in Views : Moves(v, fromDev[1], c) /\ Ahead(Tail(fromDev), c, DeviceView)
      BY <1>6, <3>1
    <3>3. Valid(v) /\ Head(fromDev) = fromDev[1]
      BY <1>6, <3>1
    <3>4. CASE EaStart
      <4>1. Opens(v, fromDev[1], c)
        BY <3>1, <3>2, <3>3, <3>4 DEF Moves, Carries, Closes
      <4>2. TaskAt(c)'
        BY <1>1, <3>3, <3>4, <4>1, EaStartTask
      <4> QED
        BY <1>5, <2>0, <3>1, <3>2, <4>2
    <3>5. CASE EaStop
      <4>1. Closes(v, fromDev[1], c)
        BY <3>1, <3>2, <3>3, <3>5 DEF Moves, Opens, Carries
      <4>2. TaskAt(c)'
        BY <1>1, <3>5, <4>1, EaStopTask
      <4> QED
        BY <1>5, <2>0, <3>1, <3>2, <4>2
    <3>6. CASE EaData \/ EaDataIgnored
      <4>1. Carries(v, fromDev[1], c)
        BY <3>1, <3>2, <3>3, <3>6 DEF Moves, Opens, Closes
      <4>2. TaskAt(c)'
        BY <1>1, <3>3, <3>6, <4>1, EaDataTask, EaIgnoredTask
      <4> QED
        BY <1>5, <2>0, <3>1, <3>2, <4>2
    <3> QED
      BY <2>2, <3>4, <3>5, <3>6
  <2> QED
    BY <1>9, <2>1, <2>2 DEF Runs, Handler, OtherHandler, Branch
<1>10. CASE Application
  <2>1. CASE DropSession
    <3>1. UNCHANGED <<session, sent, fromDev>>
      BY <2>1 DEF DropSession, device
    <3> QED
      BY <1>1, <1>4, <2>1, <3>1, DropTask
  <2>2. CASE AppUnchanged
    <3>1. UNCHANGED <<session, sent, fromDev, pc, channels, transferIds, handles, events>>
      BY <2>2 DEF AppUnchanged, task, eaVars, device
    <3>2. TaskAt(v)'
      BY <1>1, <3>1, SameTask DEF Alive, Positions
    <3> QED
      BY <1>4, <3>1, <3>2
  <2> QED
    BY <1>10, <2>1, <2>2 DEF Application, SendHidCommand, RequestAppLaunch, SendOutgoing,
                             Stop, StopListening
<1>11. CASE UNCHANGED vars
  <2>1. UNCHANGED <<session, sent, fromDev, pc, channels, transferIds, handles, events>>
    BY <1>11 DEF vars, connection, task, eaVars, device
  <2>2. TaskAt(v)'
    BY <1>1, <2>1, SameTask DEF Alive, Positions
  <2> QED
    BY <1>4, <2>1, <2>2
<1>12. CASE TaskRuns
  <2>1. CASE Write /\ told' = Learns(Head(todo).msg) /\ UNCHANGED <<left, device, failures>>
    <3>1. Head(todo) = todo[1]
      BY <2>1 DEF Write, Types, StepTypes
    <3> QED
      BY <1>7, <2>1, <3>1 DEF Writes
  <2>2. CASE (Acked \/ TakenForAck) /\ UNCHANGED <<left, device, failures, told>>
    BY <1>8, <2>2 DEF Acked, TakenForAck, Answers
  <2>3. CASE (ReadAhead \/ ChallengeDropped) /\ UNCHANGED <<left, device, failures, told>>
    <3>1. UNCHANGED <<session, sent, pc, channels, transferIds, handles, events>>
      BY <2>3 DEF ReadAhead, ChallengeDropped, task, eaVars, device
    <3>2. TaskAt(v)'
      BY <1>1, <3>1, SameTask DEF Alive, Positions
    <3>3. CASE UNCHANGED fromDev
      BY <1>4, <3>1, <3>2, <3>3
    <3>4. CASE ChallengeDropped
      <4>1. /\ queued + 1 \in 1 .. Len(fromDev) /\ fromDev[queued + 1].kind = "Challenge"
            /\ (queued + 1) - 1 = queued /\ (queued + 1) + 1 = queued + 2
        BY <3>4 DEF ChallengeDropped, Incoming, Types, ArrivingTypes
      <4>2. fromDev' = Without(fromDev, queued + 1)
        BY <3>4, <4>1 DEF ChallengeDropped, Without
      <4>3. fromDev' \in Seq(DevMessages) /\ Shorter(fromDev', fromDev, queued + 1)
        BY <1>2, <4>1, <4>2, DroppedIsShorter
      <4>4. fromDev[queued + 1].kind \notin {"EaStart", "EaData", "EaStop"}
        BY <4>1
      <4>5. Ahead(fromDev', v, DeviceView)
        BY <1>1, <1>2, <4>1, <4>3, <4>4, AheadWithout
      <4>6. DeviceView' = DeviceView
        BY <3>1 DEF DeviceView
      <4> QED
        BY <3>2, <4>5, <4>6 DEF EaInv
    <3> QED
      BY <2>3, <3>3, <3>4 DEF ReadAhead
  <2> QED
    BY <1>8, <1>9, <1>12, <2>1, <2>2, <2>3 DEF TaskRuns, Runs, Handler
<1>13. CASE Fails
  BY <1>7, <1>13 DEF Fails, GivesUp, Loses
<1> QED
  BY <1>3, <1>10, <1>11, <1>12, <1>13 DEF Next

LEMMA InitEa == Init => EaInv
<1> SUFFICES ASSUME Init PROVE EaInv
  OBVIOUS
<1> DEFINE a == DeviceView
<1>1. /\ fromDev = <<>> /\ handles = <<>> /\ events = <<>> /\ sent = <<>>
      /\ channels = [s \in LinkSids |-> 0] /\ transferIds = [s \in LinkSids |-> 0]
      /\ session = [s \in Sids |-> [n |-> 0, open |-> FALSE]]
  BY DEF Init, ConnectionInit
<1>2. /\ a \in Views /\ a.top = 0
      /\ \A s \in Sids : a.last[s] = 0 /\ ~ a.open[s]
      /\ \A n \in Nat : a.data[n] = 0
  <2>1. a \in Views
    BY InitTypes, DeviceViewType
  <2>2. Len(sent) = 0 /\ \A n \in Nat : n \notin 1 .. 0
    BY <1>1
  <2> QED
    BY <1>1, <2>1, <2>2 DEF DeviceView
<1> HIDE DEF a
<1>3. Len(<<>>) = 0 /\ (\A i \in 1 .. 0 : FALSE) /\ \A i \in 0 .. 0 : i = 0
  OBVIOUS
<1>4. Behind(a, <<>>, 0, a)
  <2>1. Valid(a) /\ a.top <= a.top
    BY <1>2 DEF Valid
  <2>2. \A j \in 0 + 1 .. Len(<<>>) : FALSE
    BY <1>3
  <2> QED
    BY <2>1, <2>2 DEF Behind
<1>5. Leads(<<>>, a, a)
  <2> DEFINE st == [i \in 0 .. 0 |-> a]
  <2>1. st \in [0 .. Len(<<>>) -> Views] /\ st[0] = a
    BY <1>2, <1>3
  <2> HIDE DEF st
  <2>2. \A i \in 0 .. 0 : Behind(st[i], <<>>, i, a)
    BY <1>3, <1>4, <2>1
  <2>3. Follows(st, <<>>, a, a)
    BY <1>3, <2>1, <2>2 DEF Follows
  <2> QED
    BY <2>1, <2>3 DEF Leads
<1>6. Conserved(<<>>, a, a)
  <2>1. \A n \in Nat : OnWay(<<>>, n) = {}
    BY <1>3 DEF OnWay
  <2>2. Cardinality({}) = 0
    BY FS_EmptySet
  <2>3. \A n \in Nat : a.data[n] \in Nat
    BY <1>2 DEF Views
  <2>4. \A n \in Nat : a.data[n] + Cardinality(OnWay(<<>>, n)) = a.data[n]
    <3> TAKE n \in Nat
    <3>1. Cardinality(OnWay(<<>>, n)) = 0
      BY <2>1, <2>2
    <3>2. a.data[n] \in Nat
      BY <2>3
    <3> HIDE DEF a
    <3> QED
      BY <3>1, <3>2
  <2> QED
    BY <2>4 DEF Conserved
<1>7. Len(handles) = 0 /\ \A i \in 1 .. Len(handles) : FALSE
  BY <1>1, <1>3
<1>8. \A s \in LinkSids : channels[s] = 0 /\ transferIds[s] = 0
  BY <1>1
<1>9. ChannelsFit(a) /\ TransferIdsFit(a)
  BY <1>7, <1>8 DEF ChannelsFit, TransferIdsFit, Held
<1>10. HandlesFit(a) /\ DataFits(a)
  BY <1>2, <1>7 DEF HandlesFit, DataFits
<1>11. OpenedAreTold(a)
  <2>1. Positions("EaSessionStarted") = {}
    BY <1>1 DEF Positions
  <2> QED
    BY <1>2, <1>7, <2>1, FS_EmptySet DEF OpenedAreTold, Opened
<1> QED
  BY <1>1, <1>2, <1>5, <1>6, <1>9, <1>10, <1>11 DEF EaInv, Ahead, TaskAt, a

-----------------------------------------------------------------------------
(* What it means for the application                                       *)

(* How a handle, its data and the device's view are related. *)
LEMMA HandleFacts ==
  ASSUME Types, NEW v \in Views, Ahead(fromDev, v, DeviceView), TaskAt(v),
         NEW h \in DOMAIN handles
  PROVE  /\ h \in 1 .. Len(handles) /\ handles[h] \in Handles
         /\ handles[h].n \in 1 .. Len(sent) /\ handles[h].n \in 1 .. v.top
         /\ handles[h].sid \in Sids /\ DataInOrder(v, handles[h])
         /\ First(h) => AllRead(v, handles[h])
         /\ v.data[handles[h].n] + Cardinality(OnWay(fromDev, handles[h].n)) = sent[handles[h].n]
         /\ v.data[handles[h].n] <= sent[handles[h].n]
         /\ Behind(v, fromDev, 0, DeviceView)
<1>1. /\ handles \in Seq(Handles) /\ sent \in Seq(Nat) /\ fromDev \in Seq(DevMessages)
      /\ DeviceView \in Views
  BY DeviceViewType DEF Types, EaTypes, DeviceTypes, ArrivingTypes
<1>2. h \in 1 .. Len(handles) /\ handles[h] \in Handles
  BY <1>1
<1> DEFINE n == handles[h].n
<1>3. n \in 1 .. v.top /\ handles[h].sid \in Sids
  BY <1>2 DEF TaskAt, HandlesFit
<1>4. Behind(v, fromDev, 0, DeviceView)
  <2>1. PICK st \in [0 .. Len(fromDev) -> Views] : Follows(st, fromDev, v, DeviceView)
    BY DEF Ahead, Leads
  <2>2. 0 \in 0 .. Len(fromDev)
    BY <1>1
  <2> QED
    BY <2>1, <2>2 DEF Follows
<1>5. n \in 1 .. Len(sent)
  <2>1. v.top <= Len(sent) /\ v.top \in Nat
    BY <1>4 DEF Behind, DeviceView, Views
  <2> QED
    BY <1>1, <1>3, <2>1
<1> HIDE DEF n
<1>6. v.data[n] + Cardinality(OnWay(fromDev, n)) = sent[n] /\ v.data[n] <= sent[n]
  <2>1. n \in Nat /\ sent[n] \in Nat
    BY <1>1, <1>5
  <2>2. DeviceView.data[n] = sent[n]
    BY <1>5, <2>1 DEF DeviceView
  <2>3. v.data[n] + Cardinality(OnWay(fromDev, n)) = sent[n]
    BY <2>1, <2>2 DEF Ahead, Conserved
  <2>4. Cardinality(OnWay(fromDev, n)) \in Nat /\ v.data[n] \in Nat
    BY <1>1, <2>1, OnWayFinite DEF Views
  <2> QED
    BY <2>1, <2>3, <2>4
<1> QED
  BY <1>2, <1>3, <1>4, <1>5, <1>6 DEF TaskAt, DataFits, n

LEMMA InOrderFollows == Types /\ EaInv => EaInOrder
<1> SUFFICES ASSUME Types, EaInv, NEW h \in DOMAIN handles
             PROVE  LET n == handles[h].n
                        got == handles[h].got
                        onTheWay == {i \in DOMAIN fromDev :
                                       fromDev[i].kind = "EaData" /\ fromDev[i].arg.n = n}
                    IN  /\ \A i \in DOMAIN got :
                             got[i] = [n |-> n, i |-> got[1].i + i - 1] /\ got[i].i <= sent[n]
                        /\ /\ InProgress(h) /\ handles[h].open /\ IsEaData(handles[h].sid)
                           /\ \A g \in 1 .. h - 1 : handles[g].n # n
                           => Len(got) + Cardinality(onTheWay) = sent[n]
  BY DEF EaInOrder
<1>1. PICK v \in Views : Ahead(fromDev, v, DeviceView) /\ TaskAt(v)
  BY DEF EaInv
<1> DEFINE hd == handles[h]
           n == hd.n
           got == hd.got
           s == hd.sid
<1>2. /\ h \in 1 .. Len(handles) /\ hd \in Handles /\ n \in 1 .. Len(sent) /\ n \in 1 .. v.top
      /\ s \in Sids /\ DataInOrder(v, hd) /\ (First(h) => AllRead(v, hd))
      /\ v.data[n] + Cardinality(OnWay(fromDev, n)) = sent[n] /\ v.data[n] <= sent[n]
      /\ Behind(v, fromDev, 0, DeviceView)
  BY <1>1, HandleFacts
<1>3. ASSUME NEW i \in DOMAIN got
      PROVE  got[i] = [n |-> n, i |-> got[1].i + i - 1] /\ got[i].i <= sent[n]
  <2>1. got \in Seq(Pieces) /\ i \in 1 .. Len(got)
    BY <1>2, <1>3 DEF Handles
  <2>2. got[i] = [n |-> n, i |-> got[1].i + i - 1] /\ got[i].i <= v.data[n]
    BY <1>2, <2>1 DEF DataInOrder
  <2>3. got[i] \in Pieces
    BY <2>1
  <2>a. n \in Nat /\ 1 .. Len(sent) = DOMAIN sent /\ sent \in Seq(Nat)
    BY <1>2 DEF Types, DeviceTypes
  <2> HIDE DEF got, n
  <2>b. got[i].i \in Nat
    BY <2>3 DEF Pieces
  <2>c. v.data[n] \in Nat
    BY <2>a DEF Views
  <2>d. sent[n] \in Nat
    BY <1>2, <2>a
  <2>4. got[i].i \in Nat /\ v.data[n] \in Nat /\ sent[n] \in Nat
    BY <2>b, <2>c, <2>d
  <2>5. got[i].i <= sent[n]
    BY <1>2, <2>2, <2>4
  <2> QED
    BY <2>2, <2>5
<1>4. ASSUME InProgress(h), hd.open, IsEaData(s), \A g \in 1 .. h - 1 : handles[g].n # n
      PROVE  Len(got) + Cardinality(OnWay(fromDev, n)) = sent[n]
  <2>1. First(h)
    BY <1>4 DEF First
  <2>2. /\ session[s].n = n
        /\ session[s].open \/ \E i \in DOMAIN fromDev :
             fromDev[i].kind = "EaStop" /\ fromDev[i].arg.sid = s
    BY <1>4 DEF InProgress
  <2>3. DeviceView.last[s] = n /\ DeviceView.open[s] = session[s].open
    BY <1>2, <2>2 DEF DeviceView
  <2>4. v.last[s] = n
    <3>1. n <= v.top
      BY <1>2
    <3> QED
      BY <1>2, <2>3, <3>1 DEF Behind
  <2>5. ~ session[s].open => \E j \in 0 + 1 .. Len(fromDev) : Stops(fromDev[j], s)
    <3>1. DOMAIN fromDev = 0 + 1 .. Len(fromDev)
      BY DEF Types, ArrivingTypes
    <3> QED
      BY <2>2, <3>1 DEF Stops
  <2>6. v.open[s]
    BY <1>2, <2>3, <2>4, <2>5 DEF Behind
  <2>7. Len(got) = v.data[n]
    BY <1>2, <1>4, <2>1, <2>4, <2>6 DEF AllRead
  <2> QED
    BY <1>2, <2>7
<1>5. OnWay(fromDev, n) = {i \in DOMAIN fromDev :
                             fromDev[i].kind = "EaData" /\ fromDev[i].arg.n = n}
  <2>1. DOMAIN fromDev = 1 .. Len(fromDev)
    BY DEF Types, ArrivingTypes
  <2> QED
    BY <2>1 DEF OnWay
<1> QED
  BY <1>3, <1>4, <1>5

-----------------------------------------------------------------------------
(* What goes out                                                           *)

(* The data of a message is of the newest session of its id. *)
OfNewest(m) ==
  m.kind = "EaData" /\ m.arg.n # 0 =>
    \E h \in DOMAIN handles :
      /\ handles[h].sid = m.arg.sid /\ handles[h].n = m.arg.n
      /\ \A g \in DOMAIN handles : g > h => handles[g].sid # m.arg.sid

LEMMA OnlyOutgoingData ==
  ASSUME Types, Handler \/ ReceiveFails, ~ OutgoingData, NEW i \in 1 .. Len(todo')
  PROVE  todo'[i].msg.kind # "EaData"
<1> USE DEF Ready, Goes, GoesOn
<1>1. CASE HidCommand
  <2> DEFINE p == IF hid THEN <<>> ELSE <<Step("StartHID", 0, <<>>)>>
             q == <<Step("Report", 1, <<>>), Step("Report", 0, <<>>)>>
  <2>1. /\ \A j \in 1 .. Len(p) : p[j].msg.kind # "EaData"
        /\ \A j \in 1 .. Len(q) : q[j].msg.kind # "EaData"
    BY DEF Step, Msg
  <2>2. p \in Seq(Steps) /\ q \in Seq(Steps)
    <3>1. /\ Step("StartHID", 0, <<>>) \in Steps
          /\ Step("Report", 1, <<>>) \in Steps /\ Step("Report", 0, <<>>) \in Steps
      <4>1. <<>> \in Seq(Events) /\ 0 \in Nat /\ 1 \in Nat
        OBVIOUS
      <4> QED
        BY <4>1, StepType DEF PlainSteps
    <3> QED
      BY <3>1
  <2>3. todo' = p \o q
    BY <1>1 DEF HidCommand, Command
  <2> HIDE DEF p, q
  <2>4. \/ i \in 1 .. Len(p) /\ todo'[i] = p[i]
        \/ \E j \in 1 .. Len(q) : todo'[i] = q[j]
    <3>1. CASE i <= Len(p)
      BY <2>2, <2>3, <3>1
    <3>2. CASE i > Len(p)
      <4>1. i - Len(p) \in 1 .. Len(q) /\ todo'[i] = q[i - Len(p)]
        BY <2>2, <2>3, <3>2
      <4> QED
        BY <4>1
    <3> QED
      BY <2>2, <3>1, <3>2
  <2> QED
    BY <2>1, <2>4
<1>2. CASE AppLaunch
  BY <1>2 DEF AppLaunch, Step, Msg
<1>3. CASE ~ HidCommand /\ ~ AppLaunch
  <2>1. onError' # "drop"
    BY <1>3 DEF Handler, Negotiated, Authentication, AuthIdentification, AuthCertificate,
         AuthChallenge, AuthSucceeded, AuthFailed, Top, Branch, ControlIdentification,
         ControlOther, EaStart, EaStop, EaData, EaDataIgnored, Timer, Closed, Failed, Ended,
         ReceiveFails
  <2>2. Fits(pc', onError', todo'[i])
    BY HandlerPlans DEF Plan
  <2> QED
    BY <2>1, <2>2 DEF Fits
<1> QED
  BY <1>1, <1>2, <1>3

LEMMA OutgoingIsOfNewest ==
  ASSUME Types, EaInv, OutgoingData, NEW i \in 1 .. Len(todo')
  PROVE  UNCHANGED handles /\ OfNewest(todo'[i].msg)
<1>1. PICK v \in Views : TaskAt(v)
  BY DEF EaInv
<1> DEFINE s == Head(outgoing)
           arg == [sid |-> s, n |-> transferIds[s]]
<1>2. /\ UNCHANGED handles /\ Alive /\ s \in LinkSids
      /\ todo' = <<Step("EaData", arg, <<>>)>>
  BY DEF OutgoingData, Goes, Ready, Alive, eaVars, Types, AppTypes
<1>3. todo'[i].msg.arg = arg /\ arg.sid = s /\ arg.n = transferIds[s]
  BY <1>2 DEF Step, Msg
<1> HIDE DEF arg, s
<1>4. ASSUME transferIds[s] # 0
      PROVE  \E h \in DOMAIN handles :
               /\ handles[h].sid = s /\ handles[h].n = transferIds[s]
               /\ \A g \in DOMAIN handles : g > h => handles[g].sid # s
  <2>1. s \in Sids /\ v.open[s] /\ transferIds[s] = v.last[s]
    BY <1>1, <1>2, <1>4 DEF TaskAt, TransferIdsFit
  <2>2. PICK h \in 1 .. Len(handles) : Newest(h, s) /\ handles[h].n = v.last[s]
    BY <1>1, <1>2, <2>1 DEF TaskAt, HandlesFit
  <2>3. handles[h].sid = s
    BY <1>1, <2>1, <2>2 DEF TaskAt, HandlesFit
  <2>4. DOMAIN handles = 1 .. Len(handles)
    BY DEF Types, EaTypes
  <2> QED
    BY <2>1, <2>2, <2>3, <2>4 DEF Newest
<1> QED
  BY <1>2, <1>3, <1>4 DEF OfNewest

(* The handles keep their sessions. *)
LEMMA NewestKept ==
  ASSUME Types, UNCHANGED handles \/ DropSession, NEW m, OfNewest(m)
  PROVE  OfNewest(m)'
<1>1. CASE UNCHANGED handles
  BY <1>1 DEF OfNewest
<1>2. CASE DropSession
  <2>0. handles \in Seq(Handles)
    BY DEF Types, EaTypes
  <2>a. PICK d \in DOMAIN handles : handles' = [handles EXCEPT ![d].open = FALSE]
    BY <1>2 DEF DropSession
  <2>1. /\ DOMAIN handles' = DOMAIN handles
        /\ \A h \in DOMAIN handles :
             handles'[h].sid = handles[h].sid /\ handles'[h].n = handles[h].n
    <3>1. DOMAIN handles' = DOMAIN handles
      BY <2>a
    <3>2. ASSUME NEW h \in DOMAIN handles
          PROVE  handles'[h].sid = handles[h].sid /\ handles'[h].n = handles[h].n
      <4>1. handles[h] \in Handles
        BY <2>0
      <4>2. handles'[h] = IF h = d THEN [handles[h] EXCEPT !.open = FALSE] ELSE handles[h]
        BY <2>a
      <4> QED
        BY <4>1, <4>2 DEF Handles
    <3> QED
      BY <3>1, <3>2
  <2> QED
    BY <2>1 DEF OfNewest
<1> QED
  BY <1>1, <1>2

LEMMA HandlesChange ==
  [Next]_vars => UNCHANGED handles \/ DropSession \/ EaStart \/ EaData
<1> SUFFICES ASSUME [Next]_vars
             PROVE  UNCHANGED handles \/ DropSession \/ EaStart \/ EaData
  OBVIOUS
<1> USE DEF eaVars, task
<1>1. CASE Application
  BY <1>1 DEF Application, AppUnchanged, SendHidCommand, RequestAppLaunch, SendOutgoing,
              Stop, StopListening
<1>2. CASE Device
  BY <1>2 DEF Device, DevIdentifies, DevAuthenticates, DevOpens, DevSendsData, DevCloses,
              DevPlays, Sends
<1>3. CASE Fails
  BY <1>3 DEF Fails, StepFails, ReceiveFails
<1>4. CASE TaskRuns
  BY <1>4 DEF TaskRuns, Write, Acked, ReadAhead, TakenForAck, ChallengeDropped, SendOver,
       Negotiated, Authentication, AuthIdentification, AuthCertificate, AuthChallenge,
       AuthSucceeded, AuthFailed, Top, Branch, ControlIdentification, ControlOther, EaStop,
       EaDataIgnored, OutgoingData, HidCommand, AppLaunch, Timer, Closed, Failed, Ended
<1>5. CASE UNCHANGED vars
  BY <1>5 DEF vars, connection
<1> QED
  BY <1>1, <1>2, <1>3, <1>4, <1>5 DEF Next

LEMMA NextOutgoing ==
  ASSUME Types, Types', ~ shared, EaInv, OutgoingTransferId, [Next]_vars
  PROVE  OutgoingTransferId'
<1>1. \A i \in 1 .. Len(todo) : OfNewest(todo[i].msg)
  BY DEF OutgoingTransferId, OfNewest, Types, StepTypes
<1>2. ASSUME NEW i \in 1 .. Len(todo'), NEW m, m = todo'[i].msg
      PROVE  OfNewest(m)'
  <2>1. CASE m.kind # "EaData"
    BY <2>1 DEF OfNewest
  <2>2. CASE OutgoingData
    BY <1>2, <2>2, OutgoingIsOfNewest DEF OfNewest
  <2>3. CASE m.kind = "EaData" /\ ~ OutgoingData
    <3>1. ~ Runs /\ ~ Loses /\ ~ EaStart /\ ~ EaData
      BY <1>2, <2>3, OnlyOutgoingData DEF Runs, Loses, Handler, Branch
    <3>2. UNCHANGED handles \/ DropSession
      BY <3>1, HandlesChange
    <3>3. PICK j \in 1 .. Len(todo) : todo'[i] = todo[j]
      <4>1. CASE Writes \/ Quiet
        BY <4>1 DEF Writes, Write, Quiet, stepVars
      <4>2. CASE Answers \/ GivesUp
        <5>1. todo # <<>> /\ (todo' = <<>> \/ todo' = Tail(todo))
          BY <4>2 DEF Answers, SendOver, GivesUp, StepFails, Goes, GoesOn, Types, StepTypes,
                      OnErrors
        <5>2. todo' # <<>>
          BY <1>2
        <5> QED
          BY <5>1, <5>2, RestOfTodo
      <4> QED
        BY <3>1, <4>1, <4>2, NextCases
    <3>4. OfNewest(m)
      BY <1>1, <1>2, <3>3
    <3> QED
      BY <3>2, <3>4, NewestKept
  <2> QED
    BY <2>1, <2>2, <2>3
<1>3. DOMAIN todo' = 1 .. Len(todo')
  BY DEF Types, StepTypes
<1>4. \A m : \A i \in DOMAIN todo' : m = todo'[i].msg => OfNewest(m)'
  BY <1>2, <1>3
<1> QED
  BY <1>4 DEF OutgoingTransferId, OfNewest

-----------------------------------------------------------------------------
(* How many EaSessions there are: for each session that is told one, and   *)
(* one more when data takes the session that is pending.                   *)

CountInv ==
  /\ Len(handles) <= 2 * Opened
  /\ Alive =>
       /\ Len(handles) + (IF pending THEN 1 ELSE 0) <= 2 * Opened
       /\ \A s \in LinkSids : channels[s] <= Len(handles)

(* The steps that do nothing to the tables of sessions. *)
LEMMA TablesKept ==
  ASSUME Types, StepInv, [Next]_vars, ~ EaStart, ~ EaStop, ~ EaData
  PROVE  /\ UNCHANGED <<channels, pending>> /\ (Alive' => Alive) /\ ToldSame
         /\ UNCHANGED handles \/ DropSession
<1>1. UNCHANGED handles \/ DropSession
  BY HandlesChange
<1> USE DEF Goes, GoesOn, Ready, Alive, eaVars, task
<1>a. ASSUME UNCHANGED events PROVE ToldSame
  BY <1>a DEF ToldSame, Positions
<1>2. CASE Application
  BY <1>1, <1>2, <1>a DEF Application, AppUnchanged, SendHidCommand, RequestAppLaunch,
       SendOutgoing, Stop, StopListening, DropSession
<1>3. CASE Device
  BY <1>1, <1>3, <1>a DEF Device, DevIdentifies, DevAuthenticates, DevOpens, DevSendsData,
       DevCloses, DevPlays, Sends
<1>4. CASE Fails
  BY <1>1, <1>4, <1>a DEF Fails, StepFails, ReceiveFails, Types, StepTypes, OnErrors
<1>5. CASE UNCHANGED vars
  BY <1>1, <1>5, <1>a DEF vars, connection
<1>6. CASE Write \/ ReadAhead \/ ChallengeDropped
  BY <1>1, <1>6, <1>a DEF Write, ReadAhead, ChallengeDropped
<1>7. CASE SendOver
  <2>1. ToldSame
    <3>1. "HidRemoteStarted" \in EventKinds /\ "HidRemoteStopped" \in EventKinds
      BY DEF EventKinds
    <3> QED
      BY <1>7, <1>a, <3>1, AckedEvents, TellsOther
  <2> QED
    BY <1>1, <1>7, <2>1 DEF SendOver
<1>8. CASE OtherHandler
  <2>1. UNCHANGED <<channels, pending>> /\ (Alive' => Alive)
    BY <1>8 DEF OtherHandler, Negotiated, Authentication, AuthIdentification,
         AuthCertificate, AuthChallenge, AuthSucceeded, AuthFailed, Top,
         ControlIdentification, ControlOther, OutgoingData, HidCommand, AppLaunch, Timer,
         Closed, Failed, Ended
  <2> QED
    BY <1>1, <1>8, <2>1, OtherHandlerTells
<1>9. CASE EaDataIgnored
  BY <1>1, <1>9, <1>a DEF EaDataIgnored
<1>10. CASE TaskRuns
  BY <1>6, <1>7, <1>8, <1>9, <1>10
     DEF TaskRuns, Acked, TakenForAck, Branch, OtherHandler
<1> QED
  BY <1>2, <1>3, <1>4, <1>5, <1>10 DEF Next

(* The handles are as many, and of the same sessions. *)
LEMMA HandlesKept ==
  ASSUME Types, UNCHANGED handles \/ DropSession
  PROVE  /\ Len(handles') = Len(handles)
         /\ \A h \in 1 .. Len(handles) :
              /\ handles'[h].sid = handles[h].sid /\ handles'[h].n = handles[h].n
              /\ handles'[h].open => handles[h].open
<1>0. handles \in Seq(Handles)
  BY DEF Types, EaTypes
<1>1. CASE UNCHANGED handles
  BY <1>1
<1>2. CASE DropSession
  <2>1. PICK d \in DOMAIN handles : handles' = [handles EXCEPT ![d].open = FALSE]
    BY <1>2 DEF DropSession
  <2>2. Len(handles') = Len(handles)
    BY <1>0, <2>1, ClosedTypes
  <2>3. ASSUME NEW h \in 1 .. Len(handles)
        PROVE  /\ handles'[h].sid = handles[h].sid /\ handles'[h].n = handles[h].n
               /\ handles'[h].open => handles[h].open
    <3>1. handles[h] \in Handles /\ h \in DOMAIN handles
      BY <1>0
    <3>2. handles'[h] = IF h = d THEN [handles[h] EXCEPT !.open = FALSE] ELSE handles[h]
      BY <2>1, <3>1
    <3> QED
      BY <3>1, <3>2 DEF Handles
  <2> QED
    BY <2>2, <2>3
<1> QED
  BY <1>1, <1>2

(* What the start of a session does to the tables. *)
LEMMA EaStartCases ==
  ASSUME Types, EaStart
  PROVE  LET s == fromDev[1].arg.sid
             n == fromDev[1].arg.n
             k == Len(handles)
         IN  /\ fromDev # <<>> /\ fromDev' = Tail(fromDev) /\ fromDev[1].kind = "EaStart"
             /\ s \in Sids /\ n \in Nat /\ s \in LinkSids /\ Alive
             /\ channels' = [channels EXCEPT ![s] = k + 1]
             /\ \/ /\ Len(handles') = k + 1 /\ handles'[k + 1] = Handle(s, n)
                   /\ \A h \in 1 .. k : handles'[h] = handles[h]
                   /\ Opened' = Opened + 1
                \/ UNCHANGED <<handles, events>> /\ ~ Alive'
<1> DEFINE s == fromDev[1].arg.sid
           n == fromDev[1].arg.n
           k == Len(handles)
<1>1. \A m : Takes(m) => m = fromDev[1] /\ m \in DevMessages
  BY TakesTypes DEF Takes, Types, ArrivingTypes
<1>2. /\ fromDev # <<>> /\ fromDev' = Tail(fromDev) /\ fromDev[1].kind = "EaStart"
      /\ fromDev[1] \in DevMessages
      /\ channels' = [channels EXCEPT ![s] = k + 1] /\ pc = "select"
      /\ \/ /\ handles' = Append(handles, Handle(s, n))
            /\ Emits(<<Msg("EaSessionStarted", s)>>)
         \/ pc' = "failed" /\ UNCHANGED <<handles, events>>
  BY ZenonT(60), <1>1 DEF EaStart, Registered, Goes, GoesOn, Ready, Takes
<1>3. s \in Sids /\ n \in Nat /\ s \in LinkSids /\ s \in Nat
  BY <1>2, ArgTypes, SidTypes
<1>4. handles \in Seq(Handles) /\ k \in Nat
  BY DEF Types, EaTypes
<1>5. /\ Len(Append(handles, Handle(s, n))) = k + 1
      /\ Append(handles, Handle(s, n))[k + 1] = Handle(s, n)
      /\ \A h \in 1 .. k : Append(handles, Handle(s, n))[h] = handles[h]
  BY <1>3, <1>4, NewHandleTypes
<1> HIDE DEF s, n, k
<1>6. Emits(<<Msg("EaSessionStarted", s)>>) => Opened' = Opened + 1
  BY <1>3, TellsStarted DEF Tells, EventKinds
<1> QED
  BY <1>2, <1>3, <1>5, <1>6 DEF s, n, k, Alive

LEMMA EaStopCases ==
  ASSUME Types, EaStop
  PROVE  LET s == fromDev[1].arg.sid
         IN  /\ fromDev # <<>> /\ fromDev' = Tail(fromDev)
             /\ s \in Sids /\ channels' = [channels EXCEPT ![s] = 0]
             /\ UNCHANGED <<pending, handles>> /\ Alive /\ ToldSame
<1> DEFINE s == fromDev[1].arg.sid
<1>1. \A m : Takes(m) => m = fromDev[1] /\ m \in DevMessages
  BY TakesTypes DEF Takes, Types, ArrivingTypes
<1>2. /\ fromDev # <<>> /\ fromDev' = Tail(fromDev) /\ fromDev[1].kind = "EaStop"
      /\ fromDev[1] \in DevMessages
      /\ channels' = [channels EXCEPT ![s] = 0] /\ pc = "select"
      /\ UNCHANGED <<pending, handles>> /\ Emits(<<Msg("EaSessionStopped", s)>>)
  BY ZenonT(60), <1>1 DEF EaStop, Ready, Takes
<1>3. s \in Sids /\ s \in Nat
  BY <1>2, ArgTypes, SidTypes
<1> HIDE DEF s
<1>4. ToldSame
  BY <1>2, <1>3, TellsOther DEF Tells, EventKinds
<1> QED
  BY <1>2, <1>3, <1>4 DEF Alive, s

LEMMA NextCount ==
  ASSUME Types, Types', StepInv, CountInv, [Next]_vars
  PROVE  CountInv'
<1>1. /\ handles \in Seq(Handles) /\ Len(handles) \in Nat /\ Opened \in Nat
      /\ channels \in [LinkSids -> 0 .. Len(handles) + 1]
      /\ pending \in BOOLEAN /\ pending' \in BOOLEAN
  BY OpenedType DEF Types, EaTypes
<1>2. CASE ~ EaStart /\ ~ EaStop /\ ~ EaData
  <2>1. /\ UNCHANGED <<channels, pending>> /\ (Alive' => Alive) /\ ToldSame
        /\ UNCHANGED handles \/ DropSession
    BY <1>2, TablesKept
  <2>2. Len(handles') = Len(handles) /\ Opened' = Opened
    BY <2>1, HandlesKept DEF ToldSame, Opened
  <2> QED
    BY <1>1, <2>1, <2>2 DEF CountInv
<1>3. CASE EaStart
  <2> DEFINE s == fromDev[1].arg.sid
             k == Len(handles)
  <2>1. /\ Alive /\ s \in LinkSids /\ channels' = [channels EXCEPT ![s] = k + 1]
        /\ \/ Len(handles') = k + 1 /\ Opened' = Opened + 1
           \/ UNCHANGED <<handles, events>> /\ ~ Alive'
    BY <1>3, EaStartCases
  <2> HIDE DEF s
  <2>2. \A t \in LinkSids : channels'[t] = k + 1 \/ channels'[t] = channels[t]
    BY <1>1, <2>1
  <2>3. CASE Len(handles') = k + 1 /\ Opened' = Opened + 1
    <3>1. \A t \in LinkSids : channels'[t] <= Len(handles')
      BY <1>1, <2>1, <2>2, <2>3 DEF CountInv
    <3>2. k + 1 + (IF pending' THEN 1 ELSE 0) <= 2 * (Opened + 1)
      BY <1>1, <2>1 DEF CountInv
    <3>3. Len(handles') <= 2 * Opened'
      BY <1>1, <2>1, <2>3 DEF CountInv
    <3>4. Len(handles') + (IF pending' THEN 1 ELSE 0) <= 2 * Opened'
      BY <2>3, <3>2
    <3> QED
      BY <3>1, <3>3, <3>4 DEF CountInv
  <2>4. CASE UNCHANGED <<handles, events>> /\ ~ Alive'
    <3>1. Opened' = Opened
      BY <2>4 DEF Opened, Positions
    <3> QED
      BY <2>4, <3>1 DEF CountInv
  <2> QED
    BY <2>1, <2>3, <2>4
<1>4. CASE EaStop
  <2> DEFINE s == fromDev[1].arg.sid
  <2>1. /\ channels' = [channels EXCEPT ![s] = 0] /\ Alive /\ UNCHANGED <<pending, handles>>
        /\ ToldSame
    BY <1>4, EaStopCases
  <2> HIDE DEF s
  <2>2. \A t \in LinkSids : channels'[t] = 0 \/ channels'[t] = channels[t]
    BY <1>1, <2>1
  <2>3. Opened' = Opened
    BY <2>1 DEF ToldSame, Opened
  <2> QED
    BY <1>1, <2>1, <2>2, <2>3 DEF CountInv
<1>5. CASE EaData
  <2> DEFINE s == fromDev[1].arg.sid
             n == fromDev[1].arg.n
             i == fromDev[1].arg.i
             k == Len(handles)
  <2>0. Alive /\ \A t \in LinkSids : channels[t] <= k
    BY <1>5 DEF EaData, Ready, Alive, CountInv
  <2>1. /\ UNCHANGED events /\ (pending' => pending)
        /\ GivenNew(s, n, i) \/ GivenOld(s, n, i) \/ GivenNobody(s)
    BY <1>5, <2>0, EaDataCases
  <2> HIDE DEF s, n, i
  <2>2. Opened' = Opened
    BY <2>1 DEF Opened, Positions
  <2>3. CASE GivenNew(s, n, i)
    <3>1. /\ pending /\ ~ pending' /\ Len(handles') = k + 1
          /\ channels' = [channels EXCEPT ![s] = k + 1]
      BY <2>3 DEF GivenNew
    <3>2. \A t \in LinkSids : channels'[t] = k + 1 \/ channels'[t] = channels[t]
      BY <1>1, <3>1
    <3> QED
      BY <1>1, <2>0, <2>2, <3>1, <3>2 DEF CountInv
  <2>4. CASE GivenOld(s, n, i)
    BY <1>1, <2>0, <2>1, <2>2, <2>4 DEF GivenOld, CountInv
  <2>5. CASE GivenNobody(s)
    <3>1. /\ UNCHANGED handles
          /\ Alive' => channels' = [channels EXCEPT ![s] = 0]
      BY <2>5 DEF GivenNobody, Alive
    <3>2. Alive' => \A t \in LinkSids : channels'[t] = 0 \/ channels'[t] = channels[t]
      BY <1>1, <3>1
    <3> QED
      BY <1>1, <2>0, <2>1, <2>2, <3>1, <3>2 DEF CountInv
  <2> QED
    BY <2>1, <2>3, <2>4, <2>5
<1> QED
  BY <1>2, <1>3, <1>4, <1>5

-----------------------------------------------------------------------------
(* A device that sends the data of all sessions on the one link session:   *)
(* the sessions on their way are later ones than those of the handles that *)
(* were given when a session was told, and of the handles that data was    *)
(* the first to need only the one in the channel is kept.                  *)

Starts(from, i) == i \in 1 .. Len(from) /\ from[i].kind = "EaStart"

LaterComes(from) ==
  /\ \A i \in 1 .. Len(from) : from[i].kind = "EaData" => from[i].arg.sid = EaLinkSession
  /\ \A i, j \in 1 .. Len(from) :
       Starts(from, i) /\ Starts(from, j) /\ i < j => from[i].arg.n < from[j].arg.n
  /\ \A h \in 1 .. Len(handles), i \in 1 .. Len(from) :
       handles[h].sid # EaLinkSession /\ Starts(from, i) => handles[h].n < from[i].arg.n

Replaced ==
  \A g, h \in 1 .. Len(handles) :
    g < h /\ handles[g].sid = handles[h].sid /\ handles[g].n = handles[h].n
      => ~ handles[g].open

SharedInv ==
  /\ LaterComes(fromDev)
  /\ \A h \in 1 .. Len(handles) :
       /\ handles[h].n <= Len(sent)
       /\ handles[h].sid = EaLinkSession /\ handles[h].open => channels[EaLinkSession] = h
  /\ Replaced

LEMMA LaterWithout ==
  ASSUME NEW from \in Seq(DevMessages), NEW to \in Seq(DevMessages), NEW k \in 1 .. Len(from),
         Shorter(to, from, k), LaterComes(from)
  PROVE  LaterComes(to)
<1>1. /\ Len(from) \in Nat /\ Len(to) = Len(from) - 1
      /\ \A i \in 1 .. Len(to) : to[i] = from[Kept(k, i)]
  BY DEF Shorter
<1>2. /\ \A i \in 1 .. Len(to) : Kept(k, i) \in 1 .. Len(from)
      /\ \A i, j \in 1 .. Len(to) : i < j => Kept(k, i) < Kept(k, j)
  BY <1>1, KeptInOrder
<1>3. \A i \in 1 .. Len(to) : Starts(to, i) => Starts(from, Kept(k, i))
  BY <1>1, <1>2 DEF Starts
<1>4. \A i \in 1 .. Len(to) : to[i].kind = "EaData" => to[i].arg.sid = EaLinkSession
  BY <1>1, <1>2 DEF LaterComes
<1>5. ASSUME NEW i \in 1 .. Len(to), NEW j \in 1 .. Len(to), Starts(to, i), Starts(to, j), i < j
      PROVE  to[i].arg.n < to[j].arg.n
  BY <1>1, <1>2, <1>3, <1>5 DEF LaterComes
<1>6. ASSUME NEW h \in 1 .. Len(handles), NEW i \in 1 .. Len(to),
             handles[h].sid # EaLinkSession, Starts(to, i)
      PROVE  handles[h].n < to[i].arg.n
  BY <1>1, <1>2, <1>3, <1>6 DEF LaterComes
<1> QED
  BY <1>4, <1>5, <1>6 DEF LaterComes

(* Sessions are opened and data arrives, and the handles keep their sessions. *)
LEMMA SharedKept ==
  ASSUME Types, SharedInv, LaterComes(fromDev'), Len(handles') = Len(handles),
         \A h \in 1 .. Len(handles) :
           /\ handles'[h].sid = handles[h].sid /\ handles'[h].n = handles[h].n
           /\ handles'[h].open => handles[h].open,
         \/ channels'[EaLinkSession] = channels[EaLinkSession]
         \/ \A h \in 1 .. Len(handles) : handles[h].sid = EaLinkSession => ~ handles[h].open,
         Len(sent') \in Nat, Len(sent') >= Len(sent)
  PROVE  SharedInv'
<1>1. handles \in Seq(Handles) /\ Len(sent) \in Nat
  BY DEF Types, EaTypes, DeviceTypes
<1>2. (LaterComes(fromDev))'
  BY DEF LaterComes, Starts
<1>3. ASSUME NEW h \in 1 .. Len(handles')
      PROVE  /\ handles'[h].n <= Len(sent')
             /\ handles'[h].sid = EaLinkSession /\ handles'[h].open => channels'[EaLinkSession] = h
  <2>1. handles[h] \in Handles
    BY <1>1
  <2>2. handles[h].n \in Nat /\ handles[h].n <= Len(sent)
    BY <2>1 DEF SharedInv, Handles
  <2> QED
    BY <1>1, <2>2 DEF SharedInv
<1>4. Replaced'
  BY DEF SharedInv, Replaced
<1> QED
  BY <1>2, <1>3, <1>4 DEF SharedInv

(* What the device sends, and of which sessions. *)
LEMMA DeviceSends ==
  ASSUME Types, shared, Device
  PROVE  \E m \in DevMessages :
           /\ fromDev' = Append(fromDev, m)
           /\ m.kind = "EaData" => m.arg.sid = EaLinkSession
           /\ m.kind = "EaStart" => m.arg.n = Len(sent) + 1
           /\ Len(sent') \in Nat /\ Len(sent') >= Len(sent)
<1>1. sent \in Seq(Nat) /\ Len(sent) \in Nat /\ session \in [Sids -> Sessions]
  BY DEF Types, DeviceTypes
<1>2. ASSUME NEW kind \in FromDevice \ {"EaStart", "EaData"}, NEW arg, Sends(kind, arg),
             Msg(kind, arg) \in DevMessages, UNCHANGED sent
      PROVE  \E m \in DevMessages :
               /\ fromDev' = Append(fromDev, m)
               /\ m.kind = "EaData" => m.arg.sid = EaLinkSession
               /\ m.kind = "EaStart" => m.arg.n = Len(sent) + 1
               /\ Len(sent') \in Nat /\ Len(sent') >= Len(sent)
  BY <1>1, <1>2 DEF Sends, Msg
<1>3. CASE DevIdentifies \/ DevPlays
  BY <1>2, <1>3, PlainMessages DEF DevIdentifies, DevPlays, PlainKinds, FromDevice
<1>4. CASE DevAuthenticates
  <2>1. \A c \in Challenges : Msg("Challenge", c) \in DevMessages
    BY DEF Msg, DevMessages
  <2> QED
    BY <1>2, <1>4, <2>1, PlainMessages DEF DevAuthenticates, PlainKinds, FromDevice
<1>5. ASSUME NEW s \in Sids, DevCloses(s)
      PROVE  Msg("EaStop", [sid |-> s]) \in DevMessages /\ UNCHANGED sent
             /\ Sends("EaStop", [sid |-> s])
  BY <1>5 DEF DevCloses, Msg, DevMessages
<1>6. ASSUME NEW s \in Sids, DevOpens(s)
      PROVE  \E m \in DevMessages :
               /\ fromDev' = Append(fromDev, m) /\ m.kind = "EaStart"
               /\ m.arg.n = Len(sent) + 1
               /\ Len(sent') \in Nat /\ Len(sent') >= Len(sent)
  <2> DEFINE n == Len(sent) + 1
             arg == [sid |-> s, n |-> n]
  <2>1. Sends("EaStart", arg) /\ sent' = Append(sent, 0)
    BY <1>6 DEF DevOpens
  <2>2. Msg("EaStart", arg) \in DevMessages
    BY <1>1 DEF Msg, DevMessages
  <2>3. Len(sent') \in Nat /\ Len(sent') >= Len(sent)
    BY <1>1, <2>1
  <2> QED
    BY <2>1, <2>2, <2>3 DEF Sends, Msg
<1>7. ASSUME NEW s \in Sids, DevSendsData(s)
      PROVE  \E m \in DevMessages :
               /\ fromDev' = Append(fromDev, m) /\ m.kind = "EaData"
               /\ m.arg.sid = EaLinkSession
               /\ Len(sent') \in Nat /\ Len(sent') >= Len(sent)
  <2> DEFINE n == session[s].n
             arg == [sid |-> EaLinkSession, n |-> n, i |-> sent[n] + 1]
  <2>1. /\ Sends("EaData", arg) /\ sent' = [sent EXCEPT ![n] = @ + 1]
    BY <1>7 DEF DevSendsData
  <2>2. n \in 1 .. Len(sent) /\ n \in Nat /\ sent[n] \in Nat
    BY <1>7 DEF DevSendsData, Types, DeviceTypes
  <2>3. EaLinkSession \in LinkSids
    BY DEF LinkSids
  <2> HIDE DEF n
  <2>4. Msg("EaData", arg) \in DevMessages
    BY <2>2, <2>3 DEF Msg, DevMessages
  <2>5. Len(sent') \in Nat /\ Len(sent') >= Len(sent)
    BY <1>1, <2>1, <2>2
  <2> QED
    BY <2>1, <2>4, <2>5 DEF Sends, Msg
<1>8. CASE \E s \in Sids : DevCloses(s)
  BY <1>2, <1>5, <1>8 DEF FromDevice
<1>9. CASE \E s \in Sids : DevOpens(s)
  BY <1>6, <1>9
<1>10. CASE \E s \in Sids : DevSendsData(s)
  BY <1>7, <1>10
<1> QED
  BY <1>3, <1>4, <1>8, <1>9, <1>10 DEF Device

LEMMA LaterSent ==
  ASSUME Types, SharedInv, NEW m \in DevMessages,
         m.kind = "EaData" => m.arg.sid = EaLinkSession,
         m.kind = "EaStart" => m.arg.n = Len(sent) + 1
  PROVE  LaterComes(Append(fromDev, m))
<1> DEFINE to == Append(fromDev, m)
           k == Len(fromDev)
<1>1. /\ fromDev \in Seq(DevMessages) /\ k \in Nat /\ Len(to) = k + 1 /\ to[k + 1] = m
      /\ \A i \in 1 .. k : to[i] = fromDev[i]
      /\ Len(sent) \in Nat /\ handles \in Seq(Handles)
  BY DEF Types, ArrivingTypes, DeviceTypes, EaTypes
<1>2. k = Len(fromDev)
  OBVIOUS
<1> HIDE DEF to, k
<1>3. \A i \in 1 .. Len(to) : i \in 1 .. k \/ i = k + 1
  BY <1>1
<1>4. \A i \in 1 .. k : Starts(to, i) => Starts(fromDev, i) /\ fromDev[i].arg.n \in 1 .. Len(sent)
  BY <1>1, <1>2 DEF Starts, Types, ArrivingTypes
<1>5. Starts(to, k + 1) => m.arg.n = Len(sent) + 1
  BY <1>1 DEF Starts
<1>6. \A i \in 1 .. Len(to) : to[i].kind = "EaData" => to[i].arg.sid = EaLinkSession
  BY <1>1, <1>2, <1>3 DEF SharedInv, LaterComes
<1>7. ASSUME NEW i \in 1 .. Len(to), NEW j \in 1 .. Len(to), Starts(to, i), Starts(to, j), i < j
      PROVE  to[i].arg.n < to[j].arg.n
  <2>1. i \in 1 .. k
    BY <1>1, <1>7
  <2>2. CASE j \in 1 .. k
    BY <1>1, <1>2, <1>4, <1>7, <2>1, <2>2 DEF SharedInv, LaterComes
  <2>3. CASE j = k + 1
    BY <1>1, <1>4, <1>5, <1>7, <2>1, <2>3
  <2> QED
    BY <1>3, <2>2, <2>3
<1>8. ASSUME NEW h \in 1 .. Len(handles), NEW i \in 1 .. Len(to),
             handles[h].sid # EaLinkSession, Starts(to, i)
      PROVE  handles[h].n < to[i].arg.n
  <2>1. CASE i \in 1 .. k
    BY <1>1, <1>2, <1>4, <1>8, <2>1 DEF SharedInv, LaterComes
  <2>2. CASE i = k + 1
    <3>1. handles[h] \in Handles /\ handles[h].n <= Len(sent)
      BY <1>1 DEF SharedInv
    <3> QED
      BY <1>1, <1>5, <1>8, <2>2, <3>1 DEF Handles
  <2> QED
    BY <1>3, <2>1, <2>2
<1> QED
  BY <1>6, <1>7, <1>8 DEF LaterComes, to

(* The messages are as many, or one less, but in steps of the device. *)
LEMMA FromDevShrinks ==
  ASSUME Types, [Next]_vars, ~ Device
  PROVE  /\ UNCHANGED sent
         /\ \/ UNCHANGED fromDev
            \/ \E k \in 1 .. Len(fromDev) :
                 fromDev' \in Seq(DevMessages) /\ Shorter(fromDev', fromDev, k)
<1>0. fromDev \in Seq(DevMessages)
  BY DEF Types, ArrivingTypes
<1>1. ASSUME fromDev # <<>>, fromDev' = Tail(fromDev)
      PROVE  \E k \in 1 .. Len(fromDev) :
               fromDev' \in Seq(DevMessages) /\ Shorter(fromDev', fromDev, k)
  BY <1>0, <1>1, TailIsShorter
<1>2. CASE Application
  BY <1>2 DEF Application, AppUnchanged, SendHidCommand, RequestAppLaunch, SendOutgoing,
              Stop, StopListening, DropSession, device
<1>3. CASE Fails
  BY <1>3 DEF Fails, StepFails, ReceiveFails, device
<1>4. CASE UNCHANGED vars
  BY <1>4 DEF vars, connection, device
<1>5. CASE TaskRuns
  <2>1. UNCHANGED sent
    BY <1>5 DEF TaskRuns, device
  <2>2. CASE Write \/ Acked \/ ReadAhead \/ TakenForAck
    BY <2>1, <2>2 DEF Write, Acked, ReadAhead, TakenForAck
  <2>3. CASE ChallengeDropped
    <3>1. /\ queued + 1 \in 1 .. Len(fromDev)
          /\ (queued + 1) - 1 = queued /\ (queued + 1) + 1 = queued + 2
      BY <2>3 DEF ChallengeDropped, Incoming, Types, ArrivingTypes
    <3>2. fromDev' = Without(fromDev, queued + 1)
      BY <2>3, <3>1 DEF ChallengeDropped, Without
    <3> QED
      BY <1>0, <2>1, <3>1, <3>2, DroppedIsShorter
  <2>4. CASE OtherHandler
    <3>1. UNCHANGED fromDev \/ (fromDev # <<>> /\ fromDev' = Tail(fromDev))
      BY <2>4 DEF OtherHandler, Negotiated, Authentication, AuthIdentification,
           AuthCertificate, AuthChallenge, AuthSucceeded, AuthFailed, Top,
           ControlIdentification, ControlOther, OutgoingData, HidCommand, AppLaunch, Timer,
           Closed, Failed, Ended, Takes
    <3> QED
      BY <1>1, <2>1, <3>1
  <2>5. CASE EaStart \/ EaStop \/ EaData \/ EaDataIgnored
    <3>1. fromDev # <<>> /\ fromDev' = Tail(fromDev)
      BY <2>5 DEF EaStart, EaStop, EaData, EaDataIgnored, Takes
    <3> QED
      BY <1>1, <2>1, <3>1
  <2> QED
    BY <1>5, <2>2, <2>3, <2>4, <2>5 DEF TaskRuns, Branch, OtherHandler
<1> QED
  BY <1>2, <1>3, <1>4, <1>5 DEF Next

LEMMA NextShared ==
  ASSUME Types, Types', StepInv, shared, CountInv, SharedInv, [Next]_vars
  PROVE  SharedInv'
<1> DEFINE e == EaLinkSession
<1>1. /\ handles \in Seq(Handles) /\ Len(handles) \in Nat /\ sent \in Seq(Nat)
      /\ Len(sent) \in Nat /\ channels \in [LinkSids -> 0 .. Len(handles) + 1]
      /\ fromDev \in Seq(DevMessages)
      /\ e \in LinkSids /\ e \notin Sids
  <2>1. /\ handles \in Seq(Handles) /\ sent \in Seq(Nat) /\ fromDev \in Seq(DevMessages)
        /\ channels \in [LinkSids -> 0 .. Len(handles) + 1]
    BY DEF Types, EaTypes, DeviceTypes, ArrivingTypes
  <2>2. e \in LinkSids /\ e \notin Sids
    BY ConnectionAssumption DEF LinkSids
  <2> QED
    BY <2>1, <2>2
<1> HIDE DEF e
<1>2. CASE Device
  <2>1. PICK m \in DevMessages :
          /\ fromDev' = Append(fromDev, m)
          /\ m.kind = "EaData" => m.arg.sid = EaLinkSession
          /\ m.kind = "EaStart" => m.arg.n = Len(sent) + 1
          /\ Len(sent') \in Nat /\ Len(sent') >= Len(sent)
    BY <1>2, DeviceSends
  <2>2. LaterComes(fromDev')
    BY <2>1, LaterSent
  <2>3. UNCHANGED <<channels, handles>>
    BY <1>2 DEF Device, DevIdentifies, DevAuthenticates, DevOpens, DevSendsData, DevCloses,
                DevPlays, Sends, task, eaVars
  <2> QED
    BY <2>1, <2>2, <2>3, SharedKept
<1>3. ASSUME ~ Device
      PROVE  LaterComes(fromDev') /\ UNCHANGED sent
  BY <1>1, <1>3, FromDevShrinks, LaterWithout DEF SharedInv
<1>4. ASSUME UNCHANGED sent
      PROVE  Len(sent') \in Nat /\ Len(sent') >= Len(sent)
  BY <1>1, <1>4
<1>5. CASE ~ Device /\ ~ EaStart /\ ~ EaStop /\ ~ EaData
  <2>1. UNCHANGED channels /\ (UNCHANGED handles \/ DropSession)
    BY <1>5, TablesKept
  <2> QED
    BY <1>3, <1>4, <1>5, <2>1, HandlesKept, SharedKept
<1>6. CASE EaStop /\ ~ Device
  <2> DEFINE s == fromDev[1].arg.sid
  <2>1. s \in Sids /\ channels' = [channels EXCEPT ![s] = 0] /\ UNCHANGED handles
    BY <1>6, EaStopCases
  <2> HIDE DEF s
  <2>2. channels'[e] = channels[e]
    BY <1>1, <2>1
  <2> QED
    BY <1>3, <1>4, <1>6, <2>1, <2>2, SharedKept DEF e
<1>7. CASE EaStart /\ ~ Device
  <2> DEFINE s == fromDev[1].arg.sid
             n == fromDev[1].arg.n
             k == Len(handles)
  <2>1. /\ fromDev # <<>> /\ fromDev' = Tail(fromDev) /\ fromDev[1].kind = "EaStart"
        /\ s \in Sids /\ n \in Nat /\ s \in LinkSids
        /\ channels' = [channels EXCEPT ![s] = k + 1]
        /\ \/ /\ Len(handles') = k + 1 /\ handles'[k + 1] = Handle(s, n)
              /\ \A h \in 1 .. k : handles'[h] = handles[h]
           \/ UNCHANGED handles
    BY <1>7, EaStartCases
  <2>2. s # e /\ 1 \in 1 .. Len(fromDev) /\ Starts(fromDev, 1)
    BY <1>1, <2>1 DEF Starts
  <2>3. n \in 1 .. Len(sent)
    BY <2>1, <2>2 DEF Types, ArrivingTypes
  <2>4. \A h \in 1 .. k : handles[h].sid # e => handles[h].n < n
    BY <2>2 DEF SharedInv, LaterComes, e
  <2>5. /\ Len(fromDev') = Len(fromDev) - 1
        /\ \A i \in 1 .. Len(fromDev') : fromDev'[i] = fromDev[i + 1] /\ i + 1 \in 1 .. Len(fromDev)
    BY <1>1, <2>1
  <2>6. \A i \in 1 .. Len(fromDev') : Starts(fromDev', i) => n < fromDev'[i].arg.n
    <3> SUFFICES ASSUME NEW i \in 1 .. Len(fromDev'), Starts(fromDev', i)
                 PROVE  n < fromDev'[i].arg.n
      OBVIOUS
    <3>1. Starts(fromDev, i + 1) /\ 1 < i + 1 /\ i + 1 \in 1 .. Len(fromDev)
      BY <2>5 DEF Starts
    <3>2. fromDev[1].arg.n < fromDev[i + 1].arg.n
      BY <2>2, <3>1 DEF SharedInv, LaterComes
    <3> QED
      BY <2>5, <3>2
  <2>7. LaterComes(fromDev') /\ UNCHANGED sent
    BY <1>3, <1>7
  <2> HIDE DEF s, n, k
  <2>8. channels'[e] = channels[e]
    BY <1>1, <2>1, <2>2
  <2>9. CASE UNCHANGED handles
    BY <1>4, <2>7, <2>8, <2>9, SharedKept DEF e
  <2>10. CASE /\ Len(handles') = k + 1 /\ handles'[k + 1] = Handle(s, n)
              /\ \A h \in 1 .. k : handles'[h] = handles[h]
    <3>1. handles'[k + 1].sid = s /\ handles'[k + 1].n = n
      BY <2>10 DEF Handle
    <3>2. \A h \in 1 .. Len(handles') : (h \in 1 .. k /\ handles'[h] = handles[h]) \/ h = k + 1
      BY <1>1, <2>10 DEF k
    <3>3. (LaterComes(fromDev))'
      <4>1. ASSUME NEW h \in 1 .. Len(handles'), NEW i \in 1 .. Len(fromDev'),
                   handles'[h].sid # EaLinkSession, Starts(fromDev', i)
            PROVE  handles'[h].n < fromDev'[i].arg.n
        BY <2>6, <2>7, <3>1, <3>2, <4>1 DEF LaterComes, k
      <4> QED
        BY <2>7, <4>1 DEF LaterComes, Starts
    <3>4. ASSUME NEW h \in 1 .. Len(handles')
          PROVE  /\ handles'[h].n <= Len(sent')
                 /\ handles'[h].sid = EaLinkSession /\ handles'[h].open =>
                      channels'[EaLinkSession] = h
      <4>1. CASE h \in 1 .. k /\ handles'[h] = handles[h]
        BY <2>7, <2>8, <4>1 DEF SharedInv, e, k
      <4>2. CASE h = k + 1
        BY <2>2, <2>3, <2>7, <3>1, <4>2 DEF e
      <4> QED
        BY <3>2, <4>1, <4>2
    <3>5. ASSUME NEW g \in 1 .. Len(handles'), NEW h \in 1 .. Len(handles'), g < h,
                 handles'[g].sid = handles'[h].sid, handles'[g].n = handles'[h].n
          PROVE  ~ handles'[g].open
      <4>0. k \in Nat /\ g \in 1 .. k /\ handles'[g] = handles[g]
        BY <1>1, <2>10, <3>2, <3>5 DEF k
      <4>1. CASE h \in 1 .. k /\ handles'[h] = handles[h]
        BY <3>5, <4>0, <4>1 DEF SharedInv, Replaced, k
      <4>2. CASE h = k + 1
        <5>1. handles[g].sid # e /\ handles[g].n = n
          BY <2>2, <3>1, <3>5, <4>0, <4>2
        <5>2. handles[g].n < n
          BY <2>4, <4>0, <5>1
        <5> QED
          BY <2>1, <5>1, <5>2
      <4> QED
        BY <3>2, <4>1, <4>2
    <3> QED
      BY <3>3, <3>4, <3>5 DEF SharedInv, Replaced
  <2> QED
    BY <2>1, <2>9, <2>10
<1>8. CASE EaData /\ ~ Device
  <2> DEFINE s == fromDev[1].arg.sid
             n == fromDev[1].arg.n
             i == fromDev[1].arg.i
             k == Len(handles)
  <2>0. \A t \in LinkSids : channels[t] <= k
    BY <1>8 DEF EaData, Ready, Alive, CountInv
  <2>1. /\ fromDev # <<>>
        /\ GivenNew(s, n, i) \/ GivenOld(s, n, i) \/ GivenNobody(s)
    BY <1>8, <2>0, EaDataCases
  <2>2. fromDev[1].kind = "EaData" /\ 1 \in 1 .. Len(fromDev) /\ fromDev[1] \in DevMessages
    <3>1. \A m : Takes(m) => m = fromDev[1]
      BY DEF Takes, Types, ArrivingTypes
    <3> QED
      BY <1>1, <1>8, <2>1, <3>1 DEF EaData
  <2>3. s = e /\ n \in 1 .. Len(sent)
    BY <2>2 DEF SharedInv, LaterComes, e, Types, ArrivingTypes
  <2>7. LaterComes(fromDev') /\ UNCHANGED sent
    BY <1>3, <1>8
  <2> HIDE DEF s, n, i, k
  <2>4. CASE GivenNew(s, n, i)
    <3>1. /\ channels[e] = 0 /\ channels' = [channels EXCEPT ![e] = k + 1]
          /\ Len(handles') = k + 1 /\ \A h \in 1 .. k : handles'[h] = handles[h]
          /\ handles'[k + 1] = Fed(Handle(s, n), n, i)
      BY <2>3, <2>4 DEF GivenNew, k
    <3>2. channels'[e] = k + 1 /\ handles'[k + 1].sid = e /\ handles'[k + 1].n = n
      BY <1>1, <2>3, <3>1 DEF Fed, Handle
    <3>3. \A h \in 1 .. k : h # 0 /\ (handles[h].sid = e => ~ handles[h].open)
      BY <3>1 DEF SharedInv, e, k
    <3>4. \A h \in 1 .. Len(handles') : (h \in 1 .. k /\ handles'[h] = handles[h]) \/ h = k + 1
      BY <1>1, <3>1 DEF k
    <3>5. (LaterComes(fromDev))'
      <4>1. ASSUME NEW h \in 1 .. Len(handles'), NEW j \in 1 .. Len(fromDev'),
                   handles'[h].sid # EaLinkSession, Starts(fromDev', j)
            PROVE  handles'[h].n < fromDev'[j].arg.n
        BY <2>7, <3>2, <3>4, <4>1 DEF LaterComes, e, k
      <4> QED
        BY <2>7, <4>1 DEF LaterComes, Starts
    <3>6. ASSUME NEW h \in 1 .. Len(handles')
          PROVE  /\ handles'[h].n <= Len(sent')
                 /\ handles'[h].sid = EaLinkSession /\ handles'[h].open =>
                      channels'[EaLinkSession] = h
      <4>1. CASE h \in 1 .. k /\ handles'[h] = handles[h]
        BY <2>7, <3>3, <4>1 DEF SharedInv, e, k
      <4>2. CASE h = k + 1
        BY <2>3, <2>7, <3>2, <4>2 DEF e
      <4> QED
        BY <3>4, <4>1, <4>2
    <3>7. ASSUME NEW g \in 1 .. Len(handles'), NEW h \in 1 .. Len(handles'), g < h,
                 handles'[g].sid = handles'[h].sid, handles'[g].n = handles'[h].n
          PROVE  ~ handles'[g].open
      <4>0. k \in Nat /\ g \in 1 .. k /\ handles'[g] = handles[g]
        BY <1>1, <3>1, <3>4, <3>7 DEF k
      <4>1. CASE h \in 1 .. k /\ handles'[h] = handles[h]
        BY <3>7, <4>0, <4>1 DEF SharedInv, Replaced, k
      <4>2. CASE h = k + 1
        BY <3>2, <3>3, <3>7, <4>0, <4>2
      <4> QED
        BY <3>4, <4>1, <4>2
    <3> QED
      BY <3>5, <3>6, <3>7 DEF SharedInv, Replaced
  <2>5. CASE GivenOld(s, n, i)
    <3> DEFINE c == channels[s]
    <3>1. /\ c \in 1 .. k /\ UNCHANGED channels /\ Len(handles') = k
          /\ \A h \in 1 .. k : h # c => handles'[h] = handles[h]
          /\ handles'[c] = Fed(handles[c], n, i)
      BY <2>5 DEF GivenOld, Held, k
    <3>4. handles[c] \in Handles
      BY <1>1, <3>1 DEF k
    <3> HIDE DEF c
    <3>2. /\ handles'[c].sid = handles[c].sid /\ handles'[c].n = handles[c].n
          /\ handles'[c].open = handles[c].open
      BY <3>1, <3>4 DEF Fed, Handles
    <3>3. \A h \in 1 .. k :
            /\ handles'[h].sid = handles[h].sid /\ handles'[h].n = handles[h].n
            /\ handles'[h].open => handles[h].open
      BY <3>1, <3>2
    <3> QED
      BY <1>4, <2>7, <3>1, <3>3, SharedKept DEF k
  <2>6. CASE GivenNobody(s)
    <3>1. UNCHANGED handles /\ (Held(e) => ~ handles[channels[e]].open)
      BY <2>3, <2>6 DEF GivenNobody
    <3>2. \A h \in 1 .. Len(handles) : handles[h].sid = EaLinkSession => ~ handles[h].open
      BY <3>1 DEF Held, SharedInv, e
    <3> QED
      BY <1>4, <2>7, <3>1, <3>2, SharedKept
  <2> QED
    BY <2>1, <2>4, <2>5, <2>6
<1> QED
  BY <1>2, <1>5, <1>6, <1>7, <1>8

LEMMA InitOpened == Init => CountInv /\ SharedInv
<1> SUFFICES ASSUME Init PROVE CountInv /\ SharedInv
  OBVIOUS
<1>1. /\ fromDev = <<>> /\ handles = <<>> /\ events = <<>> /\ pending = FALSE
      /\ channels = [s \in LinkSids |-> 0]
  BY DEF Init, ConnectionInit
<1>2. Opened = 0
  <2>1. Positions("EaSessionStarted") = {}
    BY <1>1 DEF Positions
  <2> QED
    BY <2>1, FS_EmptySet DEF Opened
<1>3. Len(handles) = 0 /\ Len(fromDev) = 0 /\ \A i \in 1 .. 0 : FALSE
  BY <1>1
<1>4. \A s \in LinkSids : channels[s] = 0
  BY <1>1
<1> QED
  BY <1>1, <1>2, <1>3, <1>4 DEF CountInv, SharedInv, LaterComes, Replaced

LEMMA OpenedFollows ==
  ASSUME Types, CountInv, SharedInv \/ EaInv
  PROVE  SessionsAreOpened
<1>1. DOMAIN handles = 1 .. Len(handles)
  BY DEF Types, EaTypes
<1>2. Replaced
  <2>1. CASE SharedInv
    BY <2>1 DEF SharedInv
  <2>2. CASE EaInv
    BY <2>2 DEF EaInv, TaskAt, HandlesFit, Replaced
  <2> QED
    BY <2>1, <2>2
<1> QED
  BY <1>1, <1>2 DEF CountInv, Opened, Replaced, SessionsAreOpened

-----------------------------------------------------------------------------
(* The theorems                                                            *)

LEMMA SharedStays == [Next]_vars => shared' = shared
<1> SUFFICES ASSUME [Next]_vars PROVE shared' = shared
  OBVIOUS
<1>1. CASE Device
  BY <1>1 DEF Device, DevIdentifies, DevAuthenticates, DevOpens, DevSendsData, DevCloses,
              DevPlays, Sends
<1> QED
  BY <1>1 DEF Next, TaskRuns, Fails, Application, SendHidCommand, RequestAppLaunch,
     SendOutgoing, Stop, DropSession, StopListening, AppUnchanged, device, vars

LEMMA EaInvariant == Spec => [](Types /\ StepInv /\ (~ shared => EaInv))
<1> DEFINE I == Types /\ StepInv /\ (~ shared => EaInv)
<1>1. Init => I
  BY InitTypes, InitStepHid, InitEa
<1>2. I /\ [Next]_vars => I'
  <2> SUFFICES ASSUME I, [Next]_vars PROVE I'
    OBVIOUS
  <2>1. Types' /\ StepInv'
    BY NextTypes, NextStepInv
  <2>2. ASSUME ~ shared PROVE EaInv'
    BY <2>1, <2>2, NextEaInv
  <2> QED
    BY <2>1, <2>2, SharedStays
<1> HIDE DEF I
<1>3. Spec => []I
  BY <1>1, <1>2, PTL DEF Spec
<1> QED
  BY <1>3 DEF I

(* From a device that sends the data of a session on the link session with *)
(* its id, the data arrives on the EaSession it is for, in order and       *)
(* without a gap, and all of it on the one the application keeps.          *)
THEOREM DataInSessionOrder == Spec => []EaInOrder
<1> DEFINE I == Types /\ StepInv /\ (~ shared => EaInv)
<1>1. I => EaInOrder
  BY InOrderFollows DEF EaInOrder
<1>2. Spec => []I
  BY EaInvariant
<1> HIDE DEF I
<1> QED
  BY <1>1, <1>2, PTL

(* For such a device, data goes out with the transfer id of the newest     *)
(* session of its id, or with none: never with that of a session opened    *)
(* before it, also when the session is closed and opened again between     *)
(* EaSession::send and the device's next data.                             *)
THEOREM TransferIdOfSession == Spec => []OutgoingTransferId
<1> DEFINE I == Types /\ StepInv /\ (~ shared => EaInv)
<1>1. Init => OutgoingTransferId
  BY DEF Init, ConnectionInit, OutgoingTransferId
<1>2. I /\ I' /\ OutgoingTransferId /\ [Next]_vars => OutgoingTransferId'
  <2> SUFFICES ASSUME I, I', OutgoingTransferId, [Next]_vars PROVE OutgoingTransferId'
    OBVIOUS
  <2>1. shared' = shared
    BY SharedStays
  <2>2. CASE shared
    BY <2>1, <2>2 DEF OutgoingTransferId
  <2>3. CASE ~ shared
    BY <2>1, <2>3, NextOutgoing
  <2> QED
    BY <2>2, <2>3
<1>3. Spec => []I
  BY EaInvariant
<1> HIDE DEF I
<1> QED
  BY <1>1, <1>2, <1>3, PTL DEF Spec

(* From both kinds of device, the application gets at most two EaSessions  *)
(* for a session it is told of; and two on one link session for the same   *)
(* session of the device only when it has dropped the first.               *)
THEOREM EaSessionsAreOpened == Spec => []SessionsAreOpened
<1> DEFINE I == Types /\ StepInv /\ (~ shared => EaInv)
           J == CountInv /\ (shared => SharedInv)
<1>1. Spec => []I
  BY EaInvariant
<1>2. Init => J
  BY InitOpened
<1>3. I /\ I' /\ J /\ [Next]_vars => J'
  <2> SUFFICES ASSUME I, I', J, [Next]_vars PROVE J'
    OBVIOUS
  <2>1. CountInv'
    BY NextCount
  <2>2. ASSUME shared PROVE SharedInv'
    BY <2>2, NextShared
  <2> QED
    BY <2>1, <2>2, SharedStays
<1>4. I /\ J => SessionsAreOpened
  BY OpenedFollows
<1> HIDE DEF I, J
<1> QED
  BY <1>1, <1>2, <1>3, <1>4, PTL DEF Spec
=============================================================================
