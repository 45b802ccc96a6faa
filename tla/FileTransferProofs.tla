------------------------- MODULE FileTransferProofs -------------------------
(***************************************************************************)
(* File transfers, for every set of ids, timeouts, bounds and contents.    *)
(* The type invariant: the types of the handler, of the messages on their  *)
(* way and of the device.                                                  *)
(*                                                                         *)
(* What the application and the device are told: WholeFile, OneVerdict,    *)
(* WithinDeclared, InStep and SuccessIsComplete.  Three facts carry the    *)
(* proof.  A transfer belongs to one id (Owned).  What the handler holds,  *)
(* what is on its way and what the device is doing with an id are the same *)
(* transfer, unless a Setup stands between them (Ordered).  The pieces on  *)
(* their way carry on from those the handler has read (Counted).           *)
(***************************************************************************)
EXTENDS FileTransferSystem, FiniteSetTheorems, WellFoundedInduction, TLAPS

-----------------------------------------------------------------------------
(* Types                                                                   *)

Commands == {"Setup", "First", "Data", "Last", "Only", "Cancel", "Pause"}

Datagrams ==
  [id : Ids, cmd : Commands, n : 1 .. MaxSetups, size : Nat, data : Seq(Pieces)]

Answers == [id : Ids, cmd : {"Start", "Success", "Failure"}, n : 1 .. MaxSetups]

Files == [tags : Seq(Tags), size : Nat]

Devices == [state : {"idle", "setup", "sending", "sent"}, n : 0 .. MaxSetups, sent : Nat]

StreamTypes == fromDev \in Seq(Datagrams) /\ toDev \in Seq(Answers)

DeviceTypes ==
  /\ work \in Workloads /\ dev \in [Ids -> Devices]
  /\ file \in Seq(Files) /\ Len(file) <= MaxSetups
  /\ believed \subseteq 0 .. MaxSetups /\ pauses \in Nat

(* The device is busy with a transfer it has set up, and while it is       *)
(* sending there is something left to send.                                *)
DeviceFits ==
  \A id \in Ids :
    LET d == dev[id]
    IN  /\ d.state # "idle" => d.n \in 1 .. Len(file)
        /\ d.state = "setup" => d.sent = 0
        /\ d.state = "sending" =>
             d.sent < Length(d.n) \/ (Length(d.n) = 0 /\ d.sent = 0)
        /\ d.state = "sent" => d.sent = Length(d.n)

Types == TypeOK /\ StreamTypes /\ DeviceTypes /\ DeviceFits

LEMMA Bounds ==
  /\ MaxSetups \in Nat /\ TransferTimeout \in Nat \ {0} /\ CleanupInterval \in Nat \ {0}
  /\ \A w \in Workloads : w.ids \subseteq Ids /\ w.contents \subseteq Seq(Tags)
  /\ \A w \in Workloads : w.setups \in 0 .. MaxSetups /\ w.pauses \in Nat
BY FileTransferAssumption, FileTransferSystemAssumption

LEMMA ActiveTypes ==
  ASSUME TypeOK, NEW id \in Ids, active[id] # None
  PROVE  active[id] \in Transfers
BY DEF TypeOK

LEMMA EventTypes ==
  ASSUME NEW kind \in {"Complete", "Corrupted"}, NEW id \in Ids, NEW n \in 1 .. MaxSetups,
         NEW data \in Seq(Pieces)
  PROVE  /\ Event(kind, id, n, data) \in Events
         /\ <<Event(kind, id, n, data)>> \in Seq(Events)
<1>1. Event(kind, id, n, data) \in Events
  BY DEF Event, Events
<1> QED
  BY <1>1

LEMMA NoneTypes == None \notin Transfers /\ NotTelling.event = <<>>
<1>1. None.n = 0 /\ \A t \in Transfers : t.n # 0
  BY Bounds DEF None, Transfers
<1> QED
  BY <1>1 DEF NotTelling, NoEvent

LEMMA InitTypes == Init => Types
<1> SUFFICES ASSUME Init PROVE Types
  OBVIOUS
<1>1. <<>> \in Seq(Events) /\ <<>> \in Seq(Datagrams) /\ <<>> \in Seq(Answers)
      /\ <<>> \in Seq(Files) /\ Len(<<>>) = 0 /\ 0 \in Nat
  OBVIOUS
<1>2. TypeOK
  BY <1>1, NoneTypes, Bounds DEF Init, FilesInit, TypeOK
<1>3. Idle \in Devices /\ Idle.state = "idle"
  BY Bounds DEF Idle, Devices
<1>4. DeviceTypes
  BY <1>1, <1>3, Bounds DEF Init, DeviceTypes
<1>5. StreamTypes /\ DeviceFits
  BY <1>1, <1>3 DEF Init, FilesInit, StreamTypes, DeviceFits
<1> QED
  BY <1>2, <1>4, <1>5 DEF Types

(* The datagram a handler reads. *)
LEMMA ArrivedTypes ==
  ASSUME Types, NEW d \in Arrived, Receives(d)
  PROVE  /\ fromDev # <<>> /\ d = fromDev[1] /\ d \in Datagrams /\ d.id \in Ids
         /\ fromDev' = Tail(fromDev) /\ fromDev' \in Seq(Datagrams) /\ pc = "loop"
<1>1. fromDev # <<>> /\ d = Head(fromDev) /\ fromDev' = Tail(fromDev) /\ pc = "loop"
  BY DEF Receives, Arrived
<1>2. fromDev \in Seq(Datagrams)
  BY DEF Types, StreamTypes
<1>3. Head(fromDev) = fromDev[1] /\ fromDev[1] \in Datagrams /\ Tail(fromDev) \in Seq(Datagrams)
  BY <1>1, <1>2
<1> QED
  BY <1>1, <1>3 DEF Datagrams

LEMMA TellTypes ==
  ASSUME Types, NEW a \in Answers, NEW evs \in Seq(Events), Tell(a, evs)
  PROVE  /\ pc' \in {"sending", "down"} /\ telling'.event \in Seq(Events)
         /\ toDev' \in Seq(Answers) /\ waited' \in 0 .. CleanupInterval
<1>1. /\ toDev \in Seq(Answers) /\ waited \in 0 .. CleanupInterval
      /\ telling.event \in Seq(Events)
  BY DEF Types, TypeOK, StreamTypes
<1>2. CASE /\ toDev' = Append(toDev, a)
           /\ telling' = [datagram |-> a, event |-> evs]
           /\ pc' = "sending"
           /\ UNCHANGED waited
  <2>1. telling'.event = evs
    BY <1>2
  <2>2. toDev' \in Seq(Answers)
    BY <1>1, <1>2
  <2> QED
    BY <1>1, <1>2, <2>1, <2>2
<1>3. CASE pc' = "down" /\ UNCHANGED <<toDev, telling, waited>>
  BY <1>1, <1>3
<1> QED
  BY <1>2, <1>3 DEF Tell

LEMMA PendingTypes ==
  ASSUME Types, Pending
  PROVE  /\ pc' = "loop" /\ telling'.event \in Seq(Events)
         /\ toDev' \in Seq(Answers) /\ waited' \in 0 .. CleanupInterval
BY Bounds DEF Pending, Types, TypeOK, StreamTypes

(* A transfer that is not broken has an end. *)
LEMMA LeastNat ==
  ASSUME NEW T \in SUBSET Nat, T # {}
  PROVE  \E m \in T : \A k \in T : m <= k
<1> DEFINE R == {e \in Nat \X Nat : e[1] < e[2]}
<1>1. \A x, y \in Nat : x < y => <<x, y>> \in R
  OBVIOUS
<1>2. IsWellFoundedOn(R, Nat)
  BY NatLessThanWellFounded, Zenon DEF OpToRel
<1> HIDE DEF R
<1>3. PICK m \in T : \A k \in T : ~ (<<k, m>> \in R)
  BY WFMin, <1>2
<1>4. \A k \in T : ~ (k < m)
  BY <1>1, <1>3
<1> QED
  BY <1>4

LEMMA SanitizedTypes ==
  ASSUME NEW data \in Seq(Pieces), NEW size, ~ Broken(data, size)
  PROVE  Sanitized(data) \in Seq(Pieces)
<1>1. CASE data = <<>>
  BY <1>1 DEF Sanitized
<1>2. CASE data # <<>>
  <2>1. Ends(data) # {} /\ Ends(data) \in SUBSET Nat /\ Ends(data) \subseteq 1 .. Len(data)
    BY <1>2 DEF Broken, Ends
  <2>2. \E e \in Ends(data) : \A i \in Ends(data) : e <= i
    BY <2>1, LeastNat
  <2>3. EndOf(data) \in Ends(data)
    BY <2>2 DEF EndOf
  <2>4. EndOf(data) \in 1 .. Len(data)
    BY <2>1, <2>3
  <2> HIDE DEF EndOf
  <2>5. SubSeq(data, 1, EndOf(data)) \in Seq(Pieces)
    BY <2>4
  <2> QED
    BY <1>2, <2>5 DEF Sanitized
<1> QED
  BY <1>1, <1>2

LEMMA HandlerTypes ==
  ASSUME Types, HandleDatagram, UNCHANGED device
  PROVE  TypeOK' /\ StreamTypes'
<1>0. /\ active \in [Ids -> Transfers \cup {None}] /\ events \in Seq(Events)
      /\ None \in Transfers \cup {None}
  BY DEF Types, TypeOK
<1>1. CASE HandleSetup
  <2>1. PICK d \in Arrived :
          /\ Receives(d) /\ active' = [active EXCEPT ![d.id] = Fresh(d)]
          /\ Tell(Answer(d.id, "Start", d.n), NoEvent) /\ events' = events
    BY <1>1 DEF HandleSetup
  <2>2. d \in Datagrams /\ fromDev' \in Seq(Datagrams)
    BY <2>1, ArrivedTypes
  <2>3. /\ Answer(d.id, "Start", d.n) \in Answers /\ <<>> \in Seq(Events)
        /\ <<>> \in Seq(Pieces) /\ d.id \in Ids
    BY <2>2 DEF Answer, Answers, Datagrams
  <2>4. Fresh(d) \in Transfers
    BY <2>2, <2>3, Bounds DEF Fresh, Transfers, Datagrams
  <2>5. active' \in [Ids -> Transfers \cup {None}]
    BY <1>0, <2>1, <2>4
  <2> QED
    BY <1>0, <2>1, <2>2, <2>3, <2>5, TellTypes DEF TypeOK, StreamTypes, NoEvent
<1>2. CASE HandleCancel \/ HandleIgnored
  <2>1. PICK d \in Arrived :
          /\ Receives(d) /\ Pending /\ events' = events
          /\ Remove(d.id) \/ active' = active
    BY <1>2 DEF HandleCancel, HandleIgnored
  <2>2. d.id \in Ids /\ fromDev' \in Seq(Datagrams)
    BY <2>1, ArrivedTypes
  <2>3. active' \in [Ids -> Transfers \cup {None}]
    BY <1>0, <2>1, <2>2 DEF Remove
  <2> QED
    BY <1>0, <2>1, <2>2, <2>3, PendingTypes DEF TypeOK, StreamTypes
<1>3. CASE HandleRefused
  <2>1. PICK d \in Arrived :
          /\ Receives(d) /\ active[d.id] # None /\ Remove(d.id) /\ events' = events
          /\ Report(d, active[d.id])
    BY <1>3 DEF HandleRefused
  <2>2. d.id \in Ids /\ fromDev' \in Seq(Datagrams)
    BY <2>1, ArrivedTypes
  <2>3. active[d.id].n \in 1 .. MaxSetups
    BY <2>1, <2>2, ActiveTypes DEF Types, Transfers
  <2>4. /\ Answer(d.id, "Failure", active[d.id].n) \in Answers
        /\ <<Event("Corrupted", d.id, active[d.id].n, <<>>)>> \in Seq(Events)
    <3>1. <<>> \in Seq(Pieces)
      OBVIOUS
    <3> QED
      BY <2>2, <2>3, <3>1, EventTypes DEF Answer, Answers
  <2>5. active' \in [Ids -> Transfers \cup {None}]
    BY <1>0, <2>1, <2>2 DEF Remove
  <2> QED
    BY <1>0, <2>1, <2>2, <2>4, <2>5, TellTypes DEF TypeOK, StreamTypes, Report
<1>4. CASE HandleContent
  <2>1. PICK d \in Arrived :
          /\ Receives(d) /\ active[d.id] # None /\ Pending /\ events' = events
          /\ active' = [active EXCEPT ![d.id] = Grown(active[d.id], d)]
    BY <1>4 DEF HandleContent
  <2>2. d.id \in Ids /\ d \in Datagrams /\ fromDev' \in Seq(Datagrams)
    BY <2>1, ArrivedTypes
  <2>3. active[d.id] \in Transfers
    BY <2>1, <2>2, ActiveTypes DEF Types
  <2>4. Whole(active[d.id], d) \in Seq(Pieces)
    BY <2>2, <2>3 DEF Whole, Transfers, Datagrams
  <2>5. Grown(active[d.id], d) \in Transfers
    BY <2>3, <2>4 DEF Grown, Transfers
  <2>6. active' \in [Ids -> Transfers \cup {None}]
    BY <1>0, <2>1, <2>2, <2>5
  <2> QED
    BY <1>0, <2>1, <2>2, <2>6, PendingTypes DEF TypeOK, StreamTypes
<1>5. CASE HandleLast
  <2>1. PICK d \in Arrived :
          /\ Receives(d) /\ active[d.id] # None /\ Remove(d.id) /\ events' = events
          /\ IsLast(d) /\ ~ Refused(active[d.id], d)
          /\ Tell(Answer(d.id, "Success", active[d.id].n),
                  <<Event("Complete", d.id, active[d.id].n, Sanitized(Whole(active[d.id], d)))>>)
    BY <1>5 DEF HandleLast
  <2>2. d.id \in Ids /\ d \in Datagrams /\ fromDev' \in Seq(Datagrams)
    BY <2>1, ArrivedTypes
  <2>3. active[d.id] \in Transfers
    BY <2>1, <2>2, ActiveTypes DEF Types
  <2>4. Whole(active[d.id], d) \in Seq(Pieces)
    BY <2>2, <2>3 DEF Whole, Transfers, Datagrams
  <2>5. Sanitized(Whole(active[d.id], d)) \in Seq(Pieces)
    BY <2>1, <2>4, SanitizedTypes DEF Refused
  <2>6. /\ Answer(d.id, "Success", active[d.id].n) \in Answers
        /\ <<Event("Complete", d.id, active[d.id].n, Sanitized(Whole(active[d.id], d)))>>
             \in Seq(Events)
    <3>1. active[d.id].n \in 1 .. MaxSetups
      BY <2>3 DEF Transfers
    <3> QED
      BY <2>2, <2>5, <3>1, EventTypes DEF Answer, Answers
  <2>7. active' \in [Ids -> Transfers \cup {None}]
    BY <1>0, <2>1, <2>2 DEF Remove
  <2> QED
    BY <1>0, <2>1, <2>2, <2>6, <2>7, TellTypes DEF TypeOK, StreamTypes
<1> QED
  BY <1>1, <1>2, <1>3, <1>4, <1>5 DEF HandleDatagram

LEMMA CleanupTypes ==
  ASSUME Types, Cleanup, UNCHANGED device
  PROVE  TypeOK' /\ StreamTypes'
<1> DEFINE stale == {id \in Ids : IsStale(active[id])}
<1>0. /\ active \in [Ids -> Transfers \cup {None}] /\ events \in Seq(Events)
      /\ telling.event \in Seq(Events)
  BY DEF Types, TypeOK
<1>1. /\ active' = Without(stale) /\ UNCHANGED <<telling, fromDev, toDev>>
      /\ pc' \in {"loop", "sending"} /\ waited' = 0
  BY DEF Cleanup, MaySend
<1>2. PICK q \in Orders(stale) :
        events' = events \o [i \in DOMAIN q |-> Event("Corrupted", q[i], active[q[i]].n, <<>>)]
  BY DEF Cleanup
<1> DEFINE told == [i \in DOMAIN q |-> Event("Corrupted", q[i], active[q[i]].n, <<>>)]
<1>3. IsFiniteSet(stale)
  <2>1. stale \subseteq Ids
    OBVIOUS
  <2> QED
    BY <2>1, FileTransferAssumption, FS_Subset
<1>4. q \in [1 .. Cardinality(stale) -> stale] /\ Cardinality(stale) \in Nat
  BY <1>3, FS_CardinalityType DEF Orders
<1>5. \A i \in DOMAIN q : Event("Corrupted", q[i], active[q[i]].n, <<>>) \in Events
  <2> SUFFICES ASSUME NEW i \in DOMAIN q
               PROVE  Event("Corrupted", q[i], active[q[i]].n, <<>>) \in Events
    OBVIOUS
  <2>1. q[i] \in Ids /\ active[q[i]] # None
    BY <1>4 DEF IsStale
  <2>2. active[q[i]].n \in 1 .. MaxSetups /\ <<>> \in Seq(Pieces)
    BY <2>1, ActiveTypes DEF Types, Transfers
  <2> QED
    BY <2>1, <2>2, EventTypes
<1>6. told \in Seq(Events)
  <2>1. DOMAIN q = 1 .. Cardinality(stale)
    BY <1>4
  <2>2. told \in [1 .. Cardinality(stale) -> Events]
    BY <1>5, <2>1
  <2> HIDE DEF told, stale
  <2> QED
    BY <1>4, <2>2
<1>7. events' \in Seq(Events)
  <2> HIDE DEF told
  <2>1. events' = events \o told
    BY <1>2 DEF told
  <2> QED
    BY <1>0, <1>6, <2>1
<1>8. active' \in [Ids -> Transfers \cup {None}]
  BY <1>0, <1>1 DEF Without
<1> QED
  BY <1>0, <1>1, <1>7, <1>8, Bounds DEF TypeOK, StreamTypes, Types

LEMMA TickTypes ==
  ASSUME Types, Tick
  PROVE  /\ TypeOK' /\ StreamTypes'
         /\ \A id \in Ids : (active'[id] = None <=> active[id] = None)
         /\ \A id \in Ids : active[id] # None =>
              /\ active'[id].n = active[id].n /\ active'[id].data = active[id].data
              /\ active'[id].size = active[id].size /\ active'[id].state = active[id].state
<1>0. active \in [Ids -> Transfers \cup {None}]
  BY DEF Types, TypeOK
<1>1. ASSUME NEW id \in Ids
      PROVE  /\ active'[id] \in Transfers \cup {None}
             /\ active'[id] = None <=> active[id] = None
             /\ active[id] # None =>
                  /\ active'[id].n = active[id].n /\ active'[id].data = active[id].data
                  /\ active'[id].size = active[id].size
                  /\ active'[id].state = active[id].state
  <2>1. CASE active[id] # None /\ active[id].age < TransferTimeout
    <3>1. active'[id] = [active[id] EXCEPT !.age = @ + 1]
      BY <2>1 DEF Tick
    <3>2. active[id] \in Transfers
      BY <1>0, <2>1
    <3>3. active[id].age + 1 \in 0 .. TransferTimeout
      BY <2>1, <3>2, Bounds DEF Transfers
    <3> DEFINE t == active[id]
               u == active'[id]
    <3>4. u = [t EXCEPT !.age = t.age + 1] /\ t \in Transfers /\ t.age + 1 \in 0 .. TransferTimeout
      BY <3>1, <3>2, <3>3
    <3> HIDE DEF t, u
    <3>5. /\ u \in Transfers
          /\ u.n = t.n /\ u.data = t.data /\ u.size = t.size /\ u.state = t.state
      BY <3>4 DEF Transfers
    <3> QED
      BY <2>1, <3>5, NoneTypes DEF t, u
  <2>2. CASE ~ (active[id] # None /\ active[id].age < TransferTimeout)
    BY <1>0, <2>2 DEF Tick
  <2> QED
    BY <2>1, <2>2
<1>2. active' \in [Ids -> Transfers \cup {None}]
  <2>1. active' = [id \in Ids |-> active'[id]]
    BY DEF Tick
  <2> QED
    BY <1>1, <2>1
<1>3. waited' \in 0 .. CleanupInterval
  BY Bounds DEF Tick, Types, TypeOK
<1> QED
  BY <1>1, <1>2, <1>3 DEF Tick, Types, TypeOK, StreamTypes

LEMMA LoopTypes ==
  ASSUME Types, TellDone \/ TellFails \/ OtherBranch \/ ConnectionEnds
  PROVE  TypeOK' /\ StreamTypes'
<1>1. CASE TellDone
  <2>1. events' \in Seq(Events)
    BY <1>1 DEF TellDone, Announced, Types, TypeOK
  <2> QED
    BY <1>1, <2>1, NoneTypes, Bounds DEF TellDone, Types, TypeOK, StreamTypes
<1>2. CASE TellFails
  BY <1>2, NoneTypes DEF TellFails, Types, TypeOK, StreamTypes
<1>3. CASE OtherBranch \/ ConnectionEnds
  BY <1>3, Bounds DEF OtherBranch, MaySend, ConnectionEnds, Types, TypeOK, StreamTypes
<1> QED
  BY <1>1, <1>2, <1>3

(* The device's variables, when the handler takes a step. *)
LEMMA AccessoryTypes ==
  ASSUME Types, Handler \/ Tick, UNCHANGED device
  PROVE  Types'
<1>1. DeviceTypes' /\ DeviceFits'
  BY DEF device, Types, DeviceTypes, DeviceFits, Length
<1> QED
  BY <1>1, HandlerTypes, CleanupTypes, TickTypes, LoopTypes DEF Handler, Types

-----------------------------------------------------------------------------
(* The device                                                              *)

LEMMA FileIs ==
  ASSUME Types, NEW n \in 1 .. Len(file)
  PROVE  /\ file[n] \in Files /\ Length(n) \in Nat /\ n \in 1 .. MaxSetups
         /\ \A i \in 1 .. Length(n) : Piece(n, i) \in Pieces
<1>1. file \in Seq(Files) /\ Len(file) \in Nat /\ Len(file) <= MaxSetups
  BY DEF Types, DeviceTypes
<1>2. file[n] \in Files /\ n \in 1 .. MaxSetups
  BY <1>1, Bounds
<1>3. file[n].tags \in Seq(Tags)
  BY <1>2 DEF Files
<1>4. \A i \in 1 .. Length(n) : file[n].tags[i] \in Tags /\ i \in Nat
  BY <1>3 DEF Length
<1> QED
  BY <1>2, <1>3, <1>4 DEF Length, Piece, Pieces

LEMMA SendsTypes ==
  ASSUME Types, NEW d \in Datagrams, Sends(d), UNCHANGED <<handler, toDev>>
  PROVE  TypeOK' /\ StreamTypes'
<1>1. fromDev' \in Seq(Datagrams)
  BY DEF Sends, Types, StreamTypes
<1> QED
  BY <1>1 DEF handler, Types, TypeOK, StreamTypes

(* What the device says next of a transfer it is sending. *)
NextPiece(id) == IF Length(dev[id].n) = 0 THEN 0 ELSE dev[id].sent + 1

CommandOf(n, k) ==
  IF Length(n) <= 1 THEN "Only"
  ELSE IF k = 1 THEN "First" ELSE IF k < Length(n) THEN "Data" ELSE "Last"

ContentOf(id) ==
  LET n == dev[id].n
      k == NextPiece(id)
  IN  Datagram(id, CommandOf(n, k), n, 0, IF k = 0 THEN <<>> ELSE <<Piece(n, k)>>)

LEMMA ContentIs ==
  ASSUME Types, NEW id \in Ids, DevContent(id)
  PROVE  LET n == dev[id].n
             k == NextPiece(id)
         IN  /\ n \in 1 .. Len(file) /\ ContentOf(id) \in Datagrams /\ Sends(ContentOf(id))
             /\ dev' \in [Ids -> Devices] /\ \A o \in Ids : o # id => dev'[o] = dev[o]
             /\ dev'[id].n = n /\ dev'[id].sent = k
             /\ dev'[id].state = IF k = Length(n) THEN "sent" ELSE "sending"
             /\ k \in 0 .. Length(n) /\ (k = 0 <=> Length(n) = 0)
             /\ IsLast(ContentOf(id)) <=> k = Length(n)
<1> DEFINE n == dev[id].n
           k == NextPiece(id)
           c == CommandOf(n, k)
           s == IF k = Length(n) THEN "sent" ELSE "sending"
<1>0. dev \in [Ids -> Devices] /\ dev[id] \in Devices /\ dev[id].state = "sending"
  BY DEF Types, DeviceTypes, DevContent
<1>1. n \in 1 .. Len(file) /\ dev[id].sent \in Nat
      /\ (dev[id].sent < Length(n) \/ (Length(n) = 0 /\ dev[id].sent = 0))
  BY <1>0 DEF Types, DeviceFits, Devices
<1>2. Length(n) \in Nat /\ n \in 1 .. MaxSetups /\ \A i \in 1 .. Length(n) : Piece(n, i) \in Pieces
  BY <1>1, FileIs
<1>3. k \in 0 .. Length(n) /\ (k = 0 <=> Length(n) = 0)
  BY <1>1, <1>2 DEF NextPiece
<1>4. c \in Commands /\ (c \in {"Last", "Only"} <=> k = Length(n))
  BY <1>2, <1>3 DEF CommandOf, Commands
<1>5. (IF k = 0 THEN <<>> ELSE <<Piece(n, k)>>) \in Seq(Pieces)
  <2>1. k # 0 => Piece(n, k) \in Pieces
    BY <1>2, <1>3
  <2> QED
    BY <2>1
<1>6. ContentOf(id) \in Datagrams /\ (IsLast(ContentOf(id)) <=> k = Length(n))
  <2> HIDE DEF k, c
  <2>1. 0 \in Nat
    OBVIOUS
  <2>2. ContentOf(id) = Datagram(id, c, n, 0, IF k = 0 THEN <<>> ELSE <<Piece(n, k)>>)
    BY DEF ContentOf, k, c
  <2> QED
    BY <1>2, <1>4, <1>5, <2>1, <2>2 DEF Datagram, Datagrams, IsLast
<1>7. Sends(ContentOf(id))
  BY DEF DevContent, ContentOf, NextPiece, CommandOf, Sends
<1>8. dev' = [dev EXCEPT ![id].sent = k,
                         ![id].state = IF IsLast([cmd |-> c]) THEN "sent" ELSE @]
  BY DEF DevContent, NextPiece, CommandOf
<1>9. /\ dev' \in [Ids -> Devices] /\ \A o \in Ids : o # id => dev'[o] = dev[o]
      /\ dev'[id].n = n /\ dev'[id].sent = k /\ dev'[id].state = s
  <2>1. IsLast([cmd |-> c]) <=> k = Length(n)
    BY <1>4 DEF IsLast
  <2> DEFINE e == dev[id]
             f == [[e EXCEPT !.sent = k] EXCEPT !.state = s]
  <2>2. e \in Devices /\ e.state = "sending" /\ k \in Nat /\ s \in {"sending", "sent"}
    BY <1>0, <1>2, <1>3
  <2>3. f \in Devices /\ f.n = e.n /\ f.sent = k /\ f.state = s
    <3> HIDE DEF e, k, s
    <3> QED
      BY <2>2 DEF Devices
  <2>4. dev' = [dev EXCEPT ![id] = f]
    <3> HIDE DEF k, n, c
    <3> QED
      BY <1>0, <1>8, <2>1
  <2>5. e.n = n
    OBVIOUS
  <2> HIDE DEF f, k, s, n, e
  <2> QED
    BY <1>0, <2>3, <2>4, <2>5
<1> QED
  BY <1>1, <1>3, <1>6, <1>7, <1>9

LEMMA SetupIs ==
  ASSUME Types, NEW id \in Ids, DevSetup(id)
  PROVE  LET n == Len(file) + 1
         IN  /\ n \in 1 .. MaxSetups /\ MayGiveUp(id)
             /\ \E f \in Files :
                  /\ file' = Append(file, f)
                  /\ Datagram(id, "Setup", n, f.size, <<>>) \in Datagrams
                  /\ Sends(Datagram(id, "Setup", n, f.size, <<>>))
             /\ dev' = [dev EXCEPT ![id] = [state |-> "setup", n |-> n, sent |-> 0]]
<1> DEFINE n == Len(file) + 1
<1>1. PICK tags \in work.contents : \E size \in SizesOf(tags) :
        /\ file' = Append(file, [tags |-> tags, size |-> size])
        /\ dev' = [dev EXCEPT ![id] = [state |-> "setup", n |-> n, sent |-> 0]]
        /\ Sends(Datagram(id, "Setup", n, size, <<>>))
  BY DEF DevSetup
<1>2. PICK size \in SizesOf(tags) :
        /\ file' = Append(file, [tags |-> tags, size |-> size])
        /\ Sends(Datagram(id, "Setup", n, size, <<>>))
  BY <1>1
<1>3. tags \in Seq(Tags) /\ Len(file) \in Nat
  BY Bounds DEF Types, DeviceTypes
<1>4. size \in Nat
  BY <1>3 DEF SizesOf
<1>5. [tags |-> tags, size |-> size] \in Files
  BY <1>3, <1>4 DEF Files
<1>6. n \in 1 .. MaxSetups
  BY <1>3, Bounds DEF DevSetup, Types, DeviceTypes
<1>7. Datagram(id, "Setup", n, size, <<>>) \in Datagrams
  BY <1>4, <1>6 DEF Datagram, Datagrams, Commands
<1>8. MayGiveUp(id)
  BY DEF DevSetup
<1> QED
  BY <1>1, <1>2, <1>5, <1>6, <1>7, <1>8

(* What was said of a file stays true when another one is set up. *)
LEMMA FileGrows ==
  ASSUME Types, NEW f \in Files, file' = Append(file, f)
  PROVE  /\ Len(file') = Len(file) + 1 /\ Len(file) \in Nat /\ file' \in Seq(Files)
         /\ file'[Len(file) + 1] = f
         /\ \A n \in 1 .. Len(file) :
              /\ file'[n] = file[n] /\ Length(n)' = Length(n)
              /\ \A i : Piece(n, i)' = Piece(n, i)
<1>1. file \in Seq(Files)
  BY DEF Types, DeviceTypes
<1>2. /\ Len(file') = Len(file) + 1 /\ Len(file) \in Nat /\ file' \in Seq(Files)
      /\ file'[Len(file) + 1] = f
      /\ \A n \in 1 .. Len(file) : file'[n] = file[n]
  BY <1>1
<1> QED
  BY <1>2 DEF Length, Piece

LEMMA AnswerIs ==
  ASSUME Types, DevAnswer
  PROVE  LET a == toDev[1]
             d == dev[a.id]
         IN  /\ toDev # <<>> /\ a \in Answers /\ a.id \in Ids /\ toDev' = Tail(toDev)
             /\ toDev' \in Seq(Answers)
             /\ \/ /\ a.cmd = "Start" /\ d.state = "setup" /\ UNCHANGED believed
                   /\ dev' = [dev EXCEPT ![a.id] = [d EXCEPT !.state = "sending"]]
                \/ /\ a.cmd = "Success" /\ d.state = "sent"
                   /\ dev' = [dev EXCEPT ![a.id] = Idle] /\ believed' = believed \cup {d.n}
                \/ /\ a.cmd = "Failure" /\ d.state # "idle" /\ MayGiveUp(a.id)
                   /\ UNCHANGED believed /\ dev' = [dev EXCEPT ![a.id] = Idle]
                \/ UNCHANGED <<dev, believed>>
             /\ UNCHANGED <<handler, work, fromDev, file, pauses>>
<1>1. toDev \in Seq(Answers) /\ toDev # <<>>
  BY DEF Types, StreamTypes, DevAnswer
<1>2. Head(toDev) = toDev[1] /\ toDev[1] \in Answers /\ Tail(toDev) \in Seq(Answers)
  BY <1>1
<1>3. toDev[1].id \in Ids
  BY <1>2 DEF Answers
<1>4. dev \in [Ids -> Devices]
  BY DEF Types, DeviceTypes
<1>5. [dev EXCEPT ![toDev[1].id].state = "sending"]
        = [dev EXCEPT ![toDev[1].id] = [dev[toDev[1].id] EXCEPT !.state = "sending"]]
  BY <1>3, <1>4
<1> QED
  BY <1>1, <1>2, <1>3, <1>5 DEF DevAnswer

LEMMA DeviceStepTypes ==
  ASSUME Types, Device
  PROVE  Types'
<1>0. /\ dev \in [Ids -> Devices] /\ work \in Workloads /\ work.ids \subseteq Ids
      /\ file \in Seq(Files) /\ Len(file) \in Nat /\ Len(file) <= MaxSetups
      /\ believed \subseteq 0 .. MaxSetups /\ pauses \in Nat
      /\ Idle \in Devices /\ Idle.state = "idle"
  BY Bounds DEF Types, DeviceTypes, Idle, Devices
<1>1. ASSUME NEW id \in Ids, DevSetup(id) PROVE Types'
  <2> DEFINE n == Len(file) + 1
             e == [state |-> "setup", n |-> n, sent |-> 0]
  <2>1. /\ n \in 1 .. MaxSetups /\ dev' = [dev EXCEPT ![id] = e]
        /\ \E f \in Files : /\ file' = Append(file, f)
                            /\ Datagram(id, "Setup", n, f.size, <<>>) \in Datagrams
                            /\ Sends(Datagram(id, "Setup", n, f.size, <<>>))
    BY <1>1, SetupIs
  <2>2. PICK f \in Files : /\ file' = Append(file, f)
                           /\ Datagram(id, "Setup", n, f.size, <<>>) \in Datagrams
                           /\ Sends(Datagram(id, "Setup", n, f.size, <<>>))
    BY <2>1
  <2>3. UNCHANGED <<handler, work, toDev, believed, pauses>>
    BY <1>1 DEF DevSetup
  <2>4. e \in Devices /\ e.state = "setup" /\ e.n = n /\ e.sent = 0
    BY <2>1, Bounds DEF Devices
  <2>5. TypeOK' /\ StreamTypes'
    BY <2>2, <2>3, SendsTypes
  <2>6. /\ Len(file') = n /\ file' \in Seq(Files)
        /\ \A m \in 1 .. Len(file) : Length(m)' = Length(m)
    BY <2>2, FileGrows
  <2> HIDE DEF e, n
  <2>7. DeviceTypes'
    BY <1>0, <2>1, <2>3, <2>4, <2>6, Bounds DEF DeviceTypes
  <2>8. DeviceFits'
    <3> SUFFICES ASSUME NEW o \in Ids
                 PROVE  LET d == dev'[o]
                        IN  /\ d.state # "idle" => d.n \in 1 .. Len(file')
                            /\ d.state = "setup" => d.sent = 0
                            /\ d.state = "sending" =>
                                 \/ d.sent < Len(file'[d.n].tags)
                                 \/ Len(file'[d.n].tags) = 0 /\ d.sent = 0
                            /\ d.state = "sent" => d.sent = Len(file'[d.n].tags)
      BY DEF DeviceFits, Length
    <3>1. CASE o = id
      <4>1. dev'[o] = e
        BY <1>0, <2>1, <3>1
      <4> QED
        BY <2>1, <2>4, <2>6, <4>1
    <3>2. CASE o # id
      <4>1. dev'[o] = dev[o]
        BY <1>0, <2>1, <3>2
      <4>2. \A m \in 1 .. Len(file) :
              m \in 1 .. Len(file') /\ Len(file'[m].tags) = Length(m)
        BY <1>0, <2>6 DEF n, Length
      <4> QED
        BY <4>1, <4>2 DEF Types, DeviceFits
    <3> QED
      BY <3>1, <3>2
  <2> QED
    BY <2>5, <2>7, <2>8 DEF Types
<1>2. ASSUME NEW id \in Ids, DevContent(id) PROVE Types'
  <2> DEFINE n == dev[id].n
             k == NextPiece(id)
  <2>1. /\ n \in 1 .. Len(file) /\ ContentOf(id) \in Datagrams /\ Sends(ContentOf(id))
        /\ dev' \in [Ids -> Devices] /\ \A o \in Ids : o # id => dev'[o] = dev[o]
        /\ dev'[id].n = n /\ dev'[id].sent = k
        /\ dev'[id].state = IF k = Length(n) THEN "sent" ELSE "sending"
        /\ k \in 0 .. Length(n) /\ (k = 0 <=> Length(n) = 0)
    BY <1>2, ContentIs
  <2>2. UNCHANGED <<handler, work, toDev, file, believed, pauses>>
    BY <1>2 DEF DevContent
  <2>3. TypeOK' /\ StreamTypes'
    BY <2>1, <2>2, SendsTypes
  <2>4. DeviceTypes'
    BY <1>0, <2>1, <2>2 DEF DeviceTypes
  <2>5. Length(n) \in Nat
    BY <2>1, FileIs
  <2>6. \A m : Length(m)' = Length(m)
    BY <2>2 DEF Length
  <2> HIDE DEF n, k
  <2>7. DeviceFits'
    <3> SUFFICES ASSUME NEW o \in Ids
                 PROVE  LET d == dev'[o]
                        IN  /\ d.state # "idle" => d.n \in 1 .. Len(file)
                            /\ d.state = "setup" => d.sent = 0
                            /\ d.state = "sending" =>
                                 d.sent < Length(d.n) \/ (Length(d.n) = 0 /\ d.sent = 0)
                            /\ d.state = "sent" => d.sent = Length(d.n)
      BY <2>2 DEF DeviceFits, Length
    <3>1. CASE o = id
      BY <2>1, <2>5, <3>1
    <3>2. CASE o # id
      BY <2>1, <3>2 DEF Types, DeviceFits
    <3> QED
      BY <3>1, <3>2
  <2> QED
    BY <2>3, <2>4, <2>7 DEF Types
<1>3. ASSUME NEW id \in Ids, DevCancel(id) \/ DevPause(id) PROVE Types'
  <2>1. /\ dev[id].state # "idle" /\ UNCHANGED <<handler, work, toDev, file, believed>>
        /\ dev' = dev \/ dev' = [dev EXCEPT ![id] = Idle]
        /\ pauses' = pauses \/ pauses' = pauses + 1
        /\ \E c \in {"Cancel", "Pause"} : Sends(Datagram(id, c, dev[id].n, 0, <<>>))
    BY <1>3 DEF DevCancel, DevPause
  <2>2. dev[id].n \in 1 .. MaxSetups
    <3>1. dev[id].n \in 1 .. Len(file)
      BY <2>1 DEF Types, DeviceFits
    <3> QED
      BY <3>1, FileIs
  <2>3. \A c \in {"Cancel", "Pause"} : Datagram(id, c, dev[id].n, 0, <<>>) \in Datagrams
    BY <2>2 DEF Datagram, Datagrams, Commands
  <2>4. TypeOK' /\ StreamTypes'
    BY <2>1, <2>3, SendsTypes
  <2>5. DeviceTypes'
    BY <1>0, <2>1 DEF DeviceTypes
  <2>6. DeviceFits'
    <3> SUFFICES ASSUME NEW o \in Ids
                 PROVE  LET d == dev'[o]
                        IN  /\ d.state # "idle" => d.n \in 1 .. Len(file)
                            /\ d.state = "setup" => d.sent = 0
                            /\ d.state = "sending" =>
                                 d.sent < Length(d.n) \/ (Length(d.n) = 0 /\ d.sent = 0)
                            /\ d.state = "sent" => d.sent = Length(d.n)
      BY <2>1 DEF DeviceFits, Length
    <3>1. dev'[o] = dev[o] \/ dev'[o].state = "idle"
      BY <1>0, <2>1
    <3> QED
      BY <3>1 DEF Types, DeviceFits
  <2> QED
    BY <2>4, <2>5, <2>6 DEF Types
<1>4. CASE DevAnswer
  <2> DEFINE a == toDev[1]
             d == dev[a.id]
             g == [d EXCEPT !.state = "sending"]
  <2>1. /\ a.id \in Ids /\ toDev' \in Seq(Answers)
        /\ \/ /\ d.state = "setup" /\ UNCHANGED believed
              /\ dev' = [dev EXCEPT ![a.id] = g]
           \/ /\ d.state = "sent"
              /\ dev' = [dev EXCEPT ![a.id] = Idle] /\ believed' = believed \cup {d.n}
           \/ dev' = [dev EXCEPT ![a.id] = Idle] /\ UNCHANGED believed
           \/ UNCHANGED <<dev, believed>>
        /\ UNCHANGED <<handler, work, fromDev, file, pauses>>
    BY <1>4, AnswerIs
  <2>2. TypeOK' /\ StreamTypes'
    BY <2>1 DEF handler, Types, TypeOK, StreamTypes
  <2>3. d \in Devices /\ d.n \in 0 .. MaxSetups
    BY <1>0, <2>1 DEF Devices
  <2>4. g \in Devices /\ g.state = "sending" /\ g.n = d.n /\ g.sent = d.sent
    <3> HIDE DEF d
    <3> QED
      BY <2>3 DEF Devices
  <2>5. d.state = "setup" => /\ d.n \in 1 .. Len(file) /\ d.sent = 0
                             /\ d.sent < Length(d.n) \/ (Length(d.n) = 0 /\ d.sent = 0)
    <3>1. d.state = "setup" => d.n \in 1 .. Len(file) /\ d.sent = 0
      BY <2>1 DEF Types, DeviceFits
    <3>2. d.state = "setup" => Length(d.n) \in Nat
      BY <3>1, FileIs
    <3> HIDE DEF d
    <3> QED
      BY <3>1, <3>2
  <2> HIDE DEF g
  <2>6. DeviceTypes'
    BY <1>0, <2>1, <2>3, <2>4 DEF DeviceTypes
  <2>7. DeviceFits'
    <3> SUFFICES ASSUME NEW o \in Ids
                 PROVE  LET x == dev'[o]
                        IN  /\ x.state # "idle" => x.n \in 1 .. Len(file)
                            /\ x.state = "setup" => x.sent = 0
                            /\ x.state = "sending" =>
                                 x.sent < Length(x.n) \/ (Length(x.n) = 0 /\ x.sent = 0)
                            /\ x.state = "sent" => x.sent = Length(x.n)
      BY <2>1 DEF DeviceFits, Length
    <3>1. \/ dev'[o] = dev[o] \/ dev'[o].state = "idle"
          \/ d.state = "setup" /\ dev'[o] = g
      BY <1>0, <2>1
    <3> HIDE DEF d
    <3> QED
      BY <2>4, <2>5, <3>1 DEF Types, DeviceFits
  <2> QED
    BY <2>2, <2>6, <2>7 DEF Types
<1> QED
  BY <1>0, <1>1, <1>2, <1>3, <1>4 DEF Device

LEMMA StepTypes == Types /\ [Next]_vars => Types'
<1> SUFFICES ASSUME Types, [Next]_vars PROVE Types'
  OBVIOUS
<1>1. CASE UNCHANGED vars
  BY <1>1
  DEF vars, files, handler, device, Types, TypeOK, StreamTypes, DeviceTypes, DeviceFits, Length
<1> QED
  BY <1>1, AccessoryTypes, DeviceStepTypes DEF Next

LEMMA TypesHold == Spec => []Types
BY InitTypes, StepTypes, PTL DEF Spec

(* The handler's variables keep their types: a transfer that is held is    *)
(* being set up or received, never complete or failed, and what the        *)
(* application is told names a transfer the device set up.                 *)
THEOREM FileTypesCorrect == Spec => []TypeOK
BY TypesHold, PTL DEF Types

-----------------------------------------------------------------------------
(* The inductive invariant                                                 *)

Indices == DOMAIN fromDev

(* The verdicts, with the one that is told when the send was acked. *)
Said == events \o telling.event

Tells(said, n) == \E i \in DOMAIN said : said[i].n = n

Told(n) == Tells(Said, n)

Held(id) == active[id] # None

Busy(id) == dev[id].state # "idle"

IsSetupOf(i, n) == fromDev[i].cmd = "Setup" /\ fromDev[i].n = n

AwaitsSetup(n) == \E i \in Indices : IsSetupOf(i, n)

(* A transfer belongs to one id: own says to which. *)
Owned(own) ==
  /\ own \in [1 .. Len(file) -> Ids]
  /\ \A i \in Indices :
       fromDev[i].n \in 1 .. Len(file) /\ own[fromDev[i].n] = fromDev[i].id
  /\ \A id \in Ids : Held(id) =>
       active[id].n \in 1 .. Len(file) /\ own[active[id].n] = id
  /\ \A id \in Ids : Busy(id) => own[dev[id].n] = id
  /\ \A i \in DOMAIN Said : Said[i].n \in 1 .. Len(file)

(* With one id, the next transfer begins with its Setup: on its way,       *)
(* against what the handler holds, and for what the device is doing.       *)
StreamOrdered ==
  \A i, j \in Indices :
    i < j /\ fromDev[i].id = fromDev[j].id /\ fromDev[i].n # fromDev[j].n =>
      \E k \in Indices : i < k /\ k <= j /\ IsSetupOf(k, fromDev[j].n)

HeldOrdered ==
  \A id \in Ids : Held(id) =>
    \A j \in Indices : fromDev[j].id = id /\ fromDev[j].n # active[id].n =>
      \E k \in Indices : k <= j /\ IsSetupOf(k, fromDev[j].n)

DeviceOrdered ==
  \A id \in Ids : Busy(id) =>
    \A i \in Indices :
      fromDev[i].id = id /\ (fromDev[i].n # dev[id].n \/ fromDev[i].cmd = "Cancel") =>
        \E k \in Indices : i < k /\ IsSetupOf(k, dev[id].n)

(* What the device is doing is not set up yet, held, or decided. *)
Followed ==
  \A id \in Ids : Busy(id) =>
    \/ AwaitsSetup(dev[id].n)
    \/ Held(id) /\ active[id].n = dev[id].n
    \/ ~ Held(id) /\ (Told(dev[id].n) \/ pc = "down")

Ordered == StreamOrdered /\ HeldOrdered /\ DeviceOrdered /\ Followed

(* A Setup is the first that is heard of a transfer, a verdict the last. *)
Once ==
  /\ \A i, j \in Indices : i < j /\ fromDev[j].cmd = "Setup" => fromDev[i].n # fromDev[j].n
  /\ \A j \in Indices : fromDev[j].cmd = "Setup" =>
       /\ ~ Told(fromDev[j].n)
       /\ \A id \in Ids : Held(id) => active[id].n # fromDev[j].n
  /\ \A id \in Ids : Held(id) => ~ Told(active[id].n)
  /\ \A i, j \in DOMAIN Said : i # j => Said[i].n # Said[j].n
  /\ pc = "loop" => telling.event = <<>>

(* Where in q there are pieces of transfer n in front of position j, and   *)
(* how many.                                                               *)
Carriers(q, n, j) == {i \in DOMAIN q : i < j /\ q[i].n = n /\ q[i].data # <<>>}

Carried(q, n, j) == Cardinality(Carriers(q, n, j))

(* Datagram d, of a transfer of file f whose turn it is to send piece k. *)
Fits(d, f, k) ==
  /\ IsContent(d) /\ Len(f.tags) = 0 => d.data = <<>> /\ d.cmd = "Only"
  /\ IsContent(d) /\ Len(f.tags) # 0 =>
       /\ k <= Len(f.tags) /\ d.data = <<[n |-> d.n, i |-> k, tag |-> f.tags[k]]>>
       /\ IsLast(d) <=> k = Len(f.tags)
       /\ d.cmd = "Only" => k = 1
  /\ ~ IsContent(d) => d.data = <<>>
  /\ d.cmd = "Setup" => d.size = f.size /\ k = 1

(* got says how many pieces of each transfer the handler has read, whether *)
(* it kept them or not.                                                    *)
Counted(got) ==
  /\ got \in [1 .. Len(file) -> Nat]
  /\ \A i \in Indices :
       LET d == fromDev[i]
       IN  Fits(d, file[d.n], got[d.n] + Carried(fromDev, d.n, i) + 1)
  /\ \A id \in Ids : Held(id) =>
       LET t == active[id]
       IN  /\ t.data = Prefix(t.n, got[t.n]) /\ got[t.n] <= Length(t.n)
           /\ t.size = file[t.n].size
  /\ \A id \in Ids : Busy(id) =>
       dev[id].sent = got[dev[id].n] + Carried(fromDev, dev[id].n, Len(fromDev) + 1)

IsWhole(e) ==
  e.kind = "Complete" =>
    /\ e.data = Sanitized(Prefix(e.n, Length(e.n)))
    /\ file[e.n].size \in {0, Length(e.n)}

AllWhole == \A i \in DOMAIN Said : IsWhole(Said[i])

-----------------------------------------------------------------------------
(* Counting                                                                *)

LEMMA PlusOne ==
  ASSUME NEW T \in SUBSET Nat, IsFiniteSet(T)
  PROVE  /\ IsFiniteSet({i + 1 : i \in T})
         /\ Cardinality({i + 1 : i \in T}) = Cardinality(T)
<1> DEFINE S == {i + 1 : i \in T}
           f == [i \in T |-> i + 1]
<1>1. f \in Bijection(T, S)
  <2>1. f \in [T -> S] /\ \A i, j \in T : f[i] = f[j] => i = j
    OBVIOUS
  <2>2. \A s \in S : \E i \in T : f[i] = s
    OBVIOUS
  <2> QED
    BY <2>1, <2>2 DEF Bijection, Injection, Surjection, IsInjective
<1> HIDE DEF f, S
<1>2. ExistsBijection(T, S)
  BY <1>1 DEF ExistsBijection
<1> QED
  BY <1>1, <1>2, FS_Bijection, FS_SameCardinalityBij DEF S

LEMMA CarriersAreFinite ==
  ASSUME NEW q \in Seq(Datagrams), NEW n, NEW j
  PROVE  /\ Carriers(q, n, j) \in SUBSET Nat /\ IsFiniteSet(Carriers(q, n, j))
         /\ Carried(q, n, j) \in Nat
<1>1. DOMAIN q = 1 .. Len(q) /\ Len(q) \in Nat
  OBVIOUS
<1>2. IsFiniteSet(1 .. Len(q))
  BY <1>1, FS_Interval
<1>3. Carriers(q, n, j) \subseteq 1 .. Len(q)
  BY <1>1 DEF Carriers
<1>4. IsFiniteSet(Carriers(q, n, j))
  BY <1>2, <1>3, FS_Subset
<1> QED
  BY <1>3, <1>4, FS_CardinalityType DEF Carried

(* The stream without its first datagram. *)
LEMMA TailCarried ==
  ASSUME NEW q \in Seq(Datagrams), q # <<>>, NEW n, NEW j \in Nat \ {0}
  PROVE  Carried(q, n, j + 1)
           = Carried(Tail(q), n, j) + (IF q[1].n = n /\ q[1].data # <<>> THEN 1 ELSE 0)
<1> DEFINE r == Tail(q)
           B == Carriers(r, n, j)
           S == {i + 1 : i \in B}
           C == Carriers(q, n, j + 1)
<1>1. /\ DOMAIN r = 1 .. Len(q) - 1 /\ DOMAIN q = 1 .. Len(q)
      /\ Len(q) \in Nat \ {0} /\ r \in Seq(Datagrams)
      /\ \A i \in DOMAIN r : i + 1 \in DOMAIN q /\ r[i] = q[i + 1]
      /\ \A i \in DOMAIN q : i = 1 \/ (i - 1 \in DOMAIN r /\ r[i - 1] = q[i])
  OBVIOUS
<1> HIDE DEF r
<1>2. B \in SUBSET Nat /\ IsFiniteSet(B) /\ Cardinality(B) \in Nat
  BY <1>1, CarriersAreFinite DEF Carried
<1>3. IsFiniteSet(S) /\ Cardinality(S) = Cardinality(B)
  <2> HIDE DEF B
  <2> QED
    BY <1>2, PlusOne
<1>4. \A i : i \in B <=> i \in DOMAIN r /\ i < j /\ r[i].n = n /\ r[i].data # <<>>
  BY DEF Carriers
<1>5. \A i : i \in C <=> i \in DOMAIN q /\ i < j + 1 /\ q[i].n = n /\ q[i].data # <<>>
  BY DEF Carriers
<1> HIDE DEF B, C
<1>6. \A i : i \in S <=> i \in C /\ i # 1
  <2>1. ASSUME NEW i \in B PROVE i + 1 \in C /\ i + 1 # 1
    <3>1. /\ i \in Nat \ {0} /\ i + 1 \in DOMAIN q /\ r[i] = q[i + 1] /\ i < j
          /\ r[i].n = n /\ r[i].data # <<>>
      BY <2>1, <1>1, <1>4
    <3>2. i + 1 < j + 1 /\ i + 1 # 1
      BY <3>1
    <3> QED
      BY <3>1, <3>2, <1>5
  <2>2. ASSUME NEW i \in C, i # 1 PROVE i - 1 \in B /\ i = (i - 1) + 1
    <3>1. /\ i \in Nat /\ i - 1 \in DOMAIN r /\ r[i - 1] = q[i] /\ i < j + 1
          /\ q[i].n = n /\ q[i].data # <<>>
      BY <2>2, <1>1, <1>5
    <3>2. i - 1 < j /\ i = (i - 1) + 1
      BY <3>1
    <3> QED
      BY <3>1, <3>2, <1>4
  <2> QED
    BY <2>1, <2>2
<1>7. 1 \in C <=> q[1].n = n /\ q[1].data # <<>>
  BY <1>1, <1>5
<1>8. Cardinality(C) = Cardinality(B) + (IF 1 \in C THEN 1 ELSE 0)
  <2>1. CASE 1 \in C
    <3>1. C = S \cup {1} /\ 1 \notin S
      BY <1>6, <2>1
    <3> HIDE DEF S
    <3>2. Cardinality(C) = Cardinality(S) + 1
      BY <1>3, <3>1, FS_AddElement
    <3> QED
      BY <1>3, <2>1, <3>2
  <2>2. CASE 1 \notin C
    <3>1. C = S
      BY <1>6, <2>2
    <3> HIDE DEF S
    <3> QED
      BY <1>2, <1>3, <2>2, <3>1
  <2> QED
    BY <2>1, <2>2
<1> QED
  BY <1>7, <1>8 DEF B, C, r, Carried

(* The stream with one more datagram. *)
LEMMA SentCarried ==
  ASSUME NEW q \in Seq(Datagrams), NEW d, NEW n
  PROVE  /\ \A j \in 1 .. Len(q) + 1 : Carried(Append(q, d), n, j) = Carried(q, n, j)
         /\ Carried(Append(q, d), n, Len(q) + 2)
              = Carried(q, n, Len(q) + 1) + (IF d.n = n /\ d.data # <<>> THEN 1 ELSE 0)
<1> DEFINE l == Len(q) + 1
           r == Append(q, d)
           W == Carriers(q, n, l)
           V == Carriers(r, n, l + 1)
<1>1. /\ DOMAIN r = 1 .. l /\ DOMAIN q = 1 .. Len(q)
      /\ Len(q) \in Nat /\ r[l] = d /\ \A i \in DOMAIN q : r[i] = q[i]
  OBVIOUS
<1> HIDE DEF r
<1>2. \A i : i \in W <=> i \in DOMAIN q /\ i < l /\ q[i].n = n /\ q[i].data # <<>>
  BY DEF Carriers
<1>3. \A i : i \in V <=> i \in DOMAIN r /\ i < l + 1 /\ r[i].n = n /\ r[i].data # <<>>
  BY DEF Carriers
<1>4. ASSUME NEW j \in 1 .. l PROVE Carried(r, n, j) = Carried(q, n, j)
  <2>1. \A i : i \in DOMAIN r /\ i < j <=> i \in DOMAIN q /\ i < j
    BY <1>1
  <2>2. Carriers(r, n, j) = Carriers(q, n, j)
    BY <1>1, <2>1 DEF Carriers
  <2> QED
    BY <2>2 DEF Carried
<1>5. IsFiniteSet(W) /\ Cardinality(W) \in Nat
  BY CarriersAreFinite DEF Carried
<1> HIDE DEF V, W
<1>6. \A i : i \in V <=> i \in W \/ (i = l /\ d.n = n /\ d.data # <<>>)
  BY <1>1, <1>2, <1>3
<1>7. l \notin W
  BY <1>1, <1>2
<1>8. Cardinality(V) = Cardinality(W) + (IF d.n = n /\ d.data # <<>> THEN 1 ELSE 0)
  <2>1. CASE d.n = n /\ d.data # <<>>
    <3>1. V = W \cup {l}
      BY <1>6, <2>1
    <3>2. Cardinality(V) = Cardinality(W) + 1
      <4> HIDE DEF l
      <4> QED
        BY <3>1, <1>5, <1>7, FS_AddElement
    <3> QED
      BY <2>1, <3>2
  <2>2. CASE ~ (d.n = n /\ d.data # <<>>)
    <3>1. V = W
      BY <1>6, <2>2
    <3> QED
      BY <1>5, <2>2, <3>1
  <2> QED
    BY <2>1, <2>2
<1>9. l + 1 = Len(q) + 2
  BY <1>1
<1> QED
  BY <1>4, <1>8, <1>9 DEF W, V, r, Carried

LEMMA SameCarried ==
  ASSUME NEW q \in Seq(Datagrams), NEW d, NEW n, NEW j \in 1 .. Len(q) + 1
  PROVE  Carried(Append(q, d), n, j) = Carried(q, n, j)
BY SentCarried

LEMMA AllCarried ==
  ASSUME Types, NEW n
  PROVE  Cardinality(OnTheWay(n)) = Carried(fromDev, n, Len(fromDev) + 1)
<1>1. DOMAIN fromDev = 1 .. Len(fromDev) /\ Len(fromDev) \in Nat
  BY DEF Types, StreamTypes
<1>2. OnTheWay(n) = Carriers(fromDev, n, Len(fromDev) + 1)
  BY <1>1 DEF OnTheWay, Carriers
<1> QED
  BY <1>2 DEF Carried

-----------------------------------------------------------------------------
(* The stream, with one datagram less or more                              *)

LEMMA TailIs ==
  ASSUME Types, fromDev # <<>>, fromDev' = Tail(fromDev)
  PROVE  /\ Indices' = 1 .. Len(fromDev) - 1 /\ Indices = 1 .. Len(fromDev)
         /\ Len(fromDev) \in Nat \ {0} /\ 1 \in Indices
         /\ \A i \in Indices' : i + 1 \in Indices /\ fromDev'[i] = fromDev[i + 1]
         /\ \A i \in Indices : i = 1 \/ (i - 1 \in Indices' /\ fromDev'[i - 1] = fromDev[i])
<1>1. fromDev \in Seq(Datagrams)
  BY DEF Types, StreamTypes
<1> QED
  BY <1>1 DEF Indices

LEMMA SentIs ==
  ASSUME Types, NEW d, Sends(d)
  PROVE  /\ Indices' = 1 .. Len(fromDev) + 1 /\ Indices = 1 .. Len(fromDev)
         /\ Len(fromDev) \in Nat /\ fromDev'[Len(fromDev) + 1] = d
         /\ \A i \in Indices : fromDev'[i] = fromDev[i]
<1>1. fromDev \in Seq(Datagrams)
  BY DEF Types, StreamTypes
<1> QED
  BY <1>1 DEF Indices, Sends

-----------------------------------------------------------------------------
(* What a step of the handler comes to                                     *)

(* The datagram that is read. *)
First == fromDev[1]

SetsUp ==
  First.cmd = "Setup" /\ active'[First.id] = Fresh(First) /\ Said' = Said

Drops == First.cmd = "Cancel" /\ active'[First.id] = None /\ Said' = Said

Skips ==
  /\ First.cmd \notin {"Setup", "Cancel"} /\ (IsContent(First) => ~ Held(First.id))
  /\ active'[First.id] = active[First.id] /\ Said' = Said

Takes ==
  /\ IsContent(First) /\ ~ IsLast(First) /\ Held(First.id)
  /\ ~ Refused(active[First.id], First)
  /\ active'[First.id] = Grown(active[First.id], First) /\ Said' = Said

Decides ==
  /\ IsContent(First) /\ Held(First.id) /\ active'[First.id] = None
  /\ \/ pc' = "down" /\ Said' = Said
     \/ \E e \in Events :
          /\ Said' = Append(Said, e) /\ e.n = active[First.id].n
          /\ e.kind = "Complete" =>
               /\ IsLast(First) /\ ~ Refused(active[First.id], First)
               /\ e.data = Sanitized(Whole(active[First.id], First))

ReadsOne ==
  /\ pc = "loop" /\ fromDev # <<>> /\ fromDev' = Tail(fromDev)
  /\ UNCHANGED device
  /\ First \in Datagrams /\ First.id \in Ids
  /\ \A o \in Ids : o # First.id => active'[o] = active[o]
  /\ SetsUp \/ Drops \/ Skips \/ Takes \/ Decides
  /\ pc' = "loop" => telling'.event = <<>>

(* A step that reads nothing: verdicts that are lost with the connection,  *)
(* and those of the cleanup.                                               *)
Keeps ==
  /\ \A id \in Ids : Held(id) => active'[id] # None
  /\ \/ Said' = Said
     \/ /\ pc' = "down" /\ DOMAIN Said' \subseteq DOMAIN Said
        /\ \A i \in DOMAIN Said' : Said'[i] = Said[i]

Swept(id) == Held(id) /\ active'[id] = None

Sweeps ==
  \E told \in Seq(Events) :
    /\ Said' = Said \o told
    /\ \A i \in DOMAIN told :
         /\ told[i].kind = "Corrupted"
         /\ Swept(told[i].id) /\ told[i].n = active[told[i].id].n
    /\ \A i, j \in DOMAIN told : i # j => told[i].id # told[j].id
    /\ \A id \in Ids : Swept(id) => \E i \in DOMAIN told : told[i].n = active[id].n

ReadsNothing ==
  /\ UNCHANGED <<fromDev, toDev, device>>
  /\ \A id \in Ids :
       \/ active'[id] = None
       \/ /\ Held(id) /\ active'[id].n = active[id].n
          /\ active'[id].data = active[id].data /\ active'[id].size = active[id].size
  /\ Keeps \/ Sweeps
  /\ pc' = "loop" => telling'.event = <<>>
  /\ pc = "down" => pc' = "down"

LEMMA SaidTypes ==
  ASSUME Types
  PROVE  /\ Said \in Seq(Events) /\ events \in Seq(Events) /\ telling.event \in Seq(Events)
         /\ telling.event = <<>> => Said = events
         /\ DOMAIN Said = 1 .. Len(Said) /\ Len(Said) \in Nat
<1>1. events \in Seq(Events) /\ telling.event \in Seq(Events)
  BY DEF Types, TypeOK
<1>2. Said \in Seq(Events)
  BY <1>1 DEF Said
<1>3. telling.event = <<>> => Said = events
  BY <1>1 DEF Said
<1> QED
  BY <1>1, <1>2, <1>3

LEMMA TellSays ==
  ASSUME Types, NEW a \in Answers, NEW evs \in Seq(Events), Tell(a, evs),
         pc = "loop", telling.event = <<>>, UNCHANGED events
  PROVE  /\ pc' # "loop"
         /\ (Said' = Said /\ pc' = "down") \/ Said' = Said \o evs
<1>1. events \in Seq(Events) /\ Said = events
  BY SaidTypes
<1>2. CASE telling' = [datagram |-> a, event |-> evs] /\ pc' = "sending"
  <2>1. telling'.event = evs
    BY <1>2
  <2>2. Said' = events \o evs
    BY <2>1 DEF Said
  <2> QED
    BY <1>1, <1>2, <2>2
<1>3. CASE pc' = "down" /\ UNCHANGED telling
  BY <1>3 DEF Said
<1> QED
  BY <1>2, <1>3 DEF Tell

LEMMA ReadStep ==
  ASSUME Types, Once, HandleDatagram, UNCHANGED device
  PROVE  ReadsOne
<1>0. /\ active \in [Ids -> Transfers \cup {None}]
      /\ pc = "loop" => telling.event = <<>>
  BY DEF Types, TypeOK, Once
<1>1. ASSUME NEW d \in Arrived, Receives(d)
      PROVE  /\ d = First /\ pc = "loop" /\ fromDev # <<>> /\ fromDev' = Tail(fromDev)
             /\ First \in Datagrams /\ First.id \in Ids /\ telling.event = <<>>
  BY <1>0, <1>1, ArrivedTypes DEF First
<1>2. CASE HandleSetup
  <2>1. PICK d \in Arrived :
          /\ Receives(d) /\ d.cmd = "Setup" /\ active' = [active EXCEPT ![d.id] = Fresh(d)]
          /\ Tell(Answer(d.id, "Start", d.n), NoEvent) /\ events' = events
    BY <1>2 DEF HandleSetup
  <2>2. /\ d = First /\ pc = "loop" /\ fromDev # <<>> /\ fromDev' = Tail(fromDev)
        /\ First \in Datagrams /\ First.id \in Ids /\ telling.event = <<>>
    BY <1>1, <2>1
  <2>3. /\ Answer(d.id, "Start", d.n) \in Answers /\ <<>> \in Seq(Events)
        /\ Said \in Seq(Events)
    BY <2>2, SaidTypes DEF Answer, Answers, Datagrams
  <2>4. Said' = Said /\ pc' # "loop"
    <3>1. pc' # "loop" /\ (Said' = Said \/ Said' = Said \o <<>>)
      BY <2>1, <2>2, <2>3, TellSays DEF NoEvent
    <3> QED
      BY <2>3, <3>1
  <2>5. SetsUp /\ \A o \in Ids : o # First.id => active'[o] = active[o]
    BY <1>0, <2>1, <2>2, <2>4 DEF SetsUp
  <2> QED
    BY <2>2, <2>4, <2>5 DEF ReadsOne
<1>3. CASE HandleCancel \/ HandleIgnored
  <2>1. PICK d \in Arrived :
          /\ Receives(d) /\ Pending /\ events' = events
          /\ \/ d.cmd = "Cancel" /\ Remove(d.id)
             \/ /\ active' = active
                /\ d.cmd = "Pause" \/ (IsContent(d) /\ active[d.id] = None)
    BY <1>3 DEF HandleCancel, HandleIgnored
  <2>2. /\ d = First /\ pc = "loop" /\ fromDev # <<>> /\ fromDev' = Tail(fromDev)
        /\ First \in Datagrams /\ First.id \in Ids /\ telling.event = <<>>
    BY <1>1, <2>1
  <2>3. Said' = Said /\ telling'.event = <<>>
    BY <2>1, <2>2 DEF Pending, Said
  <2>4. CASE d.cmd = "Cancel" /\ Remove(d.id)
    <3>1. Drops /\ \A o \in Ids : o # First.id => active'[o] = active[o]
      BY <1>0, <2>2, <2>3, <2>4 DEF Remove, Drops
    <3> QED
      BY <2>2, <2>3, <3>1 DEF ReadsOne
  <2>5. CASE /\ active' = active
             /\ d.cmd = "Pause" \/ (IsContent(d) /\ active[d.id] = None)
    <3>1. Skips
      BY <2>2, <2>3, <2>5 DEF Skips, IsContent, Held
    <3> QED
      BY <2>2, <2>3, <2>5, <3>1 DEF ReadsOne
  <2> QED
    BY <2>1, <2>4, <2>5
<1>4. CASE HandleContent
  <2>1. PICK d \in Arrived :
          /\ Receives(d) /\ IsContent(d) /\ ~ IsLast(d) /\ active[d.id] # None
          /\ ~ Refused(active[d.id], d)
          /\ active' = [active EXCEPT ![d.id] = Grown(active[d.id], d)]
          /\ Pending /\ events' = events
    BY <1>4 DEF HandleContent
  <2>2. /\ d = First /\ pc = "loop" /\ fromDev # <<>> /\ fromDev' = Tail(fromDev)
        /\ First \in Datagrams /\ First.id \in Ids /\ telling.event = <<>>
    BY <1>1, <2>1
  <2>3. Said' = Said /\ telling'.event = <<>>
    BY <2>1, <2>2 DEF Pending, Said
  <2>4. Takes /\ \A o \in Ids : o # First.id => active'[o] = active[o]
    BY <1>0, <2>1, <2>2, <2>3 DEF Takes, Held
  <2> QED
    BY <2>2, <2>3, <2>4 DEF ReadsOne
<1>5. CASE HandleRefused \/ HandleLast
  <2> DEFINE t == active[First.id]
             bad == Event("Corrupted", First.id, t.n, <<>>)
             good == Event("Complete", First.id, t.n, Sanitized(Whole(t, First)))
  <2>1. PICK d \in Arrived :
          /\ Receives(d) /\ IsContent(d) /\ active[d.id] # None
          /\ Remove(d.id) /\ events' = events
          /\ \/ Tell(Answer(d.id, "Failure", active[d.id].n),
                     <<Event("Corrupted", d.id, active[d.id].n, <<>>)>>)
             \/ /\ IsLast(d) /\ ~ Refused(active[d.id], d)
                /\ Tell(Answer(d.id, "Success", active[d.id].n),
                        <<Event("Complete", d.id, active[d.id].n,
                                Sanitized(Whole(active[d.id], d)))>>)
    BY <1>5 DEF HandleRefused, HandleLast, Report, IsContent, IsLast
  <2>2. /\ d = First /\ pc = "loop" /\ fromDev # <<>> /\ fromDev' = Tail(fromDev)
        /\ First \in Datagrams /\ First.id \in Ids /\ telling.event = <<>>
    BY <1>1, <2>1
  <2>3. t \in Transfers
    BY <2>1, <2>2, ActiveTypes DEF Types
  <2>4. t.n \in 1 .. MaxSetups /\ <<>> \in Seq(Pieces) /\ Said \in Seq(Events)
    BY <2>3, SaidTypes DEF Transfers
  <2>5. Answer(First.id, "Failure", t.n) \in Answers /\ Answer(First.id, "Success", t.n) \in Answers
    BY <2>2, <2>4 DEF Answer, Answers
  <2>6. \/ Tell(Answer(First.id, "Failure", t.n), <<bad>>)
        \/ /\ IsLast(First) /\ ~ Refused(t, First)
           /\ Tell(Answer(First.id, "Success", t.n), <<good>>)
    BY <2>1, <2>2
  <2>7. Held(First.id) /\ IsContent(First) /\ active'[First.id] = None
        /\ \A o \in Ids : o # First.id => active'[o] = active[o]
    BY <1>0, <2>1, <2>2 DEF Remove, Held
  <2>8. pc' # "loop" /\ Decides
    <3>1. CASE Tell(Answer(First.id, "Failure", t.n), <<bad>>)
      <4>1. bad \in Events /\ bad.kind # "Complete" /\ bad.n = t.n /\ <<bad>> \in Seq(Events)
        BY <2>2, <2>4, EventTypes DEF Event
      <4>2. pc' # "loop" /\ ((Said' = Said /\ pc' = "down") \/ Said' = Said \o <<bad>>)
        <5> HIDE DEF bad, t
        <5> QED
          BY <2>1, <2>2, <2>5, <3>1, <4>1, TellSays
      <4>3. Said \o <<bad>> = Append(Said, bad)
        <5> HIDE DEF bad
        <5> QED
          BY <2>4, <4>1
      <4>4. (pc' = "down" /\ Said' = Said) \/ Said' = Append(Said, bad)
        BY <4>2, <4>3
      <4> HIDE DEF bad
      <4> QED
        BY <2>7, <4>1, <4>2, <4>4 DEF Decides
    <3>2. CASE /\ IsLast(First) /\ ~ Refused(t, First)
               /\ Tell(Answer(First.id, "Success", t.n), <<good>>)
      <4>1. Whole(t, First) \in Seq(Pieces)
        BY <2>2, <2>3 DEF Whole, Transfers, Datagrams
      <4>2. Sanitized(Whole(t, First)) \in Seq(Pieces)
        BY <3>2, <4>1, SanitizedTypes DEF Refused
      <4>3. good \in Events /\ good.n = t.n /\ <<good>> \in Seq(Events)
            /\ good.data = Sanitized(Whole(t, First))
        BY <2>2, <2>4, <4>2, EventTypes DEF Event
      <4>4. pc' # "loop" /\ ((Said' = Said /\ pc' = "down") \/ Said' = Said \o <<good>>)
        <5> HIDE DEF good, t
        <5> QED
          BY <2>1, <2>2, <2>5, <3>2, <4>3, TellSays
      <4>5. Said \o <<good>> = Append(Said, good)
        <5> HIDE DEF good
        <5> QED
          BY <2>4, <4>3
      <4>6. (pc' = "down" /\ Said' = Said) \/ Said' = Append(Said, good)
        BY <4>4, <4>5
      <4> HIDE DEF good
      <4> QED
        BY <2>7, <3>2, <4>3, <4>4, <4>6 DEF Decides
    <3> QED
      BY <2>6, <3>1, <3>2
  <2> QED
    BY <2>2, <2>7, <2>8 DEF ReadsOne
<1> QED
  BY <1>2, <1>3, <1>4, <1>5 DEF HandleDatagram

LEMMA CleanupStep ==
  ASSUME Types, Once, Cleanup, UNCHANGED device
  PROVE  ReadsNothing
<1> DEFINE stale == {id \in Ids : IsStale(active[id])}
<1>0. /\ active' = Without(stale) /\ UNCHANGED <<telling, fromDev, toDev>>
      /\ pc = "loop" /\ telling.event = <<>> /\ pc' # "down"
  BY DEF Cleanup, MaySend, Once
<1>1. PICK q \in Orders(stale) :
        events' = events \o [i \in DOMAIN q |-> Event("Corrupted", q[i], active[q[i]].n, <<>>)]
  BY DEF Cleanup
<1> DEFINE told == [i \in DOMAIN q |-> Event("Corrupted", q[i], active[q[i]].n, <<>>)]
<1>2. IsFiniteSet(stale)
  <2>1. stale \subseteq Ids
    OBVIOUS
  <2> QED
    BY <2>1, FileTransferAssumption, FS_Subset
<1>3. /\ Cardinality(stale) \in Nat /\ q \in [1 .. Cardinality(stale) -> stale]
      /\ \A i, j \in DOMAIN q : i # j => q[i] # q[j]
  BY <1>2, FS_CardinalityType DEF Orders
<1>4. \A id \in stale : \E i \in DOMAIN q : q[i] = id
  <2> DEFINE c == Cardinality(stale)
  <2>1. q \in Injection(1 .. c, stale)
    <3> HIDE DEF stale
    <3> QED
      BY <1>3 DEF Injection, IsInjective
  <2>2. IsFiniteSet(1 .. c) /\ Cardinality(1 .. c) = c
    BY <1>3, FS_Interval
  <2> HIDE DEF stale
  <2>3. q \in Surjection(1 .. c, stale)
    BY <1>2, <2>1, <2>2, FS_Injection
  <2> QED
    BY <2>3 DEF Surjection
<1>5. ASSUME NEW id \in Ids
      PROVE  /\ Swept(id) <=> id \in stale
             /\ id \notin stale => active'[id] = active[id]
  <2>1. active' = [o \in Ids |-> IF o \in stale THEN None ELSE active[o]]
    BY <1>0 DEF Without
  <2>2. active'[id] = IF id \in stale THEN None ELSE active[id]
    <3> HIDE DEF stale
    <3> QED
      BY <2>1
  <2>3. id \in stale => active[id] # None
    BY DEF IsStale
  <2> HIDE DEF stale
  <2> QED
    BY <2>2, <2>3 DEF Swept, Held
<1>6. /\ DOMAIN told = DOMAIN q
      /\ \A i \in DOMAIN q : /\ told[i].kind = "Corrupted" /\ told[i].id = q[i]
                             /\ told[i].n = active[q[i]].n
  BY DEF Event
<1>7. \A i \in DOMAIN q : told[i] \in Events
  <2> SUFFICES ASSUME NEW i \in DOMAIN q
               PROVE  Event("Corrupted", q[i], active[q[i]].n, <<>>) \in Events
    OBVIOUS
  <2>1. q[i] \in Ids /\ active[q[i]] # None
    BY <1>3 DEF IsStale
  <2>2. active[q[i]].n \in 1 .. MaxSetups /\ <<>> \in Seq(Pieces)
    BY <2>1, ActiveTypes DEF Types, Transfers
  <2> QED
    BY <2>1, <2>2, EventTypes
<1>8. told \in Seq(Events)
  <2>1. DOMAIN q = 1 .. Cardinality(stale)
    BY <1>3
  <2>2. told \in [1 .. Cardinality(stale) -> Events]
    BY <1>7, <2>1
  <2> HIDE DEF told, stale
  <2> QED
    BY <1>3, <2>2
<1>9. Said' = Said \o told
  <2>1. events' = events \o told
    BY <1>1
  <2> HIDE DEF told
  <2>2. Said = events /\ events \in Seq(Events)
    BY <1>0, SaidTypes
  <2>3. Said' = (events \o told) \o <<>>
    BY <1>0, <2>1 DEF Said
  <2>4. events \o told \in Seq(Events)
    BY <1>8, <2>2
  <2> QED
    BY <2>2, <2>3, <2>4
<1>10. q \in [1 .. Cardinality(stale) -> stale] /\ stale \subseteq Ids
  BY <1>3
<1> HIDE DEF told, stale
<1>11. Sweeps
  <2>1. \A i \in DOMAIN told :
          /\ told[i].kind = "Corrupted"
          /\ Swept(told[i].id) /\ told[i].n = active[told[i].id].n
    BY <1>5, <1>6, <1>10
  <2>2. \A i, j \in DOMAIN told : i # j => told[i].id # told[j].id
    BY <1>3, <1>6
  <2>3. \A id \in Ids : Swept(id) => \E i \in DOMAIN told : told[i].n = active[id].n
    BY <1>4, <1>5, <1>6
  <2> QED
    BY <1>8, <1>9, <2>1, <2>2, <2>3 DEF Sweeps
<1>12. \A id \in Ids : active'[id] = None \/ (Held(id) /\ active'[id] = active[id])
  <2> SUFFICES ASSUME NEW id \in Ids, active'[id] # None
               PROVE  Held(id) /\ active'[id] = active[id]
    OBVIOUS
  <2>1. active'[id] = active[id] \/ (id \in stale /\ Swept(id))
    BY <1>5
  <2> QED
    BY <2>1 DEF Swept, Held
<1> QED
  BY <1>0, <1>11, <1>12 DEF ReadsNothing

LEMMA LoopStep ==
  ASSUME Types, Once, TellDone \/ TellFails \/ OtherBranch \/ ConnectionEnds \/ Tick,
         UNCHANGED device
  PROVE  ReadsNothing
<1>0. /\ events \in Seq(Events) /\ telling.event \in Seq(Events) /\ Said \in Seq(Events)
      /\ NotTelling.event = <<>> /\ Said = events \o telling.event
      /\ pc = "loop" => telling.event = <<>>
  BY SaidTypes, NoneTypes DEF Said, Once
<1>1. CASE TellDone
  <2>1. events' = events \o telling.event /\ telling'.event = <<>>
        /\ UNCHANGED <<active, fromDev, toDev>> /\ pc # "down"
    BY <1>0, <1>1 DEF TellDone, Announced
  <2>2. Said' = (events \o telling.event) \o <<>>
    BY <2>1 DEF Said
  <2>3. Said' = Said
    BY <1>0, <2>2
  <2> QED
    BY <2>1, <2>3 DEF ReadsNothing, Keeps, Held
<1>2. CASE TellFails
  <2>1. events' = events /\ telling'.event = <<>> /\ pc' = "down"
        /\ UNCHANGED <<active, fromDev, toDev>>
    BY <1>0, <1>2 DEF TellFails
  <2>2. Said' = events
    BY <1>0, <2>1 DEF Said
  <2>3. /\ DOMAIN Said' \subseteq DOMAIN Said
        /\ \A i \in DOMAIN Said' : Said'[i] = Said[i]
    <3>1. /\ DOMAIN events = 1 .. Len(events) /\ Len(events) \in Nat
          /\ DOMAIN Said = 1 .. Len(events) + Len(telling.event) /\ Len(telling.event) \in Nat
          /\ \A i \in 1 .. Len(events) : Said[i] = events[i]
      BY <1>0
    <3> QED
      BY <2>2, <3>1
  <2> QED
    BY <2>1, <2>3 DEF ReadsNothing, Keeps, Held
<1>3. CASE OtherBranch \/ ConnectionEnds
  <2>1. UNCHANGED <<active, telling, events, fromDev, toDev>> /\ pc = "loop" /\ Said' = Said
    BY <1>3 DEF OtherBranch, ConnectionEnds, Said
  <2> QED
    BY <1>0, <2>1 DEF ReadsNothing, Keeps, Held
<1>4. CASE Tick
  <2>1. UNCHANGED <<pc, telling, events, fromDev, toDev>> /\ Said' = Said
    BY <1>4 DEF Tick, Said
  <2>2. /\ \A id \in Ids : (active'[id] = None <=> active[id] = None)
        /\ \A id \in Ids : active[id] # None =>
             /\ active'[id].n = active[id].n /\ active'[id].data = active[id].data
             /\ active'[id].size = active[id].size /\ active'[id].state = active[id].state
    BY <1>4, TickTypes
  <2> QED
    BY <1>0, <2>1, <2>2 DEF ReadsNothing, Keeps, Held
<1> QED
  BY <1>1, <1>2, <1>3, <1>4

-----------------------------------------------------------------------------
(* What a step of the device comes to                                      *)

Quiet == UNCHANGED <<active, pc, telling, events>>

SetsNext(id, f) ==
  /\ Quiet /\ UNCHANGED <<toDev, work, believed>>
  /\ file' = Append(file, f)
  /\ dev' = [dev EXCEPT ![id] = [state |-> "setup", n |-> Len(file) + 1, sent |-> 0]]
  /\ Sends(Datagram(id, "Setup", Len(file) + 1, f.size, <<>>))

Says(id, d) ==
  /\ Quiet /\ UNCHANGED <<file, toDev, work, believed>>
  /\ Busy(id) /\ d.id = id /\ d.n = dev[id].n /\ d.cmd # "Setup" /\ Sends(d)
  /\ \A o \in Ids : o # id => dev'[o] = dev[o]
  /\ \/ /\ d = ContentOf(id) /\ dev'[id].n = dev[id].n /\ dev'[id].sent = NextPiece(id)
        /\ dev[id].state = "sending" /\ dev'[id].state \in {"sending", "sent"}
        /\ NextPiece(id) \in 0 .. Length(d.n) /\ (NextPiece(id) = 0 <=> Length(d.n) = 0)
     \/ d.cmd = "Pause" /\ d.data = <<>> /\ dev' = dev
     \/ /\ d.cmd = "Cancel" /\ d.data = <<>> /\ MayGiveUp(id)
        /\ dev'[id].state = "idle"

Hears ==
  /\ Quiet /\ UNCHANGED <<file, fromDev>>
  /\ \A id \in Ids : dev'[id].state # "idle" =>
       Busy(id) /\ dev'[id].n = dev[id].n /\ dev'[id].sent = dev[id].sent

LEMMA QuietSays ==
  ASSUME Quiet
  PROVE  /\ Said' = Said /\ \A n : Tells(Said', n) <=> Tells(Said, n)
         /\ \A id : (Held(id)' <=> Held(id)) /\ active'[id] = active[id]
         /\ pc' = pc /\ telling' = telling
BY DEF Quiet, Said, Held

LEMMA DeviceStep ==
  ASSUME Types, Device
  PROVE  \/ \E id \in Ids : \E f \in Files : SetsNext(id, f) /\ MayGiveUp(id)
         \/ \E id \in Ids : \E d \in Datagrams : Says(id, d)
         \/ DevAnswer /\ Hears
<1>0. dev \in [Ids -> Devices] /\ work.ids \subseteq Ids
  BY Bounds DEF Types, DeviceTypes
<1>1. ASSUME NEW id \in Ids, DevSetup(id)
      PROVE  \E f \in Files : SetsNext(id, f) /\ MayGiveUp(id)
  <2>1. UNCHANGED <<active, pc, telling, events, toDev, work, believed>>
    BY <1>1 DEF DevSetup, handler
  <2>2. /\ MayGiveUp(id)
        /\ \E f \in Files :
             /\ file' = Append(file, f)
             /\ Sends(Datagram(id, "Setup", Len(file) + 1, f.size, <<>>))
        /\ dev' = [dev EXCEPT ![id] = [state |-> "setup", n |-> Len(file) + 1, sent |-> 0]]
    BY <1>1, SetupIs
  <2> QED
    BY <2>1, <2>2 DEF SetsNext, Quiet
<1>2. ASSUME NEW id \in Ids, DevContent(id)
      PROVE  \E d \in Datagrams : Says(id, d)
  <2>1. /\ UNCHANGED <<active, pc, telling, events, file, toDev, work, believed>>
        /\ dev[id].state = "sending"
    BY <1>2 DEF DevContent, handler
  <2>2. /\ ContentOf(id) \in Datagrams /\ Sends(ContentOf(id))
        /\ \A o \in Ids : o # id => dev'[o] = dev[o]
        /\ dev'[id].n = dev[id].n /\ dev'[id].sent = NextPiece(id)
        /\ dev'[id].state \in {"sending", "sent"}
        /\ NextPiece(id) \in 0 .. Length(dev[id].n)
        /\ NextPiece(id) = 0 <=> Length(dev[id].n) = 0
    BY <1>2, ContentIs
  <2>3. ContentOf(id).id = id /\ ContentOf(id).n = dev[id].n /\ ContentOf(id).cmd # "Setup"
    BY DEF ContentOf, Datagram, CommandOf
  <2> QED
    BY <2>1, <2>2, <2>3 DEF Says, Quiet, Busy
<1>3. ASSUME NEW id \in Ids, DevCancel(id) \/ DevPause(id)
      PROVE  \E d \in Datagrams : Says(id, d)
  <2>1. /\ dev[id].state # "idle"
        /\ UNCHANGED <<active, pc, telling, events, file, toDev, work, believed>>
        /\ \/ /\ dev' = [dev EXCEPT ![id] = Idle] /\ MayGiveUp(id)
              /\ Sends(Datagram(id, "Cancel", dev[id].n, 0, <<>>))
           \/ dev' = dev /\ Sends(Datagram(id, "Pause", dev[id].n, 0, <<>>))
    BY <1>3 DEF DevCancel, DevPause, handler
  <2>2. dev[id].n \in 1 .. MaxSetups
    <3>1. dev[id].n \in 1 .. Len(file)
      BY <2>1 DEF Types, DeviceFits
    <3> QED
      BY <3>1, FileIs
  <2>3. \A c \in {"Cancel", "Pause"} : Datagram(id, c, dev[id].n, 0, <<>>) \in Datagrams
    BY <2>2 DEF Datagram, Datagrams, Commands
  <2>4. CASE /\ dev' = [dev EXCEPT ![id] = Idle] /\ MayGiveUp(id)
             /\ Sends(Datagram(id, "Cancel", dev[id].n, 0, <<>>))
    <3>1. dev'[id].state = "idle" /\ \A o \in Ids : o # id => dev'[o] = dev[o]
      BY <1>0, <2>4 DEF Idle
    <3>2. Says(id, Datagram(id, "Cancel", dev[id].n, 0, <<>>))
      BY <2>1, <2>4, <3>1 DEF Says, Quiet, Busy, Datagram
    <3> QED
      BY <2>3, <3>2
  <2>5. CASE dev' = dev /\ Sends(Datagram(id, "Pause", dev[id].n, 0, <<>>))
    <3>1. Says(id, Datagram(id, "Pause", dev[id].n, 0, <<>>))
      BY <2>1, <2>5 DEF Says, Quiet, Busy, Datagram
    <3> QED
      BY <2>3, <3>1
  <2> QED
    BY <2>1, <2>4, <2>5
<1>4. CASE DevAnswer
  <2> DEFINE a == toDev[1]
             d == dev[a.id]
             g == [d EXCEPT !.state = "sending"]
  <2>1. /\ a.id \in Ids /\ UNCHANGED <<active, pc, telling, events, file, fromDev>>
        /\ \/ d.state = "setup" /\ dev' = [dev EXCEPT ![a.id] = g]
           \/ dev' = [dev EXCEPT ![a.id] = Idle]
           \/ dev' = dev
    BY <1>4, AnswerIs DEF handler
  <2>2. g.n = d.n /\ g.sent = d.sent
    <3>1. d \in Devices
      BY <1>0, <2>1
    <3> HIDE DEF d
    <3> QED
      BY <3>1 DEF Devices
  <2>3. ASSUME NEW id \in Ids, dev'[id].state # "idle"
        PROVE  Busy(id) /\ dev'[id].n = dev[id].n /\ dev'[id].sent = dev[id].sent
    <3>1. \/ dev'[id] = dev[id]
          \/ id = a.id /\ d.state = "setup" /\ dev'[id] = g
      <4> HIDE DEF g
      <4> QED
        BY <1>0, <2>1, <2>3 DEF Idle
    <3> HIDE DEF g
    <3> QED
      BY <2>2, <2>3, <3>1 DEF Busy
  <2>4. Hears
    <3> HIDE DEF a
    <3> QED
      BY <2>1, <2>3 DEF Hears, Quiet
  <2> QED
    BY <1>4, <2>4
<1> QED
  BY <1>0, <1>1, <1>2, <1>3, <1>4 DEF Device

-----------------------------------------------------------------------------
(* A transfer belongs to one id                                            *)

(* What the handler holds, and has said, after it has read a datagram. *)
LEMMA HeldAfter ==
  ASSUME Types, ReadsOne
  PROVE  /\ \A id \in Ids : Held(id)' =>
              \/ Held(id) /\ active'[id].n = active[id].n /\ (id = First.id => First.cmd # "Setup")
              \/ id = First.id /\ First.cmd = "Setup" /\ active'[id].n = First.n
         /\ \/ Said' = Said
            \/ /\ Held(First.id) /\ active'[First.id] = None /\ IsContent(First)
               /\ \E e \in Events : Said' = Append(Said, e) /\ e.n = active[First.id].n
<1> DEFINE t == active[First.id]
<1>0. First \in Datagrams /\ First.id \in Ids
  BY DEF ReadsOne
<1>1. ASSUME Takes PROVE active'[First.id].n = t.n /\ Held(First.id) /\ First.cmd # "Setup"
  <2>1. t \in Transfers /\ active'[First.id] = Grown(t, First)
    BY <1>0, <1>1, ActiveTypes DEF Types, Takes, Held
  <2>2. Held(First.id) /\ First.cmd # "Setup"
    BY <1>1 DEF Takes, IsContent
  <2> HIDE DEF t
  <2>3. Grown(t, First).n = t.n
    BY <2>1 DEF Grown, Transfers
  <2> QED
    BY <2>1, <2>2, <2>3
<1>2. ASSUME SetsUp PROVE active'[First.id].n = First.n /\ First.cmd = "Setup" /\ Said' = Said
  BY <1>2 DEF SetsUp, Fresh
<1>3. ASSUME Skips
      PROVE  active'[First.id] = active[First.id] /\ First.cmd # "Setup" /\ Said' = Said
  BY <1>3 DEF Skips
<1>4. ASSUME Drops \/ Decides PROVE active'[First.id] = None
  BY <1>4 DEF Drops, Decides
<1>5. SetsUp \/ Drops \/ Skips \/ Takes \/ Decides
  BY DEF ReadsOne
<1>6. ASSUME NEW id \in Ids, Held(id)'
      PROVE  \/ Held(id) /\ active'[id].n = active[id].n /\ (id = First.id => First.cmd # "Setup")
             \/ id = First.id /\ First.cmd = "Setup" /\ active'[id].n = First.n
  <2>1. CASE id # First.id
    BY <1>6, <2>1 DEF ReadsOne, Held
  <2>2. CASE id = First.id
    BY <1>1, <1>2, <1>3, <1>4, <1>5, <1>6, <2>2 DEF Held
  <2> QED
    BY <2>1, <2>2
<1>7. \/ Said' = Said
      \/ /\ Held(First.id) /\ active'[First.id] = None /\ IsContent(First)
         /\ \E e \in Events : Said' = Append(Said, e) /\ e.n = active[First.id].n
  <2>1. CASE Decides
    BY <2>1 DEF Decides
  <2>2. CASE SetsUp \/ Drops \/ Skips \/ Takes
    BY <2>2 DEF SetsUp, Drops, Skips, Takes
  <2> QED
    BY <1>5, <2>1, <2>2
<1> QED
  BY <1>6, <1>7

LEMMA OwnedReads ==
  ASSUME Types, ReadsOne, NEW own, Owned(own)
  PROVE  Owned(own)'
<1>0. /\ file' = file /\ dev' = dev /\ fromDev # <<>> /\ fromDev' = Tail(fromDev)
      /\ First.id \in Ids /\ Said \in Seq(Events)
  BY SaidTypes DEF ReadsOne, device
<1>1. ASSUME NEW i \in Indices'
      PROVE  fromDev'[i].n \in 1 .. Len(file) /\ own[fromDev'[i].n] = fromDev'[i].id
  BY <1>0, <1>1, TailIs DEF Owned
<1>2. First.n \in 1 .. Len(file) /\ own[First.n] = First.id
  BY <1>0, TailIs DEF Owned, First
<1>3. ASSUME NEW id \in Ids, Held(id)'
      PROVE  active'[id].n \in 1 .. Len(file) /\ own[active'[id].n] = id
  BY <1>2, <1>3, HeldAfter DEF Owned
<1>4. \A i \in DOMAIN Said' : Said'[i].n \in 1 .. Len(file)
  <2>1. CASE Said' = Said
    BY <2>1 DEF Owned
  <2>2. CASE Held(First.id) /\ \E e \in Events : Said' = Append(Said, e) /\ e.n = active[First.id].n
    <3>1. PICK e \in Events : Said' = Append(Said, e) /\ e.n = active[First.id].n
      BY <2>2
    <3>2. e.n \in 1 .. Len(file)
      BY <1>0, <2>2, <3>1 DEF Owned
    <3>3. \A i \in DOMAIN Said' : (i \in DOMAIN Said /\ Said'[i] = Said[i]) \/ Said'[i] = e
      BY <1>0, <3>1
    <3> QED
      BY <3>2, <3>3 DEF Owned
  <2> QED
    BY <2>1, <2>2, HeldAfter
<1> QED
  BY <1>0, <1>1, <1>3, <1>4 DEF Owned, Busy

LEMMA OwnedSits ==
  ASSUME Types, ReadsNothing, NEW own, Owned(own)
  PROVE  Owned(own)'
<1>0. /\ file' = file /\ dev' = dev /\ fromDev' = fromDev /\ Indices' = Indices
      /\ Said \in Seq(Events)
  BY SaidTypes DEF ReadsNothing, device, Indices
<1>1. \A id \in Ids : Held(id)' => Held(id) /\ active'[id].n = active[id].n
  BY DEF ReadsNothing, Held
<1>2. \A i \in DOMAIN Said' : Said'[i].n \in 1 .. Len(file)
  <2>1. CASE Keeps
    BY <2>1 DEF Keeps, Owned
  <2>2. CASE Sweeps
    <3>1. PICK told \in Seq(Events) :
            /\ Said' = Said \o told
            /\ \A i \in DOMAIN told : Swept(told[i].id) /\ told[i].n = active[told[i].id].n
      BY <2>2 DEF Sweeps
    <3>2. \A i \in DOMAIN told : told[i].id \in Ids
      <4>1. \A i \in DOMAIN told : told[i] \in Events
        BY <3>1
      <4> QED
        BY <4>1 DEF Events
    <3>3. \A i \in DOMAIN told : told[i].n \in 1 .. Len(file)
      BY <3>1, <3>2 DEF Owned, Swept
    <3>4. \A i \in DOMAIN Said' : \/ i \in DOMAIN Said /\ Said'[i] = Said[i]
                                  \/ i - Len(Said) \in DOMAIN told /\ Said'[i] = told[i - Len(Said)]
      BY <1>0, <3>1
    <3> QED
      BY <3>3, <3>4 DEF Owned
  <2> QED
    BY <2>1, <2>2 DEF ReadsNothing
<1> QED
  BY <1>0, <1>1, <1>2 DEF Owned, Busy

LEMMA OwnedSetup ==
  ASSUME Types, NEW id \in Ids, NEW f \in Files, SetsNext(id, f), NEW own, Owned(own)
  PROVE  \E next : /\ Owned(next)'
                   /\ \A n \in 1 .. Len(file) : next[n] = own[n]
<1> DEFINE l == Len(file) + 1
           g == [n \in 1 .. l |-> IF n = l THEN id ELSE own[n]]
           d == Datagram(id, "Setup", l, f.size, <<>>)
<1>0. /\ Len(file') = l /\ Len(file) \in Nat /\ own \in [1 .. Len(file) -> Ids]
      /\ dev \in [Ids -> Devices] /\ d.id = id /\ d.n = l
      /\ dev' = [dev EXCEPT ![id] = [state |-> "setup", n |-> l, sent |-> 0]]
      /\ Sends(d)
  BY FileGrows DEF SetsNext, Owned, Types, DeviceTypes, Datagram
<1>1. PICK next :
        /\ next \in [1 .. l -> Ids] /\ next[l] = id
        /\ \A n \in 1 .. Len(file) : next[n] = own[n] /\ n \in 1 .. l
  <2>1. /\ g \in [1 .. l -> Ids] /\ g[l] = id
        /\ \A n \in 1 .. Len(file) : g[n] = own[n] /\ n \in 1 .. l
    BY <1>0
  <2> HIDE DEF g
  <2> QED
    BY <2>1
<1>2. /\ Said' = Said /\ \A o \in Ids : Held(o)' => Held(o) /\ active'[o] = active[o]
  BY QuietSays DEF SetsNext
<1> HIDE DEF d
<1>3. /\ Indices' = 1 .. Len(fromDev) + 1 /\ Indices = 1 .. Len(fromDev)
      /\ Len(fromDev) \in Nat /\ fromDev'[Len(fromDev) + 1] = d
      /\ \A i \in Indices : fromDev'[i] = fromDev[i]
  BY <1>0, SentIs
<1>4. ASSUME NEW i \in Indices'
      PROVE  fromDev'[i].n \in 1 .. l /\ next[fromDev'[i].n] = fromDev'[i].id
  <2>1. CASE i = Len(fromDev) + 1
    BY <1>0, <1>1, <1>3, <2>1
  <2>2. CASE i # Len(fromDev) + 1
    BY <1>1, <1>3, <1>4, <2>2 DEF Owned
  <2> QED
    BY <2>1, <2>2
<1>5. \A o \in Ids : Held(o)' => active'[o].n \in 1 .. l /\ next[active'[o].n] = o
  BY <1>1, <1>2 DEF Owned
<1>6. \A o \in Ids : dev'[o].state # "idle" => next[dev'[o].n] = o
  <2> SUFFICES ASSUME NEW o \in Ids, dev'[o].state # "idle" PROVE next[dev'[o].n] = o
    OBVIOUS
  <2>1. CASE o = id
    BY <1>0, <1>1, <2>1
  <2>2. CASE o # id
    <3>1. dev'[o] = dev[o] /\ Busy(o)
      BY <1>0, <2>2 DEF Busy
    <3>2. dev[o].n \in 1 .. Len(file)
      BY <3>1 DEF Types, DeviceFits, Busy
    <3> QED
      BY <1>1, <3>1, <3>2 DEF Owned
  <2> QED
    BY <2>1, <2>2
<1>7. \A i \in DOMAIN Said' : Said'[i].n \in 1 .. l
  BY <1>1, <1>2 DEF Owned
<1>8. Owned(next)'
  BY <1>0, <1>1, <1>4, <1>5, <1>6, <1>7 DEF Owned, Busy
<1> QED
  BY <1>1, <1>8

LEMMA OwnedSays ==
  ASSUME Types, NEW id \in Ids, NEW d \in Datagrams, Says(id, d), NEW own, Owned(own)
  PROVE  Owned(own)'
<1>1. /\ Said' = Said /\ \A o \in Ids : Held(o)' => Held(o) /\ active'[o] = active[o]
  BY QuietSays DEF Says
<1>2. /\ Busy(id) /\ d.id = id /\ d.n = dev[id].n /\ file' = file /\ Sends(d)
      /\ \A o \in Ids : o # id => dev'[o] = dev[o]
      /\ dev'[id].state # "idle" => dev'[id].n = dev[id].n
  BY DEF Says
<1>3. d.n \in 1 .. Len(file) /\ own[d.n] = id
  BY <1>2 DEF Owned, Types, DeviceFits, Busy
<1>4. \A i \in Indices' : fromDev'[i].n \in 1 .. Len(file) /\ own[fromDev'[i].n] = fromDev'[i].id
  BY <1>2, <1>3, SentIs DEF Owned
<1> QED
  BY <1>1, <1>2, <1>3, <1>4 DEF Owned, Busy

LEMMA OwnedHears ==
  ASSUME Types, Hears, NEW own, Owned(own)
  PROVE  Owned(own)'
<1>1. /\ Said' = Said /\ \A o \in Ids : Held(o)' => Held(o) /\ active'[o] = active[o]
  BY QuietSays DEF Hears
<1>2. file' = file /\ fromDev' = fromDev /\ Indices' = Indices
      /\ \A o \in Ids : Busy(o)' => Busy(o) /\ dev'[o].n = dev[o].n
  BY DEF Hears, Indices, Busy
<1> QED
  BY <1>1, <1>2 DEF Owned

-----------------------------------------------------------------------------
(* Setups come first, verdicts last                                        *)

(* No two ids hold the same transfer. *)
LEMMA HeldApart ==
  ASSUME NEW own, Owned(own), NEW a \in Ids, NEW b \in Ids, Held(a), Held(b), a # b
  PROVE  active[a].n # active[b].n
BY DEF Owned

LEMMA OnceReads ==
  ASSUME Types, ReadsOne, Once, NEW own, Owned(own)
  PROVE  Once'
<1>0. /\ fromDev # <<>> /\ fromDev' = Tail(fromDev) /\ First.id \in Ids /\ Said \in Seq(Events)
      /\ 1 \in Indices /\ First = fromDev[1]
      /\ \A i \in Indices' : i + 1 \in Indices /\ fromDev'[i] = fromDev[i + 1] /\ 1 < i + 1
  BY SaidTypes, TailIs DEF ReadsOne, First
<1>1. \A i, j \in Indices' : i < j /\ fromDev'[j].cmd = "Setup" => fromDev'[i].n # fromDev'[j].n
  <2> SUFFICES ASSUME NEW i \in Indices', NEW j \in Indices', i < j, fromDev'[j].cmd = "Setup"
               PROVE  fromDev'[i].n # fromDev'[j].n
    OBVIOUS
  <2>1. i + 1 < j + 1
    BY TailIs, <1>0
  <2>2. i + 1 \in Indices /\ j + 1 \in Indices /\ fromDev[j + 1].cmd = "Setup"
        /\ fromDev'[i] = fromDev[i + 1] /\ fromDev'[j] = fromDev[j + 1]
    BY <1>0
  <2> QED
    BY <2>1, <2>2 DEF Once
<1>s. ASSUME NEW j \in Indices', fromDev'[j].cmd = "Setup"
      PROVE  /\ First.n # fromDev'[j].n /\ ~ Tells(Said, fromDev'[j].n)
             /\ \A id \in Ids : Held(id) => active[id].n # fromDev'[j].n
  <2>1. j + 1 \in Indices /\ fromDev[j + 1].cmd = "Setup" /\ fromDev'[j] = fromDev[j + 1]
        /\ 1 < j + 1
    BY <1>0, <1>s
  <2>2. First.n # fromDev[j + 1].n
    BY <1>0, <2>1 DEF Once
  <2> QED
    BY <2>1, <2>2 DEF Once, Told
<1>2. \A j \in Indices' : fromDev'[j].cmd = "Setup" =>
        \A id \in Ids : Held(id)' => active'[id].n # fromDev'[j].n
  <2> SUFFICES ASSUME NEW j \in Indices', fromDev'[j].cmd = "Setup", NEW id \in Ids, Held(id)'
               PROVE  active'[id].n # fromDev'[j].n
    OBVIOUS
  <2>1. First.n # fromDev'[j].n /\ (Held(id) => active[id].n # fromDev'[j].n)
    BY <1>s
  <2> QED
    BY <2>1, HeldAfter
<1>3. CASE Said' = Said
  <2>1. \A n : Tells(Said', n) <=> Tells(Said, n)
    BY <1>3 DEF Tells
  <2>2. \A j \in Indices' : fromDev'[j].cmd = "Setup" => ~ Tells(Said', fromDev'[j].n)
    BY <1>s, <2>1
  <2>3. \A id \in Ids : Held(id)' => ~ Tells(Said', active'[id].n)
    <3> SUFFICES ASSUME NEW id \in Ids, Held(id)' PROVE ~ Tells(Said', active'[id].n)
      OBVIOUS
    <3>1. ~ Tells(Said, active'[id].n)
      BY <1>0, HeldAfter DEF Once, Told
    <3> QED
      BY <2>1, <3>1
  <2> QED
    BY ZenonT(60), <1>1, <1>2, <1>3, <2>2, <2>3 DEF Once, Told, ReadsOne
<1>4. CASE /\ Held(First.id) /\ active'[First.id] = None
           /\ \E e \in Events : Said' = Append(Said, e) /\ e.n = active[First.id].n
  <2>1. PICK e \in Events : Said' = Append(Said, e) /\ e.n = active[First.id].n
    BY <1>4
  <2>2. /\ DOMAIN Said' = 1 .. Len(Said) + 1 /\ DOMAIN Said = 1 .. Len(Said) /\ Len(Said) \in Nat
        /\ \A i \in DOMAIN Said : Said'[i] = Said[i]
        /\ Said'[Len(Said) + 1] = e
    BY <1>0, <2>1
  <2>3. \A n : Tells(Said', n) => Tells(Said, n) \/ n = e.n
    BY <2>2 DEF Tells
  <2>4. \A j \in Indices' : fromDev'[j].cmd = "Setup" => ~ Tells(Said', fromDev'[j].n)
    BY <1>0, <1>4, <1>s, <2>1, <2>3
  <2>5. \A id \in Ids : Held(id)' => ~ Tells(Said', active'[id].n)
    <3> SUFFICES ASSUME NEW id \in Ids, Held(id)' PROVE ~ Tells(Said', active'[id].n)
      OBVIOUS
    <3>1. id # First.id
      BY <1>4 DEF Held
    <3>2. Held(id) /\ active'[id].n = active[id].n
      BY <3>1, HeldAfter
    <3>3. active[id].n # e.n /\ ~ Tells(Said, active[id].n)
      BY <1>0, <1>4, <2>1, <3>1, <3>2, HeldApart DEF Once, Told
    <3> QED
      BY <2>3, <3>2, <3>3
  <2>6. \A i \in DOMAIN Said : Said[i].n # e.n
    BY <1>0, <1>4, <2>1 DEF Once, Told, Tells
  <2>7. \A i, j \in DOMAIN Said' : i # j => Said'[i].n # Said'[j].n
    BY <2>2, <2>6 DEF Once, Told
  <2> QED
    BY <1>1, <1>2, <2>4, <2>5, <2>7 DEF Once, Told, ReadsOne
<1> QED
  BY <1>3, <1>4, HeldAfter

LEMMA OnceSits ==
  ASSUME Types, ReadsNothing, Once, NEW own, Owned(own)
  PROVE  Once'
<1>0. /\ fromDev' = fromDev /\ Indices' = Indices /\ Said \in Seq(Events)
      /\ \A id \in Ids : Held(id)' => Held(id) /\ active'[id].n = active[id].n
      /\ pc' = "loop" => telling'.event = <<>>
  BY SaidTypes DEF ReadsNothing, Indices, Held
<1>1. CASE Keeps
  <2>1. /\ \A i \in DOMAIN Said' : i \in DOMAIN Said /\ Said'[i] = Said[i]
        /\ \A n : Tells(Said', n) => Tells(Said, n)
    BY <1>1 DEF Keeps, Tells
  <2> QED
    BY <1>0, <2>1 DEF Once, Told
<1>2. CASE Sweeps
  <2>1. PICK told \in Seq(Events) :
          /\ Said' = Said \o told
          /\ \A i \in DOMAIN told : Swept(told[i].id) /\ told[i].n = active[told[i].id].n
          /\ \A i, j \in DOMAIN told : i # j => told[i].id # told[j].id
    BY <1>2 DEF Sweeps
  <2>2. \A i \in DOMAIN told : told[i].id \in Ids /\ Held(told[i].id)
    <3>1. \A i \in DOMAIN told : told[i] \in Events
      BY <2>1
    <3> QED
      BY <2>1, <3>1 DEF Events, Swept
  <2>3. \A i \in DOMAIN Said' : \/ i \in DOMAIN Said /\ Said'[i] = Said[i]
                                \/ i - Len(Said) \in DOMAIN told /\ Said'[i] = told[i - Len(Said)]
    BY <1>0, <2>1
  <2>4. \A n : Tells(Said', n) => Tells(Said, n) \/ \E i \in DOMAIN told : told[i].n = n
    BY <2>3 DEF Tells
  <2>5. \A j \in Indices : fromDev[j].cmd = "Setup" => ~ Tells(Said', fromDev[j].n)
    <3> SUFFICES ASSUME NEW j \in Indices, fromDev[j].cmd = "Setup"
                 PROVE  ~ Tells(Said', fromDev[j].n)
      OBVIOUS
    <3>1. /\ ~ Tells(Said, fromDev[j].n)
          /\ \A id \in Ids : Held(id) => active[id].n # fromDev[j].n
      BY DEF Once, Told
    <3>2. \A i \in DOMAIN told : told[i].n # fromDev[j].n
      BY <2>1, <2>2, <3>1
    <3> QED
      BY <2>4, <3>1, <3>2
  <2>6. \A id \in Ids : Held(id)' => ~ Tells(Said', active'[id].n)
    <3> SUFFICES ASSUME NEW id \in Ids, Held(id)' PROVE ~ Tells(Said', active'[id].n)
      OBVIOUS
    <3>1. Held(id) /\ active'[id].n = active[id].n /\ ~ Tells(Said, active[id].n)
      BY <1>0 DEF Once, Told
    <3>2. \A i \in DOMAIN told : told[i].n # active[id].n
      <4> SUFFICES ASSUME NEW i \in DOMAIN told PROVE told[i].n # active[id].n
        OBVIOUS
      <4>1. told[i].id # id
        BY <2>1 DEF Swept, Held
      <4> QED
        BY <2>1, <2>2, <3>1, <4>1, HeldApart
    <3> QED
      BY <2>4, <3>1, <3>2
  <2>7. \A i \in DOMAIN Said, j \in DOMAIN told : Said[i].n # told[j].n
    BY <2>1, <2>2 DEF Once, Told, Tells
  <2>8. \A i, j \in DOMAIN told : i # j => told[i].n # told[j].n
    BY <2>1, <2>2, HeldApart
  <2>9. \A i, j \in DOMAIN Said' : i # j => Said'[i].n # Said'[j].n
    <3> SUFFICES ASSUME NEW i \in DOMAIN Said', NEW j \in DOMAIN Said', i # j
                 PROVE  Said'[i].n # Said'[j].n
      OBVIOUS
    <3>1. i \in Int /\ j \in Int /\ Len(Said) \in Nat
      BY <1>0, <2>1
    <3>2. i - Len(Said) # j - Len(Said)
      BY <3>1
    <3>3. CASE i \in DOMAIN Said /\ Said'[i] = Said[i]
      BY <2>3, <2>7, <3>3 DEF Once, Told
    <3>4. CASE i - Len(Said) \in DOMAIN told /\ Said'[i] = told[i - Len(Said)]
      BY <2>3, <2>7, <2>8, <3>2, <3>4
    <3> QED
      BY <2>3, <3>3, <3>4
  <2> QED
    BY <1>0, <2>5, <2>6, <2>9 DEF Once, Told
<1> QED
  BY <1>1, <1>2 DEF ReadsNothing

LEMMA OnceSetup ==
  ASSUME Types, NEW id \in Ids, NEW f \in Files, SetsNext(id, f), Once, NEW own, Owned(own)
  PROVE  Once'
<1> DEFINE l == Len(file) + 1
           d == Datagram(id, "Setup", l, f.size, <<>>)
<1>0. /\ Said' = Said /\ (\A n : Tells(Said', n) <=> Tells(Said, n)) /\ pc' = pc /\ telling' = telling
      /\ \A o \in Ids : (Held(o)' <=> Held(o)) /\ active'[o] = active[o]
  BY QuietSays DEF SetsNext
<1>1. Sends(d) /\ d.n = l /\ Len(file) \in Nat
  BY FileGrows DEF SetsNext, Datagram
<1> HIDE DEF d
<1>2. /\ Indices' = 1 .. Len(fromDev) + 1 /\ Indices = 1 .. Len(fromDev)
      /\ Len(fromDev) \in Nat /\ fromDev'[Len(fromDev) + 1] = d
      /\ \A i \in Indices : fromDev'[i] = fromDev[i]
  BY <1>1, SentIs
<1>3. \A i \in Indices : fromDev[i].n # l
  BY <1>1 DEF Owned
<1>4. ~ Tells(Said, l) /\ \A o \in Ids : Held(o) => active[o].n # l
  BY <1>1 DEF Owned, Tells
<1>5. \A i, j \in Indices' : i < j /\ fromDev'[j].cmd = "Setup" => fromDev'[i].n # fromDev'[j].n
  BY <1>1, <1>2, <1>3 DEF Once, Told
<1>6. ASSUME NEW j \in Indices', fromDev'[j].cmd = "Setup"
      PROVE  ~ Tells(Said', fromDev'[j].n) /\ \A o \in Ids : Held(o)' => active'[o].n # fromDev'[j].n
  <2>1. CASE j = Len(fromDev) + 1
    BY <1>0, <1>1, <1>2, <1>4, <2>1
  <2>2. CASE j \in Indices
    <3>1. ~ Tells(Said, fromDev[j].n) /\ \A o \in Ids : Held(o) => active[o].n # fromDev[j].n
      BY <1>2, <1>6, <2>2 DEF Once, Told
    <3> QED
      BY <1>0, <1>2, <2>2, <3>1
  <2> QED
    BY <1>2, <2>1, <2>2
<1>7. \A o \in Ids : Held(o)' => ~ Tells(Said', active'[o].n)
  BY <1>0 DEF Once, Told
<1>8. /\ \A i, j \in DOMAIN Said' : i # j => Said'[i].n # Said'[j].n
      /\ pc' = "loop" => telling'.event = <<>>
  BY <1>0 DEF Once, Told
<1> QED
  BY <1>5, <1>6, <1>7, <1>8 DEF Once, Told

LEMMA OnceSays ==
  ASSUME Types, NEW id \in Ids, NEW d \in Datagrams, Says(id, d), Once
  PROVE  Once'
<1>0. /\ Said' = Said /\ (\A n : Tells(Said', n) <=> Tells(Said, n)) /\ pc' = pc /\ telling' = telling
      /\ \A o \in Ids : (Held(o)' <=> Held(o)) /\ active'[o] = active[o]
  BY QuietSays DEF Says
<1>1. /\ Indices' = 1 .. Len(fromDev) + 1 /\ Indices = 1 .. Len(fromDev)
      /\ Len(fromDev) \in Nat /\ fromDev'[Len(fromDev) + 1] = d
      /\ \A i \in Indices : fromDev'[i] = fromDev[i]
      /\ d.cmd # "Setup"
  BY SentIs DEF Says
<1>2. \A j \in Indices' : fromDev'[j].cmd = "Setup" => j \in Indices /\ fromDev'[j] = fromDev[j]
  BY <1>1
<1>3. \A i, j \in Indices' : i < j /\ fromDev'[j].cmd = "Setup" => fromDev'[i].n # fromDev'[j].n
  <2> SUFFICES ASSUME NEW i \in Indices', NEW j \in Indices', i < j, fromDev'[j].cmd = "Setup"
               PROVE  fromDev'[i].n # fromDev'[j].n
    OBVIOUS
  <2>1. i \in Indices /\ j \in Indices
    BY <1>1, <1>2
  <2> QED
    BY <1>1, <1>2, <2>1 DEF Once, Told
<1>4. \A j \in Indices' : fromDev'[j].cmd = "Setup" =>
        ~ Tells(Said', fromDev'[j].n) /\ \A o \in Ids : Held(o)' => active'[o].n # fromDev'[j].n
  BY <1>0, <1>2 DEF Once, Told
<1>5. /\ \A o \in Ids : Held(o)' => ~ Tells(Said', active'[o].n)
      /\ \A i, j \in DOMAIN Said' : i # j => Said'[i].n # Said'[j].n
      /\ pc' = "loop" => telling'.event = <<>>
  BY <1>0 DEF Once, Told
<1> QED
  BY <1>3, <1>4, <1>5 DEF Once, Told

LEMMA OnceHears ==
  ASSUME Types, Hears, Once
  PROVE  Once'
<1>0. /\ Said' = Said /\ (\A n : Tells(Said', n) <=> Tells(Said, n)) /\ pc' = pc /\ telling' = telling
      /\ \A o \in Ids : (Held(o)' <=> Held(o)) /\ active'[o] = active[o]
      /\ fromDev' = fromDev /\ Indices' = Indices
  BY QuietSays DEF Hears, Indices
<1> QED
  BY <1>0 DEF Once, Told

-----------------------------------------------------------------------------
(* The next transfer of an id begins with its Setup                        *)

(* What is read is of the transfer that is held, unless it sets one up. *)
LEMMA FirstIsHeld ==
  ASSUME Types, ReadsOne, HeldOrdered, Held(First.id), First.cmd # "Setup"
  PROVE  First.n = active[First.id].n
<1>0. First.id \in Ids /\ 1 \in Indices /\ First = fromDev[1] /\ Indices = 1 .. Len(fromDev)
  BY TailIs DEF ReadsOne, First
<1> SUFFICES ASSUME First.n # active[First.id].n PROVE FALSE
  OBVIOUS
<1>1. PICK k \in Indices : k <= 1 /\ IsSetupOf(k, First.n)
  BY <1>0 DEF HeldOrdered
<1>2. k = 1
  BY <1>0, <1>1
<1> QED
  BY <1>0, <1>1, <1>2 DEF IsSetupOf

LEMMA OrderedReads ==
  ASSUME Types, ReadsOne, Once, Ordered, NEW own, Owned(own)
  PROVE  Ordered'
<1>0. /\ fromDev # <<>> /\ fromDev' = Tail(fromDev) /\ First.id \in Ids /\ Said \in Seq(Events)
      /\ 1 \in Indices /\ First = fromDev[1] /\ pc = "loop" /\ dev' = dev
      /\ First \in Datagrams
      /\ Indices = 1 .. Len(fromDev) /\ Indices' = 1 .. Len(fromDev) - 1 /\ Len(fromDev) \in Nat
      /\ \A i \in Indices' : i + 1 \in Indices /\ fromDev'[i] = fromDev[i + 1] /\ 1 < i + 1
  BY SaidTypes, TailIs DEF ReadsOne, First, device
<1>1. StreamOrdered'
  <2> SUFFICES ASSUME NEW i \in Indices', NEW j \in Indices',
                      i < j, fromDev'[i].id = fromDev'[j].id, fromDev'[i].n # fromDev'[j].n
               PROVE  \E k \in Indices' : /\ i < k /\ k <= j
                                          /\ fromDev'[k].cmd = "Setup" /\ fromDev'[k].n = fromDev'[j].n
    BY DEF StreamOrdered, IsSetupOf
  <2>1. /\ i + 1 \in Indices /\ j + 1 \in Indices /\ i + 1 < j + 1
        /\ fromDev'[i] = fromDev[i + 1] /\ fromDev'[j] = fromDev[j + 1]
    BY <1>0
  <2>2. PICK k \in Indices : i + 1 < k /\ k <= j + 1 /\ IsSetupOf(k, fromDev[j + 1].n)
    BY <2>1 DEF Ordered, StreamOrdered
  <2>3. k # 1 /\ i < k - 1 /\ k - 1 <= j
    BY <1>0, <2>2
  <2>4. k - 1 \in Indices' /\ fromDev'[k - 1] = fromDev[k]
    BY <1>0, <2>3, TailIs
  <2> QED
    BY <2>1, <2>2, <2>3, <2>4 DEF IsSetupOf
<1>2. HeldOrdered'
  <2> SUFFICES ASSUME NEW id \in Ids, Held(id)', NEW j \in Indices',
                      fromDev'[j].id = id, fromDev'[j].n # active'[id].n
               PROVE  \E k \in Indices' : /\ k <= j
                                          /\ fromDev'[k].cmd = "Setup" /\ fromDev'[k].n = fromDev'[j].n
    BY DEF HeldOrdered, IsSetupOf
  <2>1. j + 1 \in Indices /\ fromDev'[j] = fromDev[j + 1] /\ 1 < j + 1
    BY <1>0
  <2>2. \E k \in Indices : k # 1 /\ k <= j + 1 /\ IsSetupOf(k, fromDev[j + 1].n)
    <3>1. CASE Held(id) /\ active'[id].n = active[id].n /\ (id = First.id => First.cmd # "Setup")
      <4>1. PICK k \in Indices : k <= j + 1 /\ IsSetupOf(k, fromDev[j + 1].n)
        BY <2>1, <3>1 DEF Ordered, HeldOrdered
      <4>2. k # 1
        <5> SUFFICES ASSUME k = 1 PROVE FALSE
          OBVIOUS
        <5>1. First.cmd = "Setup" /\ First.n = fromDev[j + 1].n
          BY <1>0, <4>1 DEF IsSetupOf
        <5>2. First.id = id
          BY <1>0, <2>1, <5>1 DEF Owned
        <5> QED
          BY <3>1, <5>1, <5>2
      <4> QED
        BY <4>1, <4>2
    <3>2. CASE id = First.id /\ First.cmd = "Setup" /\ active'[id].n = First.n
      <4>1. PICK k \in Indices : 1 < k /\ k <= j + 1 /\ IsSetupOf(k, fromDev[j + 1].n)
        BY <1>0, <2>1, <3>2 DEF Ordered, StreamOrdered
      <4>2. k # 1
        BY <1>0, <4>1
      <4> QED
        BY <4>1, <4>2
    <3> QED
      BY <3>1, <3>2, HeldAfter
  <2>3. PICK k \in Indices : k # 1 /\ k <= j + 1 /\ IsSetupOf(k, fromDev[j + 1].n)
    BY <2>2
  <2>4. k - 1 \in Indices' /\ fromDev'[k - 1] = fromDev[k] /\ k - 1 <= j
    BY <1>0, <2>3, TailIs
  <2> QED
    BY <2>1, <2>3, <2>4 DEF IsSetupOf
<1>3. DeviceOrdered'
  <2> SUFFICES ASSUME NEW id \in Ids, Busy(id), NEW i \in Indices', fromDev'[i].id = id,
                      fromDev'[i].n # dev[id].n \/ fromDev'[i].cmd = "Cancel"
               PROVE  \E k \in Indices' : /\ i < k
                                          /\ fromDev'[k].cmd = "Setup" /\ fromDev'[k].n = dev[id].n
    BY <1>0 DEF DeviceOrdered, IsSetupOf, Busy
  <2>1. i + 1 \in Indices /\ fromDev'[i] = fromDev[i + 1]
    BY <1>0
  <2>2. PICK k \in Indices : i + 1 < k /\ IsSetupOf(k, dev[id].n)
    BY <2>1 DEF Ordered, DeviceOrdered
  <2>3. k # 1 /\ i < k - 1
    BY <1>0, <2>2
  <2>4. k - 1 \in Indices' /\ fromDev'[k - 1] = fromDev[k]
    BY <1>0, <2>3, TailIs
  <2> QED
    BY <2>2, <2>3, <2>4 DEF IsSetupOf
<1>4. Followed'
  <2> SUFFICES ASSUME NEW id \in Ids, Busy(id)
               PROVE  \/ \E k \in Indices' : fromDev'[k].cmd = "Setup" /\ fromDev'[k].n = dev[id].n
                      \/ Held(id)' /\ active'[id].n = dev[id].n
                      \/ ~ Held(id)' /\ (Tells(Said', dev[id].n) \/ pc' = "down")
    BY <1>0 DEF Followed, AwaitsSetup, IsSetupOf, Busy, Told
  <2> DEFINE n == dev[id].n
             Awaited == \E k \in Indices' : fromDev'[k].cmd = "Setup" /\ fromDev'[k].n = n
  <2>1. ASSUME NEW k \in Indices, k # 1, IsSetupOf(k, n) PROVE Awaited
    <3>1. k - 1 \in Indices' /\ fromDev'[k - 1] = fromDev[k]
      BY <1>0, <2>1, TailIs
    <3> QED
      BY <2>1, <3>1 DEF IsSetupOf
  <2>2. ASSUME First.id = id, First.n # n \/ First.cmd = "Cancel" PROVE Awaited
    <3>1. PICK k \in Indices : 1 < k /\ IsSetupOf(k, n)
      BY <1>0, <2>2 DEF Ordered, DeviceOrdered
    <3>2. k # 1
      BY <1>0, <3>1
    <3> QED
      BY <2>1, <3>1, <3>2
  <2>3. ASSUME First.cmd = "Setup"
        PROVE  /\ active'[First.id].n = First.n /\ active'[First.id] # None
               /\ ~ Tells(Said, First.n)
               /\ \A o \in Ids : Held(o) => active[o].n # First.n
    <3>1. SetsUp
      BY <2>3 DEF ReadsOne, SetsUp, Drops, Skips, Takes, Decides, IsContent
    <3>2. active'[First.id].n = First.n /\ First.n # 0
      BY <1>0, <3>1 DEF SetsUp, Fresh, Datagrams
    <3>3. /\ ~ Tells(Said, First.n)
          /\ \A o \in Ids : Held(o) => active[o].n # First.n
      BY <1>0, <2>3 DEF Once, Told
    <3>4. None.n = 0
      BY DEF None
    <3> QED
      BY <3>2, <3>3, <3>4
  <2>4. \A m : Tells(Said, m) => Tells(Said', m)
    <3>1. CASE Said' = Said
      BY <3>1
    <3>2. CASE \E e \in Events : Said' = Append(Said, e)
      <4>1. \A i \in DOMAIN Said : i \in DOMAIN Said' /\ Said'[i] = Said[i]
        BY <1>0, <3>2
      <4> QED
        BY <4>1 DEF Tells
    <3> QED
      BY <3>1, <3>2, HeldAfter
  <2> HIDE DEF Awaited, n
  <2>5. CASE AwaitsSetup(n)
    <3>1. PICK k \in Indices : IsSetupOf(k, n)
      BY <2>5 DEF AwaitsSetup
    <3>2. CASE k # 1
      BY <2>1, <3>1, <3>2 DEF Awaited, n
    <3>3. CASE k = 1
      <4>1. First.cmd = "Setup" /\ First.n = n
        BY <1>0, <3>1, <3>3 DEF IsSetupOf
      <4>2. First.id = id
        BY <1>0, <4>1 DEF Owned, n
      <4> QED
        BY <2>3, <4>1, <4>2 DEF Held, n
    <3> QED
      BY <3>2, <3>3
  <2>6. CASE Held(id) /\ active[id].n = n
    <3>1. CASE id # First.id
      BY <2>6, <3>1 DEF ReadsOne, Held, n
    <3>2. CASE id = First.id /\ First.cmd \in {"Setup", "Cancel"}
      <4>1. First.n # n \/ First.cmd = "Cancel"
        BY <1>0, <2>3, <2>6, <3>2
      <4> QED
        BY <2>2, <3>2, <4>1 DEF Awaited, n
    <3>3. CASE id = First.id /\ First.cmd \notin {"Setup", "Cancel"}
      <4>1. Skips \/ Takes \/ Decides
        BY <3>3 DEF ReadsOne, SetsUp, Drops
      <4>2. CASE Skips
        BY <2>6, <3>3, <4>2 DEF Skips, Held, n
      <4>3. CASE Takes
        <5> DEFINE t == active[id]
        <5>1. t \in Transfers /\ active'[id] = Grown(t, First) /\ t.n = n
          BY <1>0, <2>6, <3>3, <4>3, ActiveTypes DEF Takes, Held, Types
        <5> HIDE DEF t
        <5>2. Grown(t, First).n = t.n /\ t.n # 0
          BY <5>1 DEF Grown, Transfers
        <5> QED
          BY <5>1, <5>2 DEF Held, None, n
      <4>4. CASE Decides
        <5>1. active'[id] = None
          BY <3>3, <4>4 DEF Decides
        <5>2. CASE pc' = "down"
          BY <5>1, <5>2 DEF Held
        <5>3. CASE \E e \in Events : Said' = Append(Said, e) /\ e.n = active[id].n
          <6>1. PICK e \in Events : Said' = Append(Said, e) /\ e.n = n
            BY <2>6, <5>3
          <6>2. Len(Said) + 1 \in DOMAIN Said' /\ Said'[Len(Said) + 1] = e
            BY <1>0, <6>1
          <6>3. Tells(Said', n)
            BY <6>1, <6>2 DEF Tells
          <6> QED
            BY <5>1, <6>3 DEF Held, n
        <5> QED
          BY <3>3, <4>4, <5>2, <5>3 DEF Decides
      <4> QED
        BY <4>1, <4>2, <4>3, <4>4
    <3> QED
      BY <3>1, <3>2, <3>3
  <2>7. CASE ~ Held(id) /\ (Tells(Said, n) \/ pc = "down")
    <3>1. Tells(Said, n)
      BY <1>0, <2>7
    <3>2. CASE id = First.id /\ First.cmd = "Setup"
      <4>1. First.n # n
        BY <2>3, <3>1, <3>2
      <4> QED
        BY <2>2, <3>2, <4>1 DEF Awaited, n
    <3>3. CASE ~ (id = First.id /\ First.cmd = "Setup")
      <4>1. ~ Held(id)'
        BY <2>7, <3>3, HeldAfter
      <4> QED
        BY <2>4, <3>1, <4>1 DEF n
    <3> QED
      BY <3>2, <3>3
  <2> QED
    BY <2>5, <2>6, <2>7 DEF Ordered, Followed, Told, n
<1> QED
  BY <1>1, <1>2, <1>3, <1>4 DEF Ordered

LEMMA OrderedSits ==
  ASSUME Types, ReadsNothing, Ordered
  PROVE  Ordered'
<1>0. /\ fromDev' = fromDev /\ Indices' = Indices /\ dev' = dev /\ Said \in Seq(Events)
      /\ \A id \in Ids : Held(id)' => Held(id) /\ active'[id].n = active[id].n
      /\ pc = "down" => pc' = "down"
  BY SaidTypes DEF ReadsNothing, Indices, Held, device
<1>1. StreamOrdered' /\ DeviceOrdered'
  BY <1>0 DEF Ordered, StreamOrdered, DeviceOrdered, IsSetupOf, Busy
<1>2. HeldOrdered'
  BY <1>0 DEF Ordered, HeldOrdered, IsSetupOf
<1>3. Followed'
  <2> SUFFICES ASSUME NEW id \in Ids, Busy(id)
               PROVE  \/ \E k \in Indices : fromDev[k].cmd = "Setup" /\ fromDev[k].n = dev[id].n
                      \/ Held(id)' /\ active'[id].n = dev[id].n
                      \/ ~ Held(id)' /\ (Tells(Said', dev[id].n) \/ pc' = "down")
    BY <1>0 DEF Followed, AwaitsSetup, IsSetupOf, Busy, Told
  <2>1. \/ \E k \in Indices : fromDev[k].cmd = "Setup" /\ fromDev[k].n = dev[id].n
        \/ Held(id) /\ active[id].n = dev[id].n
        \/ ~ Held(id) /\ (Tells(Said, dev[id].n) \/ pc = "down")
    BY DEF Ordered, Followed, AwaitsSetup, IsSetupOf, Told
  <2>2. CASE Keeps
    <3>1. (\A m : Tells(Said, m) => Tells(Said', m)) \/ pc' = "down"
      BY <2>2 DEF Keeps, Tells
    <3>2. Held(id)' <=> Held(id)
      BY <1>0, <2>2 DEF Keeps, Held
    <3> QED
      BY <1>0, <2>1, <3>1, <3>2
  <2>3. CASE Sweeps
    <3>1. PICK told \in Seq(Events) :
            /\ Said' = Said \o told
            /\ \A o \in Ids : Swept(o) => \E i \in DOMAIN told : told[i].n = active[o].n
      BY <2>3 DEF Sweeps
    <3>2. /\ \A i \in DOMAIN Said : i \in DOMAIN Said' /\ Said'[i] = Said[i]
          /\ \A i \in DOMAIN told : Len(Said) + i \in DOMAIN Said' /\ Said'[Len(Said) + i] = told[i]
      BY <1>0, <3>1
    <3>3. \A m : Tells(Said, m) => Tells(Said', m)
      BY <3>2 DEF Tells
    <3>4. Swept(id) => Tells(Said', active[id].n)
      BY <3>1, <3>2 DEF Tells
    <3>5. Held(id) => Held(id)' \/ Swept(id)
      BY DEF Swept, Held
    <3> QED
      BY <1>0, <2>1, <3>3, <3>4, <3>5
  <2> QED
    BY <2>2, <2>3 DEF ReadsNothing
<1> QED
  BY <1>1, <1>2, <1>3 DEF Ordered

LEMMA OrderedSetup ==
  ASSUME Types, NEW id \in Ids, NEW f \in Files, SetsNext(id, f), Ordered
  PROVE  Ordered'
<1> DEFINE l == Len(fromDev) + 1
           n == Len(file) + 1
           d == Datagram(id, "Setup", n, f.size, <<>>)
           e == [state |-> "setup", n |-> n, sent |-> 0]
<1>0. /\ Said' = Said /\ pc' = pc
      /\ \A o \in Ids : (Held(o)' <=> Held(o)) /\ active'[o] = active[o]
  BY QuietSays DEF SetsNext
<1>1. /\ Sends(d) /\ d.n = n /\ d.cmd = "Setup" /\ d.id = id
      /\ dev' = [dev EXCEPT ![id] = e] /\ e.n = n /\ dev \in [Ids -> Devices]
  BY DEF SetsNext, Datagram, Types, DeviceTypes
<1> HIDE DEF d, e, n
<1>2. /\ Indices' = 1 .. l /\ Indices = 1 .. Len(fromDev)
      /\ Len(fromDev) \in Nat /\ fromDev'[l] = d
      /\ \A i \in Indices : fromDev'[i] = fromDev[i]
  BY <1>1, SentIs
<1>3. /\ dev'[id].n = n /\ \A o \in Ids : o # id => dev'[o] = dev[o]
  BY <1>1
<1>4. /\ l \in Indices' /\ \A i \in Indices' : (i \in Indices /\ i < l) \/ i = l
      /\ \A i \in Indices : i \in Indices'
      /\ \A i \in Indices' : i <= l
  BY <1>2
<1> HIDE DEF l
<1>5. StreamOrdered'
  <2> SUFFICES ASSUME NEW i \in Indices', NEW j \in Indices',
                      i < j, fromDev'[i].id = fromDev'[j].id, fromDev'[i].n # fromDev'[j].n
               PROVE  \E k \in Indices' : /\ i < k /\ k <= j
                                          /\ fromDev'[k].cmd = "Setup" /\ fromDev'[k].n = fromDev'[j].n
    BY DEF StreamOrdered, IsSetupOf
  <2>1. CASE j = l
    BY <1>1, <1>2, <1>4, <2>1
  <2>2. CASE j # l
    <3>1. i \in Indices /\ j \in Indices
      BY <1>2, <2>2 DEF l
    <3>2. PICK k \in Indices : i < k /\ k <= j /\ IsSetupOf(k, fromDev[j].n)
      BY <1>2, <3>1 DEF Ordered, StreamOrdered
    <3> QED
      BY <1>2, <1>4, <3>1, <3>2 DEF IsSetupOf
  <2> QED
    BY <2>1, <2>2
<1>6. HeldOrdered'
  <2> SUFFICES ASSUME NEW o \in Ids, Held(o), NEW j \in Indices',
                      fromDev'[j].id = o, fromDev'[j].n # active[o].n
               PROVE  \E k \in Indices' : /\ k <= j
                                          /\ fromDev'[k].cmd = "Setup" /\ fromDev'[k].n = fromDev'[j].n
    BY <1>0 DEF HeldOrdered, IsSetupOf
  <2>1. CASE j = l
    BY <1>1, <1>2, <1>4, <2>1
  <2>2. CASE j # l
    <3>1. j \in Indices
      BY <1>4, <2>2
    <3>2. PICK k \in Indices : k <= j /\ IsSetupOf(k, fromDev[j].n)
      BY <1>2, <3>1 DEF Ordered, HeldOrdered
    <3> QED
      BY <1>2, <1>4, <3>1, <3>2 DEF IsSetupOf
  <2> QED
    BY <2>1, <2>2
<1>7. DeviceOrdered'
  <2> SUFFICES ASSUME NEW o \in Ids, dev'[o].state # "idle", NEW i \in Indices',
                      fromDev'[i].id = o,
                      fromDev'[i].n # dev'[o].n \/ fromDev'[i].cmd = "Cancel"
               PROVE  \E k \in Indices' : /\ i < k
                                          /\ fromDev'[k].cmd = "Setup" /\ fromDev'[k].n = dev'[o].n
    BY DEF DeviceOrdered, IsSetupOf, Busy
  <2>1. CASE o = id
    <3>1. i # l
      BY <1>1, <1>2, <1>3, <2>1
    <3> QED
      BY <1>1, <1>2, <1>3, <1>4, <2>1, <3>1
  <2>2. CASE o # id
    <3>1. i \in Indices /\ Busy(o) /\ dev'[o] = dev[o]
      BY <1>1, <1>2, <1>3, <1>4, <2>2 DEF Busy
    <3>2. PICK k \in Indices : i < k /\ IsSetupOf(k, dev[o].n)
      BY <1>2, <3>1 DEF Ordered, DeviceOrdered
    <3> QED
      BY <1>2, <1>4, <3>1, <3>2 DEF IsSetupOf
  <2> QED
    BY <2>1, <2>2
<1>8. Followed'
  <2> SUFFICES ASSUME NEW o \in Ids, dev'[o].state # "idle"
               PROVE  \/ \E k \in Indices' : fromDev'[k].cmd = "Setup" /\ fromDev'[k].n = dev'[o].n
                      \/ Held(o) /\ active[o].n = dev'[o].n
                      \/ ~ Held(o) /\ (Tells(Said, dev'[o].n) \/ pc = "down")
    BY <1>0 DEF Followed, AwaitsSetup, IsSetupOf, Busy, Told
  <2>1. CASE o = id
    BY <1>1, <1>2, <1>3, <1>4, <2>1
  <2>2. CASE o # id
    <3>1. Busy(o) /\ dev'[o] = dev[o]
      BY <1>3, <2>2 DEF Busy
    <3> QED
      BY <1>2, <1>4, <3>1 DEF Ordered, Followed, AwaitsSetup, IsSetupOf, Told
  <2> QED
    BY <2>1, <2>2
<1> QED
  BY <1>5, <1>6, <1>7, <1>8 DEF Ordered

LEMMA OrderedSays ==
  ASSUME Types, NEW id \in Ids, NEW d \in Datagrams, Says(id, d), Ordered
  PROVE  Ordered'
<1> DEFINE l == Len(fromDev) + 1
<1>0. /\ Said' = Said /\ pc' = pc
      /\ \A o \in Ids : (Held(o)' <=> Held(o)) /\ active'[o] = active[o]
  BY QuietSays DEF Says
<1>1. /\ Sends(d) /\ d.n = dev[id].n /\ d.id = id /\ Busy(id)
      /\ dev'[id].state # "idle" => dev'[id].n = dev[id].n /\ d.cmd # "Cancel"
      /\ \A o \in Ids : o # id => dev'[o] = dev[o]
  BY DEF Says, ContentOf, Datagram, CommandOf
<1>2. /\ Indices' = 1 .. l /\ Indices = 1 .. Len(fromDev)
      /\ Len(fromDev) \in Nat /\ fromDev'[l] = d
      /\ \A i \in Indices : fromDev'[i] = fromDev[i]
  BY <1>1, SentIs
<1>3. \A o \in Ids : dev'[o].state # "idle" => Busy(o) /\ dev'[o].n = dev[o].n
  BY <1>1 DEF Busy
<1>4. /\ l \in Indices' /\ \A i \in Indices' : (i \in Indices /\ i < l) \/ i = l
      /\ \A i \in Indices : i \in Indices' /\ i < l
      /\ \A i \in Indices' : i <= l
  BY <1>2
<1>5. StreamOrdered'
  <2> SUFFICES ASSUME NEW i \in Indices', NEW j \in Indices',
                      i < j, fromDev'[i].id = fromDev'[j].id, fromDev'[i].n # fromDev'[j].n
               PROVE  \E k \in Indices' : /\ i < k /\ k <= j
                                          /\ fromDev'[k].cmd = "Setup" /\ fromDev'[k].n = fromDev'[j].n
    BY DEF StreamOrdered, IsSetupOf
  <2>1. i \in Indices
    BY <1>2
  <2>2. CASE j = l
    <3>1. PICK k \in Indices : i < k /\ IsSetupOf(k, dev[id].n)
      BY <1>1, <1>2, <2>1, <2>2 DEF Ordered, DeviceOrdered
    <3>2. k \in Indices' /\ k <= j /\ fromDev'[k] = fromDev[k]
      BY <1>2, <2>2
    <3> QED
      BY <1>1, <1>2, <2>2, <3>1, <3>2 DEF IsSetupOf
  <2>3. CASE j # l
    <3>1. j \in Indices
      BY <1>4, <2>3
    <3>2. PICK k \in Indices : i < k /\ k <= j /\ IsSetupOf(k, fromDev[j].n)
      BY <1>2, <2>1, <3>1 DEF Ordered, StreamOrdered
    <3> HIDE DEF l
    <3> QED
      BY <1>2, <1>4, <3>1, <3>2 DEF IsSetupOf
  <2> QED
    BY <2>2, <2>3
<1>6. HeldOrdered'
  <2> SUFFICES ASSUME NEW o \in Ids, Held(o), NEW j \in Indices',
                      fromDev'[j].id = o, fromDev'[j].n # active[o].n
               PROVE  \E k \in Indices' : /\ k <= j
                                          /\ fromDev'[k].cmd = "Setup" /\ fromDev'[k].n = fromDev'[j].n
    BY <1>0 DEF HeldOrdered, IsSetupOf
  <2>1. CASE j = l
    <3>1. o = id /\ fromDev'[j].n = dev[id].n
      BY <1>1, <1>2, <2>1
    <3>2. PICK k \in Indices : IsSetupOf(k, dev[id].n)
      BY <1>1, <3>1 DEF Ordered, Followed, AwaitsSetup
    <3>3. k \in Indices' /\ k <= j /\ fromDev'[k] = fromDev[k]
      BY <1>2, <2>1
    <3> QED
      BY <3>1, <3>2, <3>3 DEF IsSetupOf
  <2>2. CASE j # l
    <3>1. j \in Indices
      BY <1>4, <2>2
    <3>2. PICK k \in Indices : k <= j /\ IsSetupOf(k, fromDev[j].n)
      BY <1>2, <3>1 DEF Ordered, HeldOrdered
    <3> HIDE DEF l
    <3> QED
      BY <1>2, <1>4, <3>1, <3>2 DEF IsSetupOf
  <2> QED
    BY <2>1, <2>2
<1> HIDE DEF l
<1>7. DeviceOrdered'
  <2> SUFFICES ASSUME NEW o \in Ids, dev'[o].state # "idle", NEW i \in Indices',
                      fromDev'[i].id = o,
                      fromDev'[i].n # dev'[o].n \/ fromDev'[i].cmd = "Cancel"
               PROVE  \E k \in Indices' : /\ i < k
                                          /\ fromDev'[k].cmd = "Setup" /\ fromDev'[k].n = dev'[o].n
    BY DEF DeviceOrdered, IsSetupOf, Busy
  <2>1. Busy(o) /\ dev'[o].n = dev[o].n
    BY <1>3
  <2>2. i \in Indices
    <3>1. i # l
      BY <1>1, <1>2, <2>1
    <3> QED
      BY <1>4, <3>1
  <2>3. PICK k \in Indices : i < k /\ IsSetupOf(k, dev[o].n)
    BY <1>2, <2>1, <2>2 DEF Ordered, DeviceOrdered
  <2> QED
    BY <1>2, <1>4, <2>1, <2>3 DEF IsSetupOf
<1>8. Followed'
  <2> SUFFICES ASSUME NEW o \in Ids, dev'[o].state # "idle"
               PROVE  \/ \E k \in Indices' : fromDev'[k].cmd = "Setup" /\ fromDev'[k].n = dev'[o].n
                      \/ Held(o) /\ active[o].n = dev'[o].n
                      \/ ~ Held(o) /\ (Tells(Said, dev'[o].n) \/ pc = "down")
    BY <1>0 DEF Followed, AwaitsSetup, IsSetupOf, Busy, Told
  <2>1. Busy(o) /\ dev'[o].n = dev[o].n
    BY <1>3
  <2> QED
    BY <1>2, <1>4, <2>1 DEF Ordered, Followed, AwaitsSetup, IsSetupOf, Told
<1> QED
  BY <1>5, <1>6, <1>7, <1>8 DEF Ordered

LEMMA OrderedHears ==
  ASSUME Types, Hears, Ordered
  PROVE  Ordered'
<1>0. /\ Said' = Said /\ pc' = pc /\ fromDev' = fromDev /\ Indices' = Indices
      /\ \A o \in Ids : (Held(o)' <=> Held(o)) /\ active'[o] = active[o]
      /\ \A o \in Ids : Busy(o)' => Busy(o) /\ dev'[o].n = dev[o].n
  BY QuietSays DEF Hears, Indices, Busy
<1>1. StreamOrdered' /\ HeldOrdered'
  BY <1>0 DEF Ordered, StreamOrdered, HeldOrdered, IsSetupOf
<1>2. DeviceOrdered'
  BY <1>0 DEF Ordered, DeviceOrdered, IsSetupOf
<1>3. Followed'
  BY <1>0 DEF Ordered, Followed, AwaitsSetup, IsSetupOf, Told
<1> QED
  BY <1>1, <1>2, <1>3 DEF Ordered

-----------------------------------------------------------------------------
(* The pieces on their way carry on from those that were read              *)

LEMMA PrefixGrows ==
  ASSUME Types, NEW n \in 1 .. Len(file), NEW k \in 0 .. Length(n)
  PROVE  /\ Prefix(n, k) \in Seq(Pieces) /\ Len(Prefix(n, k)) = k /\ Prefix(n, 0) = <<>>
         /\ k < Length(n) => Prefix(n, k) \o <<Piece(n, k + 1)>> = Prefix(n, k + 1)
<1>1. Length(n) \in Nat /\ \A i \in 1 .. Length(n) : Piece(n, i) \in Pieces
  BY FileIs
<1>2. ASSUME NEW j \in 0 .. Length(n)
      PROVE  /\ Prefix(n, j) \in Seq(Pieces) /\ Len(Prefix(n, j)) = j
             /\ \A i \in 1 .. j : Prefix(n, j)[i] = Piece(n, i)
  <2>1. Prefix(n, j) = [i \in 1 .. j |-> Piece(n, i)] /\ j \in Nat
    BY <1>1 DEF Prefix
  <2>2. \A i \in 1 .. j : Piece(n, i) \in Pieces
    BY <1>1
  <2> QED
    BY <2>1, <2>2
<1>3. Prefix(n, 0) = <<>>
  <2>1. Prefix(n, 0) \in Seq(Pieces) /\ Len(Prefix(n, 0)) = 0
    BY <1>1, <1>2
  <2> QED
    BY <2>1
<1>4. ASSUME k < Length(n)
      PROVE  Prefix(n, k) \o <<Piece(n, k + 1)>> = Prefix(n, k + 1)
  <2> DEFINE p == Prefix(n, k)
             r == Prefix(n, k + 1)
             x == Piece(n, k + 1)
  <2>1. /\ p \in Seq(Pieces) /\ Len(p) = k /\ k \in Nat
        /\ \A i \in 1 .. k : p[i] = Piece(n, i)
    BY <1>1, <1>2
  <2>2. /\ r \in Seq(Pieces) /\ Len(r) = k + 1
        /\ \A i \in 1 .. k + 1 : r[i] = Piece(n, i)
    BY <1>1, <1>2, <1>4
  <2>3. x \in Pieces
    BY <1>1, <1>4
  <2>4. \A i \in 1 .. k : r[i] = p[i]
    BY <2>1, <2>2
  <2>5. r[k + 1] = x
    BY <2>1, <2>2
  <2> HIDE DEF p, r, x
  <2>6. p \o <<x>> \in Seq(Pieces) /\ Len(p \o <<x>>) = k + 1
        /\ \A i \in 1 .. k : (p \o <<x>>)[i] = p[i]
    BY <2>1, <2>3
  <2>7. (p \o <<x>>)[k + 1] = x
    BY <2>1, <2>3
  <2>8. \A i \in 1 .. k + 1 : (p \o <<x>>)[i] = r[i]
    BY <2>1, <2>4, <2>5, <2>6, <2>7
  <2>9. p \o <<x>> = r
    BY <2>2, <2>6, <2>8
  <2> QED
    BY <2>9 DEF p, r, x
<1> QED
  BY <1>1, <1>2, <1>3, <1>4

(* The pieces of the datagram that is read. *)
Carries(n) == IF First.n = n /\ First.data # <<>> THEN 1 ELSE 0

LEMMA FirstFits ==
  ASSUME Types, ReadsOne, NEW got, Counted(got), NEW own, Owned(own)
  PROVE  /\ First.n \in 1 .. Len(file) /\ got[First.n] \in Nat
         /\ Fits(First, file[First.n], got[First.n] + 1)
<1>0. 1 \in Indices /\ First = fromDev[1] /\ fromDev \in Seq(Datagrams)
  BY TailIs DEF ReadsOne, First, Types, StreamTypes
<1>1. First.n \in 1 .. Len(file) /\ got[First.n] \in Nat
  BY <1>0 DEF Owned, Counted
<1>2. Carried(fromDev, First.n, 1) = 0
  <2>1. Carriers(fromDev, First.n, 1) = {}
    BY <1>0 DEF Carriers
  <2> QED
    BY <2>1, FS_EmptySet DEF Carried
<1>3. Fits(First, file[First.n], got[First.n] + Carried(fromDev, First.n, 1) + 1)
  BY <1>0 DEF Counted
<1>4. got[First.n] + Carried(fromDev, First.n, 1) + 1 = got[First.n] + 1
  BY <1>1, <1>2
<1> QED
  BY <1>1, <1>3, <1>4

(* What the handler has with the contents it reads. *)
LEMMA WholeIs ==
  ASSUME Types, ReadsOne, HeldOrdered, NEW got, Counted(got), NEW own, Owned(own),
         Held(First.id), IsContent(First)
  PROVE  LET t == active[First.id]
             k == got[t.n] + Carries(t.n)
         IN  /\ t.n = First.n /\ t.n \in 1 .. Len(file)
             /\ Whole(t, First) = Prefix(t.n, k) /\ k \in 0 .. Length(t.n)
             /\ IsLast(First) => k = Length(t.n)
<1> DEFINE t == active[First.id]
           n == First.n
           g == got[n]
<1>1. First.id \in Ids /\ First.cmd # "Setup" /\ First \in Datagrams
  BY DEF ReadsOne, IsContent
<1>2. t.n = n /\ n \in 1 .. Len(file) /\ g \in Nat /\ Fits(First, file[n], g + 1)
  BY <1>1, FirstIsHeld, FirstFits
<1>3. t.data = Prefix(n, g) /\ g <= Length(n) /\ Length(n) \in Nat /\ Length(n) = Len(file[n].tags)
  BY <1>1, <1>2, FileIs DEF Counted, Length
<1>4. First.data \in Seq(Pieces)
  BY <1>1 DEF Datagrams
<1>5. CASE Length(n) = 0
  <2>1. First.data = <<>> /\ g = 0 /\ Carries(n) = 0
    BY <1>2, <1>3, <1>5 DEF Fits, Carries
  <2>2. Prefix(n, 0) = <<>>
    <3>1. 0 \in 0 .. Length(n)
      BY <1>5
    <3> QED
      BY <1>2, <3>1, PrefixGrows
  <2>3. Whole(t, First) = Prefix(n, 0)
    BY <1>3, <2>1, <2>2 DEF Whole
  <2> QED
    BY <1>2, <1>3, <1>5, <2>1, <2>3
<1>6. CASE Length(n) # 0
  <2>1. /\ First.data = <<Piece(n, g + 1)>> /\ g + 1 <= Length(n)
        /\ IsLast(First) <=> g + 1 = Length(n)
    <3>1. /\ g + 1 <= Len(file[n].tags) /\ First.data = <<[n |-> n, i |-> g + 1, tag |-> file[n].tags[g + 1]]>>
          /\ IsLast(First) <=> g + 1 = Len(file[n].tags)
      BY <1>2, <1>3, <1>6 DEF Fits
    <3> QED
      BY <1>3, <3>1 DEF Piece
  <2>2. First.data # <<>> /\ Carries(n) = 1
    BY <2>1 DEF Carries
  <2>3. g \in 0 .. Length(n) /\ g < Length(n)
    BY <1>2, <1>3, <2>1
  <2>4. Prefix(n, g) \o <<Piece(n, g + 1)>> = Prefix(n, g + 1)
    BY <1>2, <2>3, PrefixGrows
  <2>5. Whole(t, First) = Prefix(n, g + 1)
    BY <1>3, <2>1, <2>4 DEF Whole
  <2> QED
    BY <1>2, <1>3, <2>1, <2>2, <2>5
<1> QED
  BY <1>5, <1>6

LEMMA CountedReads ==
  ASSUME Types, ReadsOne, Ordered, NEW own, Owned(own), NEW got, Counted(got)
  PROVE  \E next : Counted(next)'
<1>0. /\ fromDev # <<>> /\ fromDev' = Tail(fromDev) /\ First.id \in Ids /\ fromDev \in Seq(Datagrams)
      /\ 1 \in Indices /\ First = fromDev[1] /\ dev' = dev /\ file' = file /\ First \in Datagrams
      /\ Indices = 1 .. Len(fromDev) /\ Indices' = 1 .. Len(fromDev) - 1 /\ Len(fromDev) \in Nat \ {0}
      /\ \A i \in Indices' : i + 1 \in Indices /\ fromDev'[i] = fromDev[i + 1] /\ 1 < i + 1
  BY TailIs DEF ReadsOne, First, device, Types, StreamTypes
<1> DEFINE g == [n \in 1 .. Len(file) |-> got[n] + Carries(n)]
<1>1. PICK next : /\ next \in [1 .. Len(file) -> Nat]
                  /\ \A n \in 1 .. Len(file) : next[n] = got[n] + Carries(n) /\ got[n] \in Nat
  <2>1. \A n \in 1 .. Len(file) : got[n] \in Nat /\ Carries(n) \in Nat
    BY DEF Counted, Carries
  <2>2. g \in [1 .. Len(file) -> Nat] /\ \A n \in 1 .. Len(file) : g[n] = got[n] + Carries(n)
    BY <2>1
  <2> HIDE DEF g
  <2> QED
    BY <2>1, <2>2
<1>2. \A n, j : j \in Nat \ {0} =>
        /\ Carried(fromDev, n, j + 1) = Carried(fromDev', n, j) + Carries(n)
        /\ Carried(fromDev', n, j) \in Nat /\ Carries(n) \in Nat
  <2>1. Tail(fromDev) \in Seq(Datagrams)
    BY <1>0
  <2>2. \A n, j : Carried(fromDev', n, j) \in Nat
    BY <1>0, <2>1, CarriersAreFinite
  <2>3. \A n, j : j \in Nat \ {0} => Carried(fromDev, n, j + 1) = Carried(fromDev', n, j) + Carries(n)
    BY <1>0, TailCarried DEF Carries
  <2> QED
    BY <2>2, <2>3 DEF Carries
<1>3. ASSUME NEW i \in Indices'
      PROVE  LET d == fromDev'[i]
             IN  Fits(d, file[d.n], next[d.n] + Carried(fromDev', d.n, i) + 1)
  <2> DEFINE d == fromDev[i + 1]
             n == d.n
  <2>1. i + 1 \in Indices /\ fromDev'[i] = d /\ i \in Nat \ {0}
    BY <1>0
  <2>2. n \in 1 .. Len(file) /\ Fits(d, file[n], got[n] + Carried(fromDev, n, i + 1) + 1)
    BY <2>1 DEF Owned, Counted
  <2> HIDE DEF d
  <2>3. got[n] + Carried(fromDev, n, i + 1) + 1 = next[n] + Carried(fromDev', n, i) + 1
    BY SMTT(30), <1>1, <1>2, <2>1, <2>2
  <2> QED
    BY <2>1, <2>2, <2>3
<1>4. ASSUME NEW id \in Ids, Busy(id)
      PROVE  dev[id].sent = next[dev[id].n] + Carried(fromDev', dev[id].n, Len(fromDev') + 1)
  <2> DEFINE n == dev[id].n
  <2>1. n \in 1 .. Len(file)
    BY <1>4 DEF Types, DeviceFits, Busy
  <2>2. dev[id].sent = got[n] + Carried(fromDev, n, Len(fromDev) + 1)
    BY <1>4 DEF Counted
  <2>3. Len(fromDev') + 1 = Len(fromDev)
    BY <1>0
  <2>4. Carried(fromDev, n, Len(fromDev) + 1) = Carried(fromDev', n, Len(fromDev)) + Carries(n)
        /\ Carried(fromDev', n, Len(fromDev)) \in Nat /\ Carries(n) \in Nat
    BY <1>0, <1>2
  <2> HIDE DEF n
  <2>5. got[n] + Carried(fromDev, n, Len(fromDev) + 1) = next[n] + Carried(fromDev', n, Len(fromDev))
    BY <1>1, <2>1, <2>4
  <2> QED
    BY <2>2, <2>3, <2>5 DEF n
<1>5. ASSUME NEW id \in Ids, Held(id), active'[id] = active[id], active[id].n # First.n \/ First.data = <<>>
      PROVE  LET t == active'[id]
             IN  /\ t.data = Prefix(t.n, next[t.n]) /\ next[t.n] <= Length(t.n)
                 /\ t.size = file[t.n].size
  <2>1. active[id].n \in 1 .. Len(file) /\ Carries(active[id].n) = 0
    BY <1>5 DEF Owned, Carries
  <2>2. next[active[id].n] = got[active[id].n]
    BY <1>1, <2>1
  <2> QED
    BY <1>5, <2>2 DEF Counted
<1>6. First.n \in 1 .. Len(file) /\ got[First.n] \in Nat /\ Fits(First, file[First.n], got[First.n] + 1)
  BY FirstFits
<1>7. ASSUME NEW id \in Ids, Held(id)'
      PROVE  LET t == active'[id]
             IN  /\ t.data = Prefix(t.n, next[t.n]) /\ next[t.n] <= Length(t.n)
                 /\ t.size = file[t.n].size
  <2>1. CASE id # First.id
    <3>1. active'[id] = active[id] /\ Held(id)
      BY <1>7, <2>1 DEF ReadsOne, Held
    <3>2. active[id].n # First.n
      BY <1>0, <2>1, <3>1 DEF Owned
    <3> QED
      BY <1>5, <3>1, <3>2
  <2>2. CASE id = First.id /\ SetsUp
    <3>1. First.data = <<>> /\ First.size = file[First.n].size /\ got[First.n] + 1 = 1
      BY <1>6, <2>2 DEF SetsUp, Fits, IsContent
    <3>2. next[First.n] = 0
      BY <1>1, <1>6, <3>1 DEF Carries
    <3>3. active'[id].n = First.n /\ active'[id].data = <<>> /\ active'[id].size = First.size
      BY <2>2 DEF SetsUp, Fresh
    <3>4. Prefix(First.n, 0) = <<>> /\ 0 <= Length(First.n)
      <4>1. 0 \in 0 .. Length(First.n) /\ 0 <= Length(First.n)
        BY <1>6, FileIs
      <4> QED
        BY <1>6, <4>1, PrefixGrows
    <3> QED
      BY <3>1, <3>2, <3>3, <3>4
  <2>3. CASE id = First.id /\ Skips
    <3>1. active'[id] = active[id] /\ Held(id) /\ ~ IsContent(First)
      BY <1>7, <2>3 DEF Skips, Held
    <3>2. First.data = <<>>
      BY <1>6, <3>1 DEF Fits
    <3> QED
      BY <1>5, <3>1, <3>2
  <2>4. CASE id = First.id /\ Takes
    <3> DEFINE t == active[id]
    <3>1. t \in Transfers /\ active'[id] = Grown(t, First) /\ Held(id) /\ IsContent(First)
      BY <2>4, ActiveTypes DEF Takes, Held, Types
    <3>2. /\ t.n \in 1 .. Len(file) /\ Whole(t, First) = Prefix(t.n, next[t.n])
          /\ next[t.n] <= Length(t.n) /\ Length(t.n) \in Nat
      <4>1. /\ t.n \in 1 .. Len(file) /\ Whole(t, First) = Prefix(t.n, got[t.n] + Carries(t.n))
            /\ got[t.n] + Carries(t.n) \in 0 .. Length(t.n)
        BY <2>4, <3>1, WholeIs DEF Ordered
      <4>2. next[t.n] = got[t.n] + Carries(t.n) /\ Length(t.n) \in Nat
        BY <1>1, <4>1, FileIs
      <4> QED
        BY <4>1, <4>2
    <3>3. t.size = file[t.n].size
      BY <3>1 DEF Counted
    <3> HIDE DEF t
    <3>4. Grown(t, First).n = t.n /\ Grown(t, First).size = t.size
          /\ Grown(t, First).data = Whole(t, First)
      BY <3>1 DEF Grown, Transfers
    <3> QED
      BY <3>1, <3>2, <3>3, <3>4
  <2>5. CASE id = First.id /\ (Drops \/ Decides)
    BY <1>7, <2>5 DEF Drops, Decides, Held
  <2> QED
    BY <2>1, <2>2, <2>3, <2>4, <2>5 DEF ReadsOne
<1>8. Counted(next)'
  BY <1>0, <1>1, <1>3, <1>4, <1>7 DEF Counted, Busy, Prefix, Piece, Length
<1> QED
  BY <1>8

LEMMA CountedSits ==
  ASSUME Types, ReadsNothing, NEW got, Counted(got)
  PROVE  Counted(got)'
<1>1. /\ fromDev' = fromDev /\ Indices' = Indices /\ dev' = dev /\ file' = file
      /\ \A id \in Ids : Held(id)' =>
           /\ Held(id) /\ active'[id].n = active[id].n
           /\ active'[id].data = active[id].data /\ active'[id].size = active[id].size
  BY DEF ReadsNothing, Indices, Held, device
<1>2. \A id \in Ids : Busy(id)' => Busy(id)
  BY <1>1 DEF Busy
<1>3. \A n, k : Prefix(n, k)' = Prefix(n, k) /\ Length(n)' = Length(n)
  BY <1>1 DEF Prefix, Piece, Length
<1>4. \A id \in Ids : Held(id)' =>
        LET t == active'[id]
        IN  /\ t.data = Prefix(t.n, got[t.n]) /\ got[t.n] <= Length(t.n)
            /\ t.size = file[t.n].size
  <2> SUFFICES ASSUME NEW id \in Ids, Held(id)'
               PROVE  LET t == active'[id]
                      IN  /\ t.data = Prefix(t.n, got[t.n]) /\ got[t.n] <= Length(t.n)
                          /\ t.size = file[t.n].size
    OBVIOUS
  <2>1. LET t == active[id]
        IN  /\ t.data = Prefix(t.n, got[t.n]) /\ got[t.n] <= Length(t.n)
            /\ t.size = file[t.n].size
    BY <1>1 DEF Counted
  <2> QED
    BY <1>1, <2>1
<1> QED
  BY <1>1, <1>2, <1>3, <1>4 DEF Counted, Prefix, Piece, Length

LEMMA CountedHears ==
  ASSUME Types, Hears, NEW got, Counted(got)
  PROVE  Counted(got)'
<1>1. /\ fromDev' = fromDev /\ Indices' = Indices /\ file' = file /\ active' = active
      /\ \A o \in Ids : Busy(o)' => Busy(o) /\ dev'[o].n = dev[o].n /\ dev'[o].sent = dev[o].sent
  BY DEF Hears, Quiet, Indices, Busy
<1>2. \A o \in Ids : Held(o)' => Held(o)
  BY <1>1 DEF Held
<1> QED
  BY <1>1, <1>2 DEF Counted, Prefix, Piece, Length

LEMMA CountedSetup ==
  ASSUME Types, NEW id \in Ids, NEW f \in Files, SetsNext(id, f),
         NEW own, Owned(own), NEW got, Counted(got)
  PROVE  \E next : Counted(next)'
<1> DEFINE n == Len(file) + 1
           l == Len(fromDev) + 1
           d == Datagram(id, "Setup", n, f.size, <<>>)
           e == [state |-> "setup", n |-> n, sent |-> 0]
           g == [m \in 1 .. n |-> IF m = n THEN 0 ELSE got[m]]
<1>0. /\ Len(file) \in Nat /\ Len(file') = n /\ file'[n] = f /\ file' = Append(file, f)
      /\ \A m \in 1 .. Len(file) :
           file'[m] = file[m]
      /\ got \in [1 .. Len(file) -> Nat] /\ n \notin 1 .. Len(file) /\ n \in 1 .. n
  BY FileGrows DEF SetsNext, Counted
<1>1. PICK next :
        /\ next \in [1 .. n -> Nat] /\ next[n] = 0
        /\ \A m \in 1 .. Len(file) : next[m] = got[m] /\ m \in 1 .. n /\ m # n
  <2>1. /\ g \in [1 .. n -> Nat] /\ g[n] = 0
        /\ \A m \in 1 .. Len(file) : g[m] = got[m] /\ m \in 1 .. n /\ m # n
    BY <1>0
  <2> HIDE DEF g
  <2> QED
    BY <2>1
<1>2. /\ Sends(d) /\ d.n = n /\ d.cmd = "Setup" /\ d.data = <<>> /\ d.size = f.size
      /\ dev' = [dev EXCEPT ![id] = e] /\ e.n = n /\ e.sent = 0 /\ dev \in [Ids -> Devices]
      /\ fromDev \in Seq(Datagrams) /\ active' = active
  BY DEF SetsNext, Quiet, Datagram, Types, DeviceTypes, StreamTypes
<1> HIDE DEF d, e, n, g
<1>3. /\ Indices' = 1 .. l /\ Indices = 1 .. Len(fromDev) /\ fromDev' = Append(fromDev, d)
      /\ Len(fromDev) \in Nat /\ fromDev'[l] = d /\ Len(fromDev') = l
      /\ \A i \in Indices : fromDev'[i] = fromDev[i]
  BY <1>2, SentIs DEF Sends
<1>4. \A m, j : j \in 1 .. l => Carried(fromDev', m, j) = Carried(fromDev, m, j)
  <2> SUFFICES ASSUME NEW m
               PROVE  \A j \in 1 .. Len(fromDev) + 1 : Carried(fromDev', m, j) = Carried(fromDev, m, j)
    BY DEF l
  <2>1. \A j \in 1 .. Len(fromDev) + 1 : Carried(Append(fromDev, d), m, j) = Carried(fromDev, m, j)
    BY <1>2, SameCarried
  <2> QED
    BY <1>3, <2>1
<1>5. \A m : Carried(fromDev', m, l + 1) = Carried(fromDev, m, l)
  <2>1. l + 1 = Len(fromDev) + 2
    BY <1>3
  <2>2. \A m : Carried(fromDev', m, Len(fromDev) + 2) = Carried(fromDev, m, Len(fromDev) + 1) + 0
    BY <1>2, <1>3, SentCarried
  <2>3. \A m : Carried(fromDev, m, Len(fromDev) + 1) \in Nat
    BY <1>2, CarriersAreFinite
  <2> QED
    BY <2>1, <2>2, <2>3
<1>6. Carried(fromDev, n, l) = 0
  <2>1. \A i \in Indices : fromDev[i].n # n
    BY <1>0 DEF Owned
  <2>2. Carriers(fromDev, n, l) = {}
    BY <2>1 DEF Carriers, Indices
  <2> QED
    BY <2>2, FS_EmptySet DEF Carried
<1>7. ASSUME NEW i \in Indices'
      PROVE  LET c == fromDev'[i]
             IN  Fits(c, file'[c.n], next[c.n] + Carried(fromDev', c.n, i) + 1)
  <2>1. CASE i = l
    <3>1. next[n] + Carried(fromDev', n, l) + 1 = 1
      BY <1>1, <1>3, <1>4, <1>6
    <3>2. Fits(d, f, 1)
      BY <1>2 DEF Fits, IsContent
    <3> QED
      BY <1>0, <1>2, <1>3, <2>1, <3>1, <3>2
  <2>2. CASE i # l
    <3> DEFINE c == fromDev[i]
    <3>1. i \in Indices /\ i \in 1 .. l /\ fromDev'[i] = c
      BY <1>3, <2>2
    <3>2. c.n \in 1 .. Len(file) /\ Fits(c, file[c.n], got[c.n] + Carried(fromDev, c.n, i) + 1)
      BY <3>1 DEF Owned, Counted
    <3> HIDE DEF c
    <3> QED
      BY <1>0, <1>1, <1>4, <3>1, <3>2
  <2> QED
    BY <2>1, <2>2
<1>8. ASSUME NEW o \in Ids, Held(o)'
      PROVE  LET t == active'[o]
             IN  /\ t.data = [i \in 1 .. next[t.n] |->
                               [n |-> t.n, i |-> i, tag |-> file'[t.n].tags[i]]]
                 /\ next[t.n] <= Len(file'[t.n].tags)
                 /\ t.size = file'[t.n].size
  <2>1. Held(o) /\ active'[o] = active[o] /\ active[o].n \in 1 .. Len(file)
    BY <1>2, <1>8 DEF Held, Owned
  <2>2. file'[active[o].n] = file[active[o].n] /\ next[active[o].n] = got[active[o].n]
    BY <1>0, <1>1, <2>1
  <2>3. LET t == active[o]
        IN  /\ t.data = [i \in 1 .. got[t.n] |-> [n |-> t.n, i |-> i, tag |-> file[t.n].tags[i]]]
            /\ got[t.n] <= Len(file[t.n].tags) /\ t.size = file[t.n].size
    BY <2>1 DEF Counted, Prefix, Piece, Length
  <2> QED
    BY <2>1, <2>2, <2>3
<1>9. ASSUME NEW o \in Ids, dev'[o].state # "idle"
      PROVE  dev'[o].sent = next[dev'[o].n] + Carried(fromDev', dev'[o].n, l + 1)
  <2>1. CASE o = id
    <3>1. dev'[o].n = n /\ dev'[o].sent = 0
      BY <1>2, <2>1
    <3> QED
      BY <1>1, <1>5, <1>6, <3>1
  <2>2. CASE o # id
    <3>1. dev'[o] = dev[o] /\ Busy(o)
      BY <1>2, <1>9, <2>2 DEF Busy
    <3>2. dev[o].n \in 1 .. Len(file)
      BY <3>1 DEF Busy, Types, DeviceFits
    <3>3. dev[o].sent = got[dev[o].n] + Carried(fromDev, dev[o].n, l)
      BY <3>1 DEF Counted
    <3> QED
      BY <1>1, <1>5, <3>1, <3>2, <3>3
  <2> QED
    BY <2>1, <2>2
<1>10. Counted(next)'
  <2>1. next \in [1 .. Len(file') -> Nat] /\ Len(fromDev') + 1 = l + 1
    BY <1>0, <1>1, <1>3
  <2> HIDE DEF l
  <2> QED
    BY <1>7, <1>8, <1>9, <2>1 DEF Counted, Busy, Prefix, Piece, Length
<1> QED
  BY <1>10

LEMMA CountedSays ==
  ASSUME Types, NEW id \in Ids, NEW d \in Datagrams, Says(id, d),
         NEW own, Owned(own), NEW got, Counted(got)
  PROVE  Counted(got)'
<1> DEFINE n == dev[id].n
           l == Len(fromDev) + 1
           k == dev[id].sent
<1>1. /\ Busy(id) /\ d.id = id /\ d.n = n /\ d.cmd # "Setup" /\ Sends(d) /\ file' = file
      /\ \A o \in Ids : o # id => dev'[o] = dev[o]
      /\ active' = active /\ fromDev \in Seq(Datagrams)
  BY DEF Says, Quiet, Types, StreamTypes
<1>2. /\ n \in 1 .. Len(file) /\ got[n] \in Nat /\ k = got[n] + Carried(fromDev, n, l)
      /\ Length(n) \in Nat /\ Length(n) = Len(file[n].tags)
  BY <1>1, FileIs DEF Counted, Types, DeviceFits, Busy, Length
<1>3. /\ Indices' = 1 .. l /\ Indices = 1 .. Len(fromDev) /\ fromDev' = Append(fromDev, d)
      /\ Len(fromDev) \in Nat /\ fromDev'[l] = d /\ Len(fromDev') = l
      /\ \A i \in Indices : fromDev'[i] = fromDev[i]
  BY <1>1, SentIs DEF Sends
<1>4. ASSUME NEW m PROVE \A j \in 1 .. l : Carried(fromDev', m, j) = Carried(fromDev, m, j)
  <2>1. \A j \in 1 .. Len(fromDev) + 1 : Carried(Append(fromDev, d), m, j) = Carried(fromDev, m, j)
    BY <1>1, SameCarried
  <2> QED
    BY <1>3, <2>1
<1>5. \A m : /\ Carried(fromDev', m, l + 1)
                  = Carried(fromDev, m, l) + (IF d.n = m /\ d.data # <<>> THEN 1 ELSE 0)
             /\ Carried(fromDev, m, l) \in Nat
  <2>1. l + 1 = Len(fromDev) + 2
    BY <1>3
  <2> SUFFICES ASSUME NEW m
               PROVE  /\ Carried(fromDev', m, l + 1)
                           = Carried(fromDev, m, l) + (IF d.n = m /\ d.data # <<>> THEN 1 ELSE 0)
                      /\ Carried(fromDev, m, l) \in Nat
    OBVIOUS
  <2>2. Carried(Append(fromDev, d), m, Len(fromDev) + 2)
          = Carried(fromDev, m, Len(fromDev) + 1) + (IF d.n = m /\ d.data # <<>> THEN 1 ELSE 0)
    BY <1>1, SentCarried
  <2>3. Carried(fromDev, m, Len(fromDev) + 1) \in Nat
    BY <1>1, CarriersAreFinite
  <2> QED
    BY <1>3, <2>1, <2>2, <2>3
<1>6. /\ Fits(d, file[n], k + 1)
      /\ dev'[id].state # "idle" =>
           /\ dev'[id].n = n
           /\ dev'[id].sent = k + (IF d.data # <<>> THEN 1 ELSE 0)
  <2>1. CASE d.cmd \in {"Pause", "Cancel"}
    <3>1. d.data = <<>> /\ ~ IsContent(d)
      BY <2>1 DEF Says, ContentOf, Datagram, CommandOf, IsContent
    <3>2. Fits(d, file[n], k + 1)
      BY <1>1, <3>1 DEF Fits
    <3>3. dev'[id].state # "idle" => dev' = dev
      BY <2>1 DEF Says, ContentOf, Datagram, CommandOf
    <3>4. k \in Nat
      BY <1>2, <1>5
    <3> QED
      BY <3>1, <3>2, <3>3, <3>4
  <2>2. CASE d.cmd \notin {"Pause", "Cancel"}
    <3>1. /\ d = ContentOf(id) /\ dev[id].state = "sending"
          /\ dev'[id].n = n /\ dev'[id].sent = NextPiece(id)
          /\ NextPiece(id) \in 0 .. Length(n) /\ (NextPiece(id) = 0 <=> Length(n) = 0)
      BY <2>2 DEF Says
    <3>2. k \in Nat /\ (k < Length(n) \/ (Length(n) = 0 /\ k = 0))
      BY <1>2, <1>5, <3>1 DEF Types, DeviceFits
    <3>3. CASE Length(n) = 0
      <4>1. NextPiece(id) = 0 /\ d.cmd = "Only" /\ d.data = <<>>
        BY <3>1, <3>3 DEF ContentOf, Datagram, CommandOf
      <4>2. Fits(d, file[n], k + 1)
        BY <1>2, <3>3, <4>1 DEF Fits, IsContent
      <4> QED
        BY <3>1, <3>2, <3>3, <4>1, <4>2
    <3>4. CASE Length(n) # 0
      <4>1. NextPiece(id) = k + 1 /\ k + 1 <= Length(n) /\ k + 1 # 0
        BY <1>2, <3>1, <3>2, <3>4 DEF NextPiece
      <4>2. /\ d.cmd = CommandOf(n, k + 1) /\ d.data = <<Piece(n, k + 1)>>
        BY <3>1, <4>1 DEF ContentOf, Datagram
      <4>3. /\ d.cmd \in {"First", "Data", "Last", "Only"} /\ (d.cmd = "Only" => k + 1 = 1)
            /\ d.cmd \in {"Last", "Only"} <=> k + 1 = Length(n)
        BY <1>2, <3>2, <3>4, <4>1, <4>2 DEF CommandOf
      <4>4. Fits(d, file[n], k + 1)
        BY <1>1, <1>2, <3>4, <4>1, <4>2, <4>3 DEF Fits, IsContent, IsLast, Piece
      <4> QED
        BY <3>1, <4>1, <4>2, <4>4
    <3> QED
      BY <3>3, <3>4
  <2> QED
    BY <2>1, <2>2
<1>7. ASSUME NEW i \in Indices'
      PROVE  LET c == fromDev'[i]
             IN  Fits(c, file[c.n], got[c.n] + Carried(fromDev', c.n, i) + 1)
  <2>1. CASE i = l
    <3>1. got[n] + Carried(fromDev', n, l) + 1 = k + 1
      BY <1>2, <1>3, <1>4
    <3> QED
      BY <1>1, <1>3, <1>6, <2>1, <3>1
  <2>2. CASE i # l
    <3> DEFINE c == fromDev[i]
    <3>1. i \in Indices /\ i \in 1 .. l /\ fromDev'[i] = c
      BY <1>3, <2>2
    <3>2. Fits(c, file[c.n], got[c.n] + Carried(fromDev, c.n, i) + 1)
      BY <3>1 DEF Counted
    <3>3. Carried(fromDev', c.n, i) = Carried(fromDev, c.n, i)
      BY <1>4, <3>1
    <3> HIDE DEF c
    <3> QED
      BY <3>1, <3>2, <3>3
  <2> QED
    BY <2>1, <2>2
<1>8. ASSUME NEW o \in Ids, dev'[o].state # "idle"
      PROVE  dev'[o].sent = got[dev'[o].n] + Carried(fromDev', dev'[o].n, l + 1)
  <2>1. CASE o = id
    <3>1. Carried(fromDev', n, l + 1) = Carried(fromDev, n, l) + (IF d.data # <<>> THEN 1 ELSE 0)
          /\ Carried(fromDev, n, l) \in Nat
      BY <1>1, <1>5
    <3>2. dev'[o].n = n /\ dev'[o].sent = k + (IF d.data # <<>> THEN 1 ELSE 0)
      BY <1>6, <1>8, <2>1
    <3> HIDE DEF n, l, k
    <3> QED
      BY <1>2, <3>1, <3>2
  <2>2. CASE o # id
    <3> DEFINE m == dev[o].n
    <3>1. dev'[o] = dev[o] /\ Busy(o)
      BY <1>1, <1>8, <2>2 DEF Busy
    <3>2. m # n
      BY <1>1, <2>2, <3>1 DEF Owned
    <3>3. dev[o].sent = got[m] + Carried(fromDev, m, l)
      BY <3>1 DEF Counted
    <3>4. Carried(fromDev', m, l + 1) = Carried(fromDev, m, l)
      <4> HIDE DEF m, n, l
      <4>1. Carried(fromDev', m, l + 1) = Carried(fromDev, m, l) + 0 /\ Carried(fromDev, m, l) \in Nat
        BY <1>1, <1>5, <3>2
      <4> QED
        BY <4>1
    <3> QED
      BY <3>1, <3>3, <3>4
  <2> QED
    BY <2>1, <2>2
<1>9. Counted(got)'
  <2>1. got \in [1 .. Len(file') -> Nat] /\ Len(fromDev') + 1 = l + 1
    BY <1>1, <1>3 DEF Counted
  <2>2. \A o \in Ids : Held(o)' => Held(o)
    BY <1>1 DEF Held
  <2> HIDE DEF l
  <2> QED
    BY <1>1, <1>7, <1>8, <2>1, <2>2 DEF Counted, Busy, Prefix, Piece, Length
<1> QED
  BY <1>9

-----------------------------------------------------------------------------
(* What is complete is whole                                               *)

LEMMA WholeReads ==
  ASSUME Types, ReadsOne, HeldOrdered, NEW own, Owned(own), NEW got, Counted(got), AllWhole
  PROVE  AllWhole'
<1> DEFINE t == active[First.id]
<1>0. file' = file /\ Said \in Seq(Events) /\ First.id \in Ids
  BY SaidTypes DEF ReadsOne, device
<1>1. CASE Said' = Said
  BY <1>0, <1>1 DEF AllWhole, IsWhole, Prefix, Piece, Length
<1>2. CASE Decides /\ Said' # Said
  <2>1. PICK e \in Events :
          /\ Said' = Append(Said, e) /\ e.n = t.n
          /\ e.kind = "Complete" =>
               /\ IsLast(First) /\ ~ Refused(t, First)
               /\ e.data = Sanitized(Whole(t, First))
    BY <1>2 DEF Decides
  <2>2. IsContent(First) /\ Held(First.id)
    BY <1>2 DEF Decides
  <2>3. t \in Transfers
    BY <1>0, <2>2, ActiveTypes DEF Held, Types
  <2>4. /\ t.n \in 1 .. Len(file) /\ t.size = file[t.n].size
        /\ IsLast(First) => Whole(t, First) = Prefix(t.n, Length(t.n))
    BY <1>0, <2>2, WholeIs DEF Counted
  <2>5. Length(t.n) \in Nat
    BY <2>4, FileIs
  <2> HIDE DEF t
  <2>6. IsLast(First) => Len(Whole(t, First)) = Length(t.n)
    <3>1. Length(t.n) \in 0 .. Length(t.n)
      BY <2>5
    <3> QED
      BY <2>4, <3>1, PrefixGrows
  <2>7. ASSUME e.kind = "Complete"
        PROVE  /\ e.data = Sanitized(Prefix(e.n, Length(e.n)))
               /\ file[e.n].size \in {0, Length(e.n)}
    <3>1. t.size \in Nat /\ ~ Incomplete(t, First)
      BY <2>1, <2>3, <2>7 DEF Refused, Transfers
    <3>2. t.size \in {0, Length(t.n)}
      BY <2>1, <2>6, <2>7, <3>1 DEF Incomplete
    <3> QED
      BY <2>1, <2>4, <2>7, <3>2
  <2>8. IsWhole(e)
    BY <2>7 DEF IsWhole
  <2>9. \A i \in DOMAIN Said' : (i \in DOMAIN Said /\ Said'[i] = Said[i]) \/ Said'[i] = e
    BY <1>0, <2>1
  <2>10. \A i \in DOMAIN Said' : IsWhole(Said'[i])
    BY <2>8, <2>9 DEF AllWhole
  <2> QED
    BY <1>0, <2>10 DEF AllWhole, IsWhole, Prefix, Piece, Length
<1> QED
  BY <1>1, <1>2 DEF ReadsOne, SetsUp, Drops, Skips, Takes

LEMMA WholeSits ==
  ASSUME Types, ReadsNothing, AllWhole
  PROVE  AllWhole'
<1>0. file' = file /\ Said \in Seq(Events)
  BY SaidTypes DEF ReadsNothing, device
<1>1. \A i \in DOMAIN Said' : IsWhole(Said'[i])
  <2>1. CASE Keeps
    BY <2>1 DEF Keeps, AllWhole
  <2>2. CASE Sweeps
    <3>1. PICK told \in Seq(Events) :
            Said' = Said \o told /\ \A i \in DOMAIN told : told[i].kind = "Corrupted"
      BY <2>2 DEF Sweeps
    <3>2. \A i \in DOMAIN Said' : \/ i \in DOMAIN Said /\ Said'[i] = Said[i]
                                  \/ Said'[i].kind = "Corrupted"
      BY <1>0, <3>1
    <3> QED
      BY <3>2 DEF AllWhole, IsWhole
  <2> QED
    BY <2>1, <2>2 DEF ReadsNothing
<1> QED
  BY <1>0, <1>1 DEF AllWhole, IsWhole, Prefix, Piece, Length

LEMMA WholeQuiet ==
  ASSUME Quiet, NEW own, Owned(own), AllWhole, \A n \in 1 .. Len(file) : file'[n] = file[n]
  PROVE  AllWhole'
<1>1. Said' = Said
  BY QuietSays
<1>2. \A i \in DOMAIN Said : Said[i].n \in 1 .. Len(file) /\ IsWhole(Said[i])
  BY DEF Owned, AllWhole
<1> QED
  BY <1>1, <1>2 DEF AllWhole, IsWhole, Prefix, Piece, Length

-----------------------------------------------------------------------------
(* The invariant holds                                                     *)

IInv ==
  /\ Types /\ Ordered /\ Once /\ AllWhole
  /\ \E own : Owned(own)
  /\ \E got : Counted(got)

LEMMA InitHolds == Init => IInv
<1> SUFFICES ASSUME Init PROVE IInv
  OBVIOUS
<1>1. /\ fromDev = <<>> /\ Indices = {} /\ Said = <<>> \o <<>> /\ file = <<>>
      /\ \A id \in Ids : ~ Held(id) /\ ~ Busy(id)
      /\ telling.event = <<>>
  BY NoneTypes DEF Init, FilesInit, Indices, Said, Held, Busy, Idle
<1>2. Said = <<>> /\ DOMAIN Said = {} /\ 1 .. Len(file) = {}
  BY <1>1
<1>3. Ordered /\ Once /\ AllWhole
  BY <1>1, <1>2 DEF Ordered, StreamOrdered, HeldOrdered, DeviceOrdered, Followed, Once, AllWhole
<1>4. PICK own : own \in [1 .. Len(file) -> Ids]
  <2>1. [n \in 1 .. Len(file) |-> n] \in [1 .. Len(file) -> Ids]
    BY <1>2
  <2> QED
    BY <2>1
<1>5. Owned(own)
  BY <1>1, <1>2, <1>4 DEF Owned
<1>6. PICK got : got \in [1 .. Len(file) -> Nat]
  <2>1. [n \in 1 .. Len(file) |-> n] \in [1 .. Len(file) -> Nat]
    BY <1>2
  <2> QED
    BY <2>1
<1>7. Counted(got)
  BY <1>1, <1>2, <1>6 DEF Counted
<1> QED
  BY <1>3, <1>5, <1>7, InitTypes DEF IInv

LEMMA StepHolds == IInv /\ [Next]_vars => IInv'
<1> SUFFICES ASSUME IInv, [Next]_vars PROVE IInv'
  OBVIOUS
<1>1. Types /\ Ordered /\ Once /\ AllWhole /\ Types'
  BY StepTypes DEF IInv
<1>2. PICK own : Owned(own)
  BY DEF IInv
<1>3. PICK got : Counted(got)
  BY DEF IInv
<1>4. CASE HandleDatagram /\ UNCHANGED device
  <2>1. ReadsOne
    BY <1>1, <1>4, ReadStep
  <2>2. Owned(own)' /\ Ordered' /\ Once' /\ AllWhole' /\ \E next : Counted(next)'
    BY <1>1, <1>2, <1>3, <2>1, OwnedReads, OrderedReads, OnceReads, CountedReads, WholeReads
       DEF Ordered
  <2> QED
    BY <1>1, <2>2 DEF IInv
<1>5. CASE ReadsNothing
  <2>1. Owned(own)' /\ Ordered' /\ Once' /\ AllWhole' /\ Counted(got)'
    BY <1>1, <1>2, <1>3, <1>5, OwnedSits, OrderedSits, OnceSits, CountedSits, WholeSits
  <2> QED
    BY <1>1, <2>1 DEF IInv
<1>6. ASSUME NEW id \in Ids, NEW f \in Files, SetsNext(id, f) PROVE IInv'
  <2>1. Quiet /\ \A n \in 1 .. Len(file) : file'[n] = file[n]
    BY <1>1, <1>6, FileGrows DEF SetsNext
  <2>2. Ordered' /\ Once' /\ AllWhole' /\ (\E next : Owned(next)') /\ \E next : Counted(next)'
    BY <1>1, <1>2, <1>3, <1>6, <2>1, OwnedSetup, OrderedSetup, OnceSetup, CountedSetup, WholeQuiet
  <2> QED
    BY <1>1, <2>2 DEF IInv
<1>7. ASSUME NEW id \in Ids, NEW d \in Datagrams, Says(id, d) PROVE IInv'
  <2>1. Quiet /\ file' = file
    BY <1>7 DEF Says
  <2>2. Owned(own)' /\ Ordered' /\ Once' /\ AllWhole' /\ Counted(got)'
    BY <1>1, <1>2, <1>3, <1>7, <2>1, OwnedSays, OrderedSays, OnceSays, CountedSays, WholeQuiet
  <2> QED
    BY <1>1, <2>2 DEF IInv
<1>8. CASE Hears
  <2>1. Quiet /\ file' = file
    BY <1>8 DEF Hears
  <2>2. Owned(own)' /\ Ordered' /\ Once' /\ AllWhole' /\ Counted(got)'
    BY <1>1, <1>2, <1>3, <1>8, <2>1, OwnedHears, OrderedHears, OnceHears, CountedHears, WholeQuiet
  <2> QED
    BY <1>1, <2>2 DEF IInv
<1>9. CASE UNCHANGED vars
  <2>1. ReadsNothing
    BY <1>9 DEF vars, files, handler, ReadsNothing, Keeps, Held, Once, Said, IInv
  <2> QED
    BY <1>5, <2>1
<1> QED
  BY <1>1, <1>4, <1>5, <1>6, <1>7, <1>8, <1>9, CleanupStep, LoopStep, DeviceStep
     DEF Next, Handler

LEMMA InvHolds == Spec => []IInv
BY InitHolds, StepHolds, PTL DEF Spec

-----------------------------------------------------------------------------
(* What the application gets as complete is one whole file: the handler    *)
(* mixes no two transfers with one id, and drops or repeats no piece,      *)
(* however Setups, Cancels and the timer fall.                             *)
THEOREM WholeFileHolds == Spec => []WholeFile
<1>1. ASSUME IInv PROVE WholeFile
  <2>1. /\ AllWhole /\ events \in Seq(Events) /\ telling.event \in Seq(Events)
    BY <1>1, SaidTypes DEF IInv
  <2>2. \A i \in DOMAIN events : i \in DOMAIN Said /\ Said[i] = events[i]
    BY <2>1 DEF Said
  <2>3. \A i \in DOMAIN events : IsWhole(events[i])
    BY <2>1, <2>2 DEF AllWhole
  <2> QED
    BY <2>3 DEF WholeFile, IsWhole
<1> QED
  BY <1>1, InvHolds, PTL

(* No transfer is reported twice to the application, whether its contents, *)
(* the timer or a lost connection ends it.                                 *)
THEOREM OneVerdictHolds == Spec => []OneVerdict
<1>1. ASSUME IInv PROVE OneVerdict
  <2>1. /\ Once /\ events \in Seq(Events) /\ telling.event \in Seq(Events)
    BY <1>1, SaidTypes DEF IInv
  <2>2. \A i \in DOMAIN events : i \in DOMAIN Said /\ Said[i] = events[i]
    BY <2>1 DEF Said
  <2>3. \A i, j \in DOMAIN Said : i # j => Said[i].n # Said[j].n
    BY <2>1 DEF Once
  <2> QED
    BY <2>2, <2>3 DEF OneVerdict
<1> QED
  BY <1>1, InvHolds, PTL

(* While a device sends a transfer that was not decided, the handler holds *)
(* it, with the pieces that were sent and are not on their way.            *)
THEOREM InStepHolds == Spec => []InStep
<1>1. ASSUME IInv PROVE InStep
  <2> DEFINE undecided(n) == /\ ~ HasVerdict(n)
                             /\ \A i \in DOMAIN telling.event : telling.event[i].n # n
                             /\ pc # "down"
             setUp(n) == \A i \in DOMAIN fromDev : fromDev[i].n = n => fromDev[i].cmd # "Setup"
  <2>0. Types /\ Ordered /\ (\E own : Owned(own)) /\ (\E got : Counted(got))
    BY <1>1 DEF IInv
  <2>1. PICK got : Counted(got)
    BY <2>0
  <2> SUFFICES ASSUME NEW id \in Ids, dev[id].state = "sending",
                      undecided(dev[id].n), setUp(dev[id].n)
               PROVE  LET n == dev[id].n
                      IN  /\ active[id].n = n
                          /\ active[id].data = Prefix(n, dev[id].sent - Cardinality(OnTheWay(n)))
    BY DEF InStep
  <2> DEFINE n == dev[id].n
  <2>2. Busy(id) /\ ~ AwaitsSetup(n)
    BY DEF Busy, AwaitsSetup, IsSetupOf, Indices
  <2>3. ~ Told(n)
    <3>1. events \in Seq(Events) /\ telling.event \in Seq(Events)
      BY <2>0, SaidTypes
    <3>2. \A i \in DOMAIN Said : \/ i \in DOMAIN events /\ Said[i] = events[i]
                                 \/ \E j \in DOMAIN telling.event : Said[i] = telling.event[j]
      <4> DEFINE e == events
                 g == telling.event
      <4>1. \A i \in DOMAIN (e \o g) : \/ i \in DOMAIN e /\ (e \o g)[i] = e[i]
                                       \/ i - Len(e) \in DOMAIN g /\ (e \o g)[i] = g[i - Len(e)]
        <5> HIDE DEF e, g
        <5>1. e \in Seq(Events) /\ g \in Seq(Events)
          BY <3>1 DEF e, g
        <5> QED
          BY <5>1
      <4> QED
        BY <4>1 DEF Said
    <3> QED
      BY <3>2 DEF Told, Tells, HasVerdict
  <2>4. Held(id) /\ active[id].n = n
    BY <2>0, <2>2, <2>3 DEF Ordered, Followed
  <2>5. n \in 1 .. Len(file) /\ got[n] \in Nat
    BY <2>0, <2>1, <2>2 DEF Types, DeviceFits, Busy, Counted
  <2>6. active[id].data = Prefix(n, got[n])
    BY <2>1, <2>4 DEF Counted
  <2>7. dev[id].sent = got[n] + Cardinality(OnTheWay(n)) /\ Cardinality(OnTheWay(n)) \in Nat
    <3>1. fromDev \in Seq(Datagrams)
      BY <2>0 DEF Types, StreamTypes
    <3>2. dev[id].sent = got[n] + Carried(fromDev, n, Len(fromDev) + 1)
      BY <2>1, <2>2 DEF Counted
    <3>3. Cardinality(OnTheWay(n)) = Carried(fromDev, n, Len(fromDev) + 1)
          /\ Carried(fromDev, n, Len(fromDev) + 1) \in Nat
      BY <2>0, <3>1, AllCarried, CarriersAreFinite
    <3> QED
      BY <3>2, <3>3
  <2>8. dev[id].sent - Cardinality(OnTheWay(n)) = got[n]
    <3> HIDE DEF n
    <3> QED
      BY <2>5, <2>7 DEF n
  <2> QED
    BY <2>4, <2>6, <2>8
<1> QED
  BY <1>1, InvHolds, PTL

LEMMA GrownFits ==
  ASSUME NEW t \in Transfers, NEW d \in Datagrams, ~ Exceeds(t, d), d.cmd # "Only"
  PROVE  /\ Grown(t, d).size = t.size /\ Grown(t, d).data = Whole(t, d)
         /\ t.size > 0 => Len(Whole(t, d)) <= t.size
<1>1. t.data \in Seq(Pieces) /\ d.data \in Seq(Pieces) /\ t.size \in Nat
  BY DEF Transfers, Datagrams
<1>2. Len(Whole(t, d)) = Len(t.data) + Len(d.data)
  BY <1>1 DEF Whole
<1>3. t.size > 0 => ~ (Len(t.data) + Len(d.data) > t.size)
  BY DEF Exceeds
<1>4. Grown(t, d).size = t.size /\ Grown(t, d).data = Whole(t, d)
  BY DEF Grown, Transfers
<1>5. Len(t.data) \in Nat /\ Len(d.data) \in Nat
  BY <1>1
<1>6. \A p, q, s \in Nat : ~ (p + q > s) => p + q <= s
  OBVIOUS
<1>7. t.size > 0 => Len(t.data) + Len(d.data) <= t.size
  BY <1>1, <1>3, <1>5, <1>6, Zenon
<1> QED
  BY <1>2, <1>4, <1>7, Zenon

(* What a transfer holds stays within the size that its Setup declared:    *)
(* the pieces that would exceed it are refused.                            *)
THEOREM WithinDeclaredHolds == Spec => []WithinDeclared
<1>1. Init => WithinDeclared
  BY DEF Init, FilesInit, WithinDeclared
<1>2. IInv /\ WithinDeclared /\ [Next]_vars => WithinDeclared'
  <2> SUFFICES ASSUME IInv, WithinDeclared, [Next]_vars PROVE WithinDeclared'
    OBVIOUS
  <2>0. Types /\ Once /\ active \in [Ids -> Transfers \cup {None}]
    BY DEF IInv, Types, TypeOK
  <2>1. CASE HandleDatagram /\ UNCHANGED device
    <3>1. ReadsOne
      BY <2>0, <2>1, ReadStep
    <3> SUFFICES ASSUME NEW id \in Ids, active'[id] # None, active'[id].size > 0
                 PROVE  Len(active'[id].data) <= active'[id].size
      BY DEF WithinDeclared
    <3>2. CASE active'[id] = active[id]
      BY <3>2 DEF WithinDeclared
    <3>3. CASE id = First.id /\ SetsUp
      <4>1. active'[id].data = <<>> /\ active'[id].size > 0
        BY <3>3 DEF SetsUp, Fresh
      <4>2. Len(active'[id].data) = 0 /\ active'[id].size \in Nat
        BY <3>1, <3>3, <4>1 DEF SetsUp, Fresh, ReadsOne, Datagrams
      <4> QED
        BY <4>1, <4>2
    <3>4. CASE id = First.id /\ Takes
      <4> DEFINE t == active[id]
      <4>1. /\ t \in Transfers /\ active'[id] = Grown(t, First)
            /\ ~ Exceeds(t, First) /\ First.cmd # "Only"
        BY <2>0, <3>1, <3>4, ActiveTypes
           DEF Types, Takes, Held, Refused, IsLast, ReadsOne, Datagrams
      <4> HIDE DEF t
      <4>2. First \in Datagrams
        BY <3>1 DEF ReadsOne
      <4>3. /\ Grown(t, First).size = t.size /\ Grown(t, First).data = Whole(t, First)
            /\ t.size > 0 => Len(Whole(t, First)) <= t.size
        BY <4>1, <4>2, GrownFits
      <4> QED
        BY <4>1, <4>3
    <3> QED
      BY <3>1, <3>2, <3>3, <3>4 DEF ReadsOne, Skips, Drops, Decides
  <2>2. CASE ReadsNothing
    BY <2>2 DEF ReadsNothing, WithinDeclared, Held
  <2>3. CASE Quiet
    BY <2>3 DEF Quiet, WithinDeclared
  <2>4. CASE UNCHANGED vars
    BY <2>4 DEF vars, files, handler, WithinDeclared
  <2> QED
    BY <2>0, <2>1, <2>2, <2>3, <2>4, CleanupStep, LoopStep, DeviceStep
       DEF Next, Handler, SetsNext, Says, Hears
<1> QED
  BY <1>1, <1>2, InvHolds, PTL DEF Spec

-----------------------------------------------------------------------------
(* What the device is told                                                 *)

Completes(said, n) == \E i \in DOMAIN said : said[i].n = n /\ said[i].kind = "Complete"

(* Success is said with the event on its way to the application, and a     *)
(* device that is not hasty takes it for no other transfer.                *)
Truthful ==
  /\ \A i \in DOMAIN toDev :
       toDev[i].cmd = "Success" => Completes(Said, toDev[i].n) \/ pc = "down"
  /\ ~ work.hasty => \A n \in believed : Completes(Said, n) \/ pc = "down"

(* Once a transfer is started, its answers are all that is on the way.     *)
AnswersFit ==
  \A id \in Ids : dev[id].state \in {"sending", "sent"} =>
    /\ ~ AwaitsSetup(dev[id].n)
    /\ \A i \in DOMAIN toDev : toDev[i].id = id =>
         toDev[i].n = dev[id].n /\ toDev[i].cmd # "Start"

(* A Start is for the transfer that was set up last, and what follows it   *)
(* is for that transfer too.                                               *)
StartsFit ==
  \A id \in Ids : \A i \in DOMAIN toDev : toDev[i].id = id /\ toDev[i].cmd = "Start" =>
    /\ dev[id].state = "setup" /\ toDev[i].n = dev[id].n /\ ~ AwaitsSetup(dev[id].n)
    /\ \A j \in DOMAIN toDev : i < j /\ toDev[j].id = id =>
         toDev[j].n = dev[id].n /\ toDev[j].cmd # "Start"

(* A Setup on its way is the last thing the device did with its id.        *)
SetupsFit ==
  \A id \in Ids : \A i \in Indices : fromDev[i].id = id /\ fromDev[i].cmd = "Setup" =>
    dev[id].state = "setup" /\ fromDev[i].n = dev[id].n

Answered == AnswersFit /\ StartsFit /\ SetupsFit

(* What a step that reads a datagram answers. *)
Replies ==
  \/ toDev' = toDev
  \/ \E a \in Answers :
       /\ toDev' = Append(toDev, a) /\ a.id = First.id
       /\ \/ First.cmd = "Setup" /\ a.cmd = "Start" /\ a.n = First.n
          \/ /\ IsContent(First) /\ Held(First.id)
             /\ a.cmd # "Start" /\ a.n = active[First.id].n
             /\ a.cmd = "Success" => Completes(Said', a.n)

LEMMA ReadReplies ==
  ASSUME Types, HandleDatagram, UNCHANGED device
  PROVE  Replies
<1>1. /\ events \in Seq(Events)
      /\ events' \in Seq(Events) /\ telling'.event \in Seq(Events)
  BY HandlerTypes DEF TypeOK, Types
<1>2. ASSUME NEW d \in Arrived, Receives(d)
      PROVE  d = First /\ First \in Datagrams /\ First.id \in Ids /\ First.n \in 1 .. MaxSetups
  BY <1>2, ArrivedTypes DEF First, Datagrams
<1>3. CASE HandleSetup
  <2>1. PICK d \in Arrived :
          Receives(d) /\ d.cmd = "Setup" /\ Tell(Answer(d.id, "Start", d.n), NoEvent)
    BY <1>3 DEF HandleSetup
  <2>2. /\ d = First /\ First.cmd = "Setup"
        /\ toDev' = toDev \/ toDev' = Append(toDev, Answer(First.id, "Start", First.n))
    BY <1>2, <2>1 DEF Tell
  <2>3. LET a == Answer(First.id, "Start", First.n)
        IN  a \in Answers /\ a.id = First.id /\ a.cmd = "Start" /\ a.n = First.n
    BY <1>2, <2>1 DEF Answer, Answers
  <2> QED
    BY <2>2, <2>3 DEF Replies
<1>4. CASE HandleCancel \/ HandleIgnored \/ HandleContent
  BY <1>4 DEF HandleCancel, HandleIgnored, HandleContent, Pending, Replies
<1>5. CASE HandleRefused \/ HandleLast
  <2>1. PICK d \in Arrived :
          /\ Receives(d) /\ IsContent(d) /\ active[d.id] # None
          /\ \/ Tell(Answer(d.id, "Failure", active[d.id].n),
                     <<Event("Corrupted", d.id, active[d.id].n, <<>>)>>)
             \/ Tell(Answer(d.id, "Success", active[d.id].n),
                     <<Event("Complete", d.id, active[d.id].n,
                             Sanitized(Whole(active[d.id], d)))>>)
    BY <1>5 DEF HandleRefused, HandleLast, Report, IsContent, IsLast
  <2> DEFINE t == active[First.id]
             yes == Answer(First.id, "Success", t.n)
             no == Answer(First.id, "Failure", t.n)
             e == Event("Complete", First.id, t.n, Sanitized(Whole(t, First)))
  <2>2. /\ d = First /\ First.id \in Ids /\ IsContent(First) /\ Held(First.id)
        /\ \/ toDev' = toDev
           \/ toDev' = Append(toDev, no)
           \/ toDev' = Append(toDev, yes) /\ telling'.event = <<e>>
    <3>1. d = First
      BY <1>2, <2>1
    <3>2. \/ toDev' = toDev
          \/ toDev' = Append(toDev, no)
          \/ toDev' = Append(toDev, yes) /\ telling' = [datagram |-> yes, event |-> <<e>>]
      <4> HIDE DEF e
      <4>1. \/ Tell(no, <<Event("Corrupted", First.id, t.n, <<>>)>>)
            \/ Tell(yes, <<e>>)
        BY <2>1, <3>1 DEF e
      <4> HIDE DEF yes, no
      <4> QED
        BY <4>1 DEF Tell
    <3> QED
      BY <1>2, <2>1, <3>1, <3>2 DEF Held
  <2>3. /\ yes \in Answers /\ yes.id = First.id /\ yes.cmd = "Success" /\ yes.n = t.n
        /\ no \in Answers /\ no.id = First.id /\ no.cmd = "Failure" /\ no.n = t.n
    <3>1. t.n \in 1 .. MaxSetups
      BY <2>2, ActiveTypes DEF Types, Held, Transfers
    <3> QED
      BY <2>2, <3>1 DEF Answer, Answers
  <2>4. telling'.event = <<e>> => Completes(Said', t.n)
    <3>1. e.n = t.n /\ e.kind = "Complete"
      BY DEF Event
    <3> HIDE DEF e, t
    <3>2. SUFFICES ASSUME telling'.event = <<e>> PROVE Completes(Said', t.n)
      OBVIOUS
    <3>3. Said' = events' \o <<e>> /\ <<e>> \in Seq(Events)
      BY <1>1, <3>2 DEF Said
    <3>4. Len(events') + 1 \in DOMAIN Said' /\ Said'[Len(events') + 1] = e
      BY <1>1, <3>3
    <3> QED
      BY <3>1, <3>4 DEF Completes
  <2> HIDE DEF e, yes, no
  <2>5. CASE toDev' = Append(toDev, no)
    BY <2>2, <2>3, <2>5 DEF Replies
  <2>6. CASE toDev' = Append(toDev, yes) /\ telling'.event = <<e>>
    BY <2>2, <2>3, <2>4, <2>6 DEF Replies
  <2> QED
    BY <2>2, <2>5, <2>6 DEF Replies
<1> QED
  BY <1>3, <1>4, <1>5 DEF HandleDatagram

(* An answer more, and one less. *)
LEMMA AnswersAre ==
  ASSUME Types
  PROVE  /\ DOMAIN toDev = 1 .. Len(toDev) /\ Len(toDev) \in Nat
         /\ \A a : toDev' = Append(toDev, a) =>
              /\ DOMAIN toDev' = 1 .. Len(toDev) + 1 /\ toDev'[Len(toDev) + 1] = a
              /\ \A i \in DOMAIN toDev : toDev'[i] = toDev[i]
         /\ toDev # <<>> /\ toDev' = Tail(toDev) =>
              /\ 1 \in DOMAIN toDev
              /\ \A i \in DOMAIN toDev' :
                   i \in Nat \ {0} /\ i + 1 \in DOMAIN toDev /\ toDev'[i] = toDev[i + 1]
<1>1. toDev \in Seq(Answers)
  BY DEF Types, StreamTypes
<1> QED
  BY <1>1

(* What the handler answers is on the transfer the device is busy with. *)
LEMMA RepliesFit ==
  ASSUME Types, ReadsOne, Ordered, NEW a \in Answers, NEW id \in Ids, First.id = id,
         IsContent(First), Held(First.id), a.n = active[First.id].n,
         Busy(id), ~ AwaitsSetup(dev[id].n)
  PROVE  a.n = dev[id].n
<1>1. First.cmd # "Setup" /\ 1 \in Indices /\ First = fromDev[1]
  BY TailIs DEF ReadsOne, First, IsContent
<1>2. First.n = active[First.id].n
  BY <1>1, FirstIsHeld DEF Ordered
<1>3. First.n = dev[id].n
  BY <1>1 DEF Ordered, DeviceOrdered, AwaitsSetup
<1> QED
  BY <1>2, <1>3

LEMMA AnsweredReads ==
  ASSUME Types, ReadsOne, Replies, Once, Ordered, Answered
  PROVE  Answered'
<1>0. /\ dev' = dev /\ First.id \in Ids /\ 1 \in Indices /\ First = fromDev[1] /\ 1 \in Nat
      /\ \A i \in Indices' : i + 1 \in Indices /\ fromDev'[i] = fromDev[i + 1] /\ 1 < i + 1
      /\ \A i \in DOMAIN toDev : i <= Len(toDev)
  <2>1. fromDev # <<>> /\ fromDev' = Tail(fromDev)
    BY DEF ReadsOne
  <2>2. \A i \in Indices' : 1 < i + 1
    BY <2>1, TailIs
  <2> QED
    BY <2>1, <2>2, TailIs, AnswersAre DEF ReadsOne, First, device
<1>1. ASSUME NEW n, ~ AwaitsSetup(n)
      PROVE  \A k \in Indices' : ~ (fromDev'[k].cmd = "Setup" /\ fromDev'[k].n = n)
  BY <1>0, <1>1 DEF AwaitsSetup, IsSetupOf
<1>2. SetupsFit'
  BY <1>0 DEF Answered, SetupsFit
<1>3. CASE toDev' = toDev
  <2>1. AnswersFit'
    BY <1>0, <1>1, <1>3 DEF Answered, AnswersFit, AwaitsSetup, IsSetupOf
  <2>2. StartsFit'
    BY <1>0, <1>1, <1>3 DEF Answered, StartsFit, AwaitsSetup, IsSetupOf
  <2> QED
    BY <1>2, <2>1, <2>2 DEF Answered
<1>4. ASSUME NEW a \in Answers, toDev' = Append(toDev, a), a.id = First.id,
             \/ First.cmd = "Setup" /\ a.cmd = "Start" /\ a.n = First.n
             \/ /\ IsContent(First) /\ Held(First.id)
                /\ a.cmd # "Start" /\ a.n = active[First.id].n
      PROVE  Answered'
  <2> DEFINE l == Len(toDev) + 1
             id == First.id
  <2>1. /\ DOMAIN toDev' = 1 .. l /\ toDev'[l] = a /\ DOMAIN toDev = 1 .. Len(toDev)
        /\ \A i \in DOMAIN toDev : toDev'[i] = toDev[i] /\ i < l
        /\ \A i \in DOMAIN toDev' : i = l \/ i \in DOMAIN toDev
        /\ \A i \in DOMAIN toDev' : ~ (l < i)
    <3>1. /\ DOMAIN toDev = 1 .. Len(toDev) /\ Len(toDev) \in Nat
          /\ DOMAIN toDev' = 1 .. l /\ toDev'[l] = a
          /\ \A i \in DOMAIN toDev : toDev'[i] = toDev[i]
      BY <1>4, AnswersAre
    <3>2. /\ \A i \in 1 .. Len(toDev) : i < l
          /\ \A i \in 1 .. l : (i = l \/ i \in 1 .. Len(toDev)) /\ ~ (l < i)
      BY <3>1
    <3> QED
      BY <3>1, <3>2
  <2> HIDE DEF l
  <2>2. ASSUME First.cmd = "Setup"
        PROVE  /\ dev[id].state = "setup" /\ First.n = dev[id].n
               /\ \A i \in DOMAIN toDev : toDev[i].id = id => toDev[i].cmd # "Start"
               /\ \A k \in Indices' : ~ (fromDev'[k].cmd = "Setup" /\ fromDev'[k].n = dev[id].n)
    <3>1. dev[id].state = "setup" /\ First.n = dev[id].n
      BY <1>0, <2>2 DEF Answered, SetupsFit
    <3>2. AwaitsSetup(dev[id].n)
      BY <1>0, <2>2, <3>1 DEF AwaitsSetup, IsSetupOf
    <3>3. \A k \in Indices' : ~ (fromDev'[k].cmd = "Setup" /\ fromDev'[k].n = dev[id].n)
      BY <1>0, <3>1 DEF Once
    <3> QED
      BY <1>0, <3>1, <3>2, <3>3 DEF Answered, StartsFit
  <2>3. ASSUME Busy(id), ~ AwaitsSetup(dev[id].n), First.cmd # "Setup"
        PROVE  a.n = dev[id].n /\ a.cmd # "Start"
    BY <1>0, <1>4, <2>3, RepliesFit
  <2>4. AnswersFit'
    <3> SUFFICES ASSUME NEW o \in Ids, dev[o].state \in {"sending", "sent"}
                 PROVE  /\ \A k \in Indices' : ~ (fromDev'[k].cmd = "Setup" /\ fromDev'[k].n = dev[o].n)
                        /\ \A i \in DOMAIN toDev' : toDev'[i].id = o =>
                             toDev'[i].n = dev[o].n /\ toDev'[i].cmd # "Start"
      BY <1>0 DEF AnswersFit, AwaitsSetup, IsSetupOf
    <3>1. ~ AwaitsSetup(dev[o].n) /\ Busy(o)
      BY DEF Answered, AnswersFit, Busy
    <3>2. \A i \in DOMAIN toDev : toDev[i].id = o => toDev[i].n = dev[o].n /\ toDev[i].cmd # "Start"
      BY DEF Answered, AnswersFit
    <3>3. o = id => a.n = dev[o].n /\ a.cmd # "Start"
      BY <2>2, <2>3, <3>1
    <3> QED
      BY <1>1, <1>4, <2>1, <3>1, <3>2, <3>3
  <2>5. StartsFit'
    <3> SUFFICES ASSUME NEW o \in Ids, NEW i \in DOMAIN toDev',
                        toDev'[i].id = o, toDev'[i].cmd = "Start"
                 PROVE  /\ dev[o].state = "setup" /\ toDev'[i].n = dev[o].n
                        /\ \A k \in Indices' : ~ (fromDev'[k].cmd = "Setup" /\ fromDev'[k].n = dev[o].n)
                        /\ \A j \in DOMAIN toDev' : i < j /\ toDev'[j].id = o =>
                             toDev'[j].n = dev[o].n /\ toDev'[j].cmd # "Start"
      BY <1>0 DEF StartsFit, AwaitsSetup, IsSetupOf
    <3>1. CASE i = l
      <4>1. o = id /\ First.cmd = "Setup" /\ a.n = First.n
        BY <1>4, <2>1, <3>1
      <4> QED
        BY <2>1, <2>2, <3>1, <4>1
    <3>2. CASE i # l
      <4>1. i \in DOMAIN toDev /\ toDev[i].id = o /\ toDev[i].cmd = "Start" /\ toDev'[i] = toDev[i]
        BY <2>1, <3>2
      <4>2. /\ dev[o].state = "setup" /\ toDev[i].n = dev[o].n /\ ~ AwaitsSetup(dev[o].n)
            /\ \A j \in DOMAIN toDev : i < j /\ toDev[j].id = o =>
                 toDev[j].n = dev[o].n /\ toDev[j].cmd # "Start"
        BY <4>1 DEF Answered, StartsFit
      <4>3. o = id => a.n = dev[o].n /\ a.cmd # "Start"
        <5>1. ASSUME o = id PROVE First.cmd # "Setup" /\ Busy(id) /\ ~ AwaitsSetup(dev[id].n)
          BY <2>2, <4>1, <4>2, <5>1 DEF Busy
        <5> QED
          BY <2>3, <5>1
      <4> QED
        BY <1>1, <1>4, <2>1, <4>1, <4>2, <4>3
    <3> QED
      BY <3>1, <3>2
  <2> QED
    BY <1>2, <2>4, <2>5 DEF Answered
<1> QED
  BY <1>3, <1>4 DEF Replies

LEMMA AnsweredSits ==
  ASSUME ReadsNothing, Answered
  PROVE  Answered'
<1>1. dev' = dev /\ toDev' = toDev /\ fromDev' = fromDev /\ Indices' = Indices
  BY DEF ReadsNothing, device, Indices
<1> QED
  BY <1>1 DEF Answered, AnswersFit, StartsFit, SetupsFit, AwaitsSetup, IsSetupOf

LEMMA AnsweredSetup ==
  ASSUME Types, NEW id \in Ids, NEW f \in Files, SetsNext(id, f), MayGiveUp(id), ~ work.hasty,
         Answered
  PROVE  Answered'
<1> DEFINE n == Len(file) + 1
           l == Len(fromDev) + 1
           d == Datagram(id, "Setup", n, f.size, <<>>)
           e == [state |-> "setup", n |-> n, sent |-> 0]
<1>1. /\ Sends(d) /\ d.n = n /\ d.cmd = "Setup" /\ d.id = id /\ toDev' = toDev
      /\ dev' = [dev EXCEPT ![id] = e] /\ e.n = n /\ e.state = "setup" /\ dev \in [Ids -> Devices]
      /\ dev[id].state # "setup"
  BY DEF SetsNext, Datagram, Types, DeviceTypes, MayGiveUp
<1>2. \A o \in Ids : dev[o].state # "idle" => dev[o].n # n
  BY FileGrows DEF SetsNext, Types, DeviceFits
<1> HIDE DEF d, e, n
<1>3. /\ fromDev'[l] = d /\ \A i \in Indices' : i = l \/ (i \in Indices /\ fromDev'[i] = fromDev[i])
  BY <1>1, SentIs
<1>4. /\ dev'[id].n = n /\ dev'[id].state = "setup" /\ \A o \in Ids : o # id => dev'[o] = dev[o]
  BY <1>1
<1> HIDE DEF l
<1>5. \A i \in DOMAIN toDev : toDev[i].id = id => toDev[i].cmd # "Start"
  BY <1>1 DEF Answered, StartsFit
<1>6. \A i \in Indices : ~ (fromDev[i].id = id /\ fromDev[i].cmd = "Setup")
  BY <1>1 DEF Answered, SetupsFit
<1>7. ASSUME NEW o \in Ids, o # id, dev[o].state # "idle", ~ AwaitsSetup(dev[o].n)
      PROVE  \A k \in Indices' : ~ (fromDev'[k].cmd = "Setup" /\ fromDev'[k].n = dev[o].n)
  BY <1>1, <1>2, <1>3, <1>7 DEF AwaitsSetup, IsSetupOf
<1>8. SetupsFit'
  <2> SUFFICES ASSUME NEW o \in Ids, NEW i \in Indices',
                      fromDev'[i].id = o, fromDev'[i].cmd = "Setup"
               PROVE  dev'[o].state = "setup" /\ fromDev'[i].n = dev'[o].n
    BY DEF SetupsFit
  <2> QED
    BY <1>1, <1>3, <1>4, <1>6 DEF Answered, SetupsFit
<1>9. AnswersFit'
  <2> SUFFICES ASSUME NEW o \in Ids, dev'[o].state \in {"sending", "sent"}
               PROVE  /\ \A k \in Indices' : ~ (fromDev'[k].cmd = "Setup" /\ fromDev'[k].n = dev'[o].n)
                      /\ \A i \in DOMAIN toDev : toDev[i].id = o =>
                           toDev[i].n = dev'[o].n /\ toDev[i].cmd # "Start"
    BY <1>1 DEF AnswersFit, AwaitsSetup, IsSetupOf
  <2>1. o # id /\ dev'[o] = dev[o]
    BY <1>4
  <2> QED
    BY <1>7, <2>1 DEF Answered, AnswersFit
<1>10. StartsFit'
  <2> SUFFICES ASSUME NEW o \in Ids, NEW i \in DOMAIN toDev, toDev[i].id = o, toDev[i].cmd = "Start"
               PROVE  /\ dev'[o].state = "setup" /\ toDev[i].n = dev'[o].n
                      /\ \A k \in Indices' : ~ (fromDev'[k].cmd = "Setup" /\ fromDev'[k].n = dev'[o].n)
                      /\ \A j \in DOMAIN toDev : i < j /\ toDev[j].id = o =>
                           toDev[j].n = dev'[o].n /\ toDev[j].cmd # "Start"
    BY <1>1 DEF StartsFit, AwaitsSetup, IsSetupOf
  <2>1. o # id /\ dev'[o] = dev[o]
    BY <1>4, <1>5
  <2> QED
    BY <1>7, <2>1 DEF Answered, StartsFit
<1> QED
  BY <1>8, <1>9, <1>10 DEF Answered

LEMMA AnsweredSays ==
  ASSUME Types, NEW id \in Ids, NEW d \in Datagrams, Says(id, d), ~ work.hasty, Answered
  PROVE  Answered'
<1> DEFINE l == Len(fromDev) + 1
<1>1. /\ Sends(d) /\ d.cmd # "Setup" /\ toDev' = toDev
      /\ \A o \in Ids : o # id => dev'[o] = dev[o]
      /\ \/ dev'[id].n = dev[id].n /\ dev'[id].state \in {"sending", "sent"}
            /\ dev[id].state = "sending"
         \/ dev' = dev
         \/ dev'[id].state = "idle" /\ dev[id].state \in {"sending", "sent"}
  <2>1. Busy(id) /\ dev[id] \in Devices
    BY DEF Says, Types, DeviceTypes
  <2>2. MayGiveUp(id) => dev[id].state \in {"sending", "sent"}
    BY <2>1 DEF MayGiveUp, Busy, Devices
  <2> QED
    BY <2>2 DEF Says
<1>2. /\ fromDev'[l] = d /\ \A i \in Indices' : i = l \/ (i \in Indices /\ fromDev'[i] = fromDev[i])
  BY <1>1, SentIs
<1> HIDE DEF l
<1>3. ASSUME NEW n, ~ AwaitsSetup(n)
      PROVE  \A k \in Indices' : ~ (fromDev'[k].cmd = "Setup" /\ fromDev'[k].n = n)
  BY <1>1, <1>2, <1>3 DEF AwaitsSetup, IsSetupOf
<1>4. \A o \in Ids : \/ dev'[o].n = dev[o].n /\ dev'[o].state = dev[o].state
                     \/ /\ dev[o].state \in {"sending", "sent"}
                        /\ dev'[o].state = "idle" \/ (/\ dev'[o].state \in {"sending", "sent"}
                                                      /\ dev'[o].n = dev[o].n)
  BY <1>1
<1>5. SetupsFit'
  <2> SUFFICES ASSUME NEW o \in Ids, NEW i \in Indices',
                      fromDev'[i].id = o, fromDev'[i].cmd = "Setup"
               PROVE  dev'[o].state = "setup" /\ fromDev'[i].n = dev'[o].n
    BY DEF SetupsFit
  <2>1. dev[o].state = "setup" /\ fromDev'[i].n = dev[o].n
    BY <1>1, <1>2 DEF Answered, SetupsFit
  <2> QED
    BY <1>4, <2>1
<1>6. AnswersFit'
  <2> SUFFICES ASSUME NEW o \in Ids, dev'[o].state \in {"sending", "sent"}
               PROVE  /\ \A k \in Indices' : ~ (fromDev'[k].cmd = "Setup" /\ fromDev'[k].n = dev'[o].n)
                      /\ \A i \in DOMAIN toDev : toDev[i].id = o =>
                           toDev[i].n = dev'[o].n /\ toDev[i].cmd # "Start"
    BY <1>1 DEF AnswersFit, AwaitsSetup, IsSetupOf
  <2>1. dev[o].state \in {"sending", "sent"} /\ dev'[o].n = dev[o].n
    BY <1>4
  <2> QED
    BY <1>3, <2>1 DEF Answered, AnswersFit
<1>7. StartsFit'
  <2> SUFFICES ASSUME NEW o \in Ids, NEW i \in DOMAIN toDev, toDev[i].id = o, toDev[i].cmd = "Start"
               PROVE  /\ dev'[o].state = "setup" /\ toDev[i].n = dev'[o].n
                      /\ \A k \in Indices' : ~ (fromDev'[k].cmd = "Setup" /\ fromDev'[k].n = dev'[o].n)
                      /\ \A j \in DOMAIN toDev : i < j /\ toDev[j].id = o =>
                           toDev[j].n = dev'[o].n /\ toDev[j].cmd # "Start"
    BY <1>1 DEF StartsFit, AwaitsSetup, IsSetupOf
  <2>1. dev[o].state = "setup"
    BY DEF Answered, StartsFit
  <2>2. dev'[o].n = dev[o].n /\ dev'[o].state = dev[o].state
    BY <1>4, <2>1
  <2> QED
    BY <1>3, <2>2 DEF Answered, StartsFit
<1> QED
  BY <1>5, <1>6, <1>7 DEF Answered

LEMMA AnsweredHears ==
  ASSUME Types, DevAnswer, ~ work.hasty, Answered
  PROVE  Answered'
<1> DEFINE a == toDev[1]
           id == a.id
           d == dev[id]
           g == [d EXCEPT !.state = "sending"]
<1>1. /\ a \in Answers /\ id \in Ids /\ 1 \in DOMAIN toDev /\ d \in Devices
      /\ fromDev' = fromDev /\ Indices' = Indices /\ dev \in [Ids -> Devices]
      /\ \/ a.cmd = "Start" /\ d.state = "setup" /\ dev' = [dev EXCEPT ![id] = g]
         \/ d.state # "idle" /\ d.state # "setup" /\ dev' = [dev EXCEPT ![id] = Idle]
         \/ dev' = dev
  BY AnswerIs, AnswersAre DEF MayGiveUp, Types, DeviceTypes, Indices
<1>2. \A i \in DOMAIN toDev' :
        i \in Nat \ {0} /\ i + 1 \in DOMAIN toDev /\ toDev'[i] = toDev[i + 1] /\ 1 < i + 1
  <2>1. \A i \in DOMAIN toDev' :
          i \in Nat \ {0} /\ i + 1 \in DOMAIN toDev /\ toDev'[i] = toDev[i + 1]
    BY AnswerIs, AnswersAre
  <2> QED
    BY <2>1
<1>3. \A i, j \in DOMAIN toDev' : i < j => i + 1 < j + 1
  BY <1>2
<1>4. g.n = d.n /\ g.state = "sending"
  <2> HIDE DEF d
  <2> QED
    BY <1>1 DEF Devices
<1> HIDE DEF g, d, id, a
<1>5. CASE dev' = dev
  <2>1. SetupsFit' /\ AnswersFit'
    BY <1>1, <1>2, <1>5 DEF Answered, SetupsFit, AnswersFit, AwaitsSetup, IsSetupOf
  <2>2. StartsFit'
    <3> SUFFICES ASSUME NEW o \in Ids, NEW i \in DOMAIN toDev',
                        toDev'[i].id = o, toDev'[i].cmd = "Start"
                 PROVE  /\ dev[o].state = "setup" /\ toDev'[i].n = dev[o].n
                        /\ ~ AwaitsSetup(dev[o].n)
                        /\ \A j \in DOMAIN toDev' : i < j /\ toDev'[j].id = o =>
                             toDev'[j].n = dev[o].n /\ toDev'[j].cmd # "Start"
      BY <1>1, <1>5 DEF StartsFit, AwaitsSetup, IsSetupOf
    <3>1. /\ dev[o].state = "setup" /\ toDev[i + 1].n = dev[o].n /\ ~ AwaitsSetup(dev[o].n)
          /\ \A j \in DOMAIN toDev : i + 1 < j /\ toDev[j].id = o =>
               toDev[j].n = dev[o].n /\ toDev[j].cmd # "Start"
      BY <1>2 DEF Answered, StartsFit
    <3> QED
      BY <1>2, <1>3, <3>1
  <2> QED
    BY <2>1, <2>2 DEF Answered
<1>6. ASSUME NEW e, dev' = [dev EXCEPT ![id] = e],
             \/ a.cmd = "Start" /\ d.state = "setup" /\ e.n = d.n /\ e.state = "sending"
             \/ d.state \in {"sending", "sent"} /\ e.state = "idle"
      PROVE  Answered'
  <2>1. /\ dev'[id] = e /\ \A o \in Ids : o # id => dev'[o] = dev[o]
        /\ dev[id] = d /\ toDev[1] = a /\ toDev[1].id = id
    BY <1>1, <1>6 DEF d, a, id
  <2>2. /\ ~ AwaitsSetup(d.n)
        /\ \A i \in DOMAIN toDev : 1 < i /\ toDev[i].id = id => toDev[i].n = d.n /\ toDev[i].cmd # "Start"
    <3>1. CASE a.cmd = "Start"
      BY <1>1, <2>1, <3>1 DEF Answered, StartsFit
    <3>2. CASE d.state \in {"sending", "sent"}
      BY <1>1, <2>1, <3>2 DEF Answered, AnswersFit
    <3> QED
      BY <1>6, <3>1, <3>2
  <2>3. \A i \in Indices : ~ (fromDev[i].id = id /\ fromDev[i].cmd = "Setup")
    BY <1>1, <2>1, <2>2 DEF Answered, SetupsFit, AwaitsSetup, IsSetupOf
  <2>4. SetupsFit'
    <3> SUFFICES ASSUME NEW o \in Ids, NEW i \in Indices, fromDev[i].id = o, fromDev[i].cmd = "Setup"
                 PROVE  dev'[o].state = "setup" /\ fromDev[i].n = dev'[o].n
      BY <1>1 DEF SetupsFit
    <3> QED
      BY <2>1, <2>3 DEF Answered, SetupsFit
  <2>5. AnswersFit'
    <3> SUFFICES ASSUME NEW o \in Ids, dev'[o].state \in {"sending", "sent"}
                 PROVE  /\ \A k \in Indices : ~ (fromDev[k].cmd = "Setup" /\ fromDev[k].n = dev'[o].n)
                        /\ \A i \in DOMAIN toDev' : toDev'[i].id = o =>
                             toDev'[i].n = dev'[o].n /\ toDev'[i].cmd # "Start"
      BY <1>1 DEF AnswersFit, AwaitsSetup, IsSetupOf
    <3>1. CASE o = id
      <4>1. e.n = d.n
        BY <1>6, <2>1, <3>1
      <4> QED
        BY <1>2, <2>1, <2>2, <3>1, <4>1 DEF AwaitsSetup, IsSetupOf
    <3>2. CASE o # id
      BY <1>2, <2>1, <3>2 DEF Answered, AnswersFit, AwaitsSetup, IsSetupOf
    <3> QED
      BY <3>1, <3>2
  <2>6. StartsFit'
    <3> SUFFICES ASSUME NEW o \in Ids, NEW i \in DOMAIN toDev',
                        toDev'[i].id = o, toDev'[i].cmd = "Start"
                 PROVE  /\ dev'[o].state = "setup" /\ toDev'[i].n = dev'[o].n
                        /\ \A k \in Indices : ~ (fromDev[k].cmd = "Setup" /\ fromDev[k].n = dev'[o].n)
                        /\ \A j \in DOMAIN toDev' : i < j /\ toDev'[j].id = o =>
                             toDev'[j].n = dev'[o].n /\ toDev'[j].cmd # "Start"
      BY <1>1 DEF StartsFit, AwaitsSetup, IsSetupOf
    <3>1. o # id
      BY <1>2, <2>2
    <3>2. /\ dev[o].state = "setup" /\ toDev[i + 1].n = dev[o].n /\ ~ AwaitsSetup(dev[o].n)
          /\ \A j \in DOMAIN toDev : i + 1 < j /\ toDev[j].id = o =>
               toDev[j].n = dev[o].n /\ toDev[j].cmd # "Start"
      BY <1>2 DEF Answered, StartsFit
    <3>3. dev'[o] = dev[o]
      BY <2>1, <3>1
    <3> QED
      BY <1>2, <1>3, <3>2, <3>3 DEF AwaitsSetup, IsSetupOf
  <2> QED
    BY <2>4, <2>5, <2>6 DEF Answered
<1>7. Idle.state = "idle"
  BY DEF Idle
<1> QED
  <2>1. d.state \in {"idle", "setup", "sending", "sent"}
    BY <1>1 DEF Devices
  <2>2. CASE a.cmd = "Start" /\ d.state = "setup" /\ dev' = [dev EXCEPT ![id] = g]
    BY <1>4, <1>6, <2>2
  <2>3. CASE d.state # "idle" /\ d.state # "setup" /\ dev' = [dev EXCEPT ![id] = Idle]
    BY <1>6, <1>7, <2>1, <2>3
  <2> QED
    BY <1>1, <1>5, <2>2, <2>3

(* What is complete stays so, unless the connection ends. *)
LEMMA CompletesStays ==
  ASSUME Types, ReadsOne \/ ReadsNothing \/ Quiet, NEW n, Completes(Said, n) \/ pc = "down"
  PROVE  Completes(Said', n) \/ pc' = "down"
<1>0. Said \in Seq(Events)
  BY SaidTypes
<1>1. ASSUME NEW told \in Seq(Events), Said' = Said \o told
      PROVE  \A i \in DOMAIN Said : i \in DOMAIN Said' /\ Said'[i] = Said[i]
  BY <1>0, <1>1
<1>2. ASSUME NEW e \in Events, Said' = Append(Said, e)
      PROVE  \A i \in DOMAIN Said : i \in DOMAIN Said' /\ Said'[i] = Said[i]
  BY <1>0, <1>2
<1>3. \/ \A i \in DOMAIN Said : i \in DOMAIN Said' /\ Said'[i] = Said[i]
      \/ pc' = "down"
  <2>1. CASE ReadsOne
    BY <1>2, <2>1 DEF ReadsOne, SetsUp, Drops, Skips, Takes, Decides
  <2>2. CASE ReadsNothing
    BY <1>1, <2>2 DEF ReadsNothing, Keeps, Sweeps
  <2>3. CASE Quiet
    BY <2>3, QuietSays
  <2> QED
    BY <2>1, <2>2, <2>3
<1>4. pc = "down" => pc' = "down"
  BY DEF ReadsOne, ReadsNothing, Quiet
<1> QED
  BY <1>3, <1>4 DEF Completes

LEMMA TruthfulReads ==
  ASSUME Types, ReadsOne, Replies, Truthful
  PROVE  Truthful'
<1>1. \A n : Completes(Said, n) \/ pc = "down" => Completes(Said', n) \/ pc' = "down"
  BY CompletesStays
<1>2. work' = work /\ believed' = believed
  BY DEF ReadsOne, device
<1>3. CASE toDev' = toDev
  BY <1>1, <1>2, <1>3 DEF Truthful
<1>4. ASSUME NEW a, toDev' = Append(toDev, a), a.cmd = "Success" => Completes(Said', a.n)
      PROVE  Truthful'
  <2>1. \A i \in DOMAIN toDev' : (i \in DOMAIN toDev /\ toDev'[i] = toDev[i]) \/ toDev'[i] = a
    <3>1. /\ DOMAIN toDev = 1 .. Len(toDev) /\ Len(toDev) \in Nat
          /\ DOMAIN toDev' = 1 .. Len(toDev) + 1 /\ toDev'[Len(toDev) + 1] = a
          /\ \A i \in DOMAIN toDev : toDev'[i] = toDev[i]
      BY <1>4, AnswersAre
    <3> QED
      BY <3>1
  <2> QED
    BY <1>1, <1>2, <1>4, <2>1 DEF Truthful
<1> QED
  BY <1>3, <1>4 DEF Replies

LEMMA TruthfulHears ==
  ASSUME Types, DevAnswer, Quiet, Truthful, work.hasty \/ Answered
  PROVE  Truthful'
<1> DEFINE a == toDev[1]
           d == dev[a.id]
<1>1. /\ a.id \in Ids /\ 1 \in DOMAIN toDev /\ work' = work
      /\ \/ believed' = believed
         \/ a.cmd = "Success" /\ d.state = "sent" /\ believed' = believed \cup {d.n}
  BY AnswerIs, AnswersAre
<1>2. \A i \in DOMAIN toDev' : i + 1 \in DOMAIN toDev /\ toDev'[i] = toDev[i + 1]
  BY AnswerIs, AnswersAre
<1>3. \A n : Completes(Said, n) \/ pc = "down" => Completes(Said', n) \/ pc' = "down"
  BY CompletesStays
<1>4. ASSUME ~ work.hasty, a.cmd = "Success", d.state = "sent"
      PROVE  Completes(Said, d.n) \/ pc = "down"
  <2>1. a.n = d.n
    BY <1>1, <1>4 DEF Answered, AnswersFit
  <2> QED
    BY <1>1, <1>4, <2>1 DEF Truthful
<1> HIDE DEF a, d
<1> QED
  BY <1>1, <1>2, <1>3, <1>4 DEF Truthful

ToldInv == IInv /\ Truthful /\ (work.hasty \/ Answered)

LEMMA InitTells == Init => ToldInv
<1> SUFFICES ASSUME Init PROVE ToldInv
  OBVIOUS
<1>1. /\ toDev = <<>> /\ fromDev = <<>> /\ believed = {}
      /\ dev = [id \in Ids |-> Idle] /\ Idle.state = "idle"
  BY DEF Init, FilesInit, Idle
<1>2. Truthful /\ Answered
  BY <1>1 DEF Truthful, Answered, AnswersFit, StartsFit, SetupsFit, Indices
<1> QED
  BY <1>2, InitHolds DEF ToldInv

LEMMA StepTells == ToldInv /\ [Next]_vars => ToldInv'
<1> SUFFICES ASSUME ToldInv, [Next]_vars PROVE ToldInv'
  OBVIOUS
<1>1. IInv /\ IInv' /\ Types /\ Ordered /\ Once /\ Truthful /\ (work.hasty \/ Answered)
  BY StepHolds DEF ToldInv, IInv
<1>2. CASE HandleDatagram /\ UNCHANGED device
  <2>1. ReadsOne /\ Replies /\ work' = work
    BY <1>1, <1>2, ReadStep, ReadReplies DEF device
  <2>2. Truthful'
    BY <1>1, <2>1, TruthfulReads
  <2>3. work.hasty \/ Answered'
    BY <1>1, <2>1, AnsweredReads
  <2> QED
    BY <1>1, <2>1, <2>2, <2>3 DEF ToldInv
<1>3. CASE ReadsNothing
  <2>1. /\ work' = work /\ believed' = believed /\ toDev' = toDev
        /\ \A n : Completes(Said, n) \/ pc = "down" => Completes(Said', n) \/ pc' = "down"
    BY <1>1, <1>3, CompletesStays DEF ReadsNothing, device
  <2>2. Truthful'
    BY <1>1, <2>1 DEF Truthful
  <2>3. work.hasty \/ Answered'
    BY <1>1, <1>3, AnsweredSits
  <2> QED
    BY <1>1, <2>1, <2>2, <2>3 DEF ToldInv
<1>4. ASSUME Quiet, UNCHANGED <<toDev, work, believed>> PROVE Truthful'
  <2>1. \A n : Completes(Said, n) \/ pc = "down" => Completes(Said', n) \/ pc' = "down"
    BY <1>1, <1>4, CompletesStays
  <2> QED
    BY <1>1, <1>4, <2>1 DEF Truthful
<1>5. ASSUME NEW id \in Ids, NEW f \in Files, SetsNext(id, f), MayGiveUp(id) PROVE ToldInv'
  <2>1. Quiet /\ UNCHANGED <<toDev, work, believed>>
    BY <1>5 DEF SetsNext
  <2>2. work.hasty \/ Answered'
    BY <1>1, <1>5, AnsweredSetup
  <2> QED
    BY <1>1, <1>4, <2>1, <2>2 DEF ToldInv
<1>6. ASSUME NEW id \in Ids, NEW d \in Datagrams, Says(id, d) PROVE ToldInv'
  <2>1. Quiet /\ UNCHANGED <<toDev, work, believed>>
    BY <1>6 DEF Says
  <2>2. work.hasty \/ Answered'
    BY <1>1, <1>6, AnsweredSays
  <2> QED
    BY <1>1, <1>4, <2>1, <2>2 DEF ToldInv
<1>7. CASE DevAnswer /\ Hears
  <2>1. Quiet /\ work' = work
    BY <1>1, <1>7, AnswerIs DEF Hears
  <2>2. Truthful'
    BY <1>1, <1>7, <2>1, TruthfulHears
  <2>3. work.hasty \/ Answered'
    BY <1>1, <1>7, AnsweredHears
  <2> QED
    BY <1>1, <2>1, <2>2, <2>3 DEF ToldInv
<1>8. CASE UNCHANGED vars
  <2>1. ReadsNothing
    BY <1>1, <1>8 DEF vars, files, handler, ReadsNothing, Keeps, Held, Once, Said
  <2> QED
    BY <1>3, <2>1
<1> QED
  BY <1>1, <1>2, <1>3, <1>5, <1>6, <1>7, <1>8, CleanupStep, LoopStep, DeviceStep
     DEF Next, Handler

(* A device that waits for Start before it gives a transfer up is told     *)
(* Success for no other transfer than the one the application gets, though *)
(* the answers carry an id only and ids are used again.                    *)
THEOREM SuccessHolds == Spec => []SuccessIsComplete
<1>1. ASSUME ToldInv PROVE SuccessIsComplete
  <2>1. /\ Types /\ Once /\ Truthful /\ events \in Seq(Events) /\ telling.event \in Seq(Events)
    BY <1>1, SaidTypes DEF ToldInv, IInv
  <2> SUFFICES ASSUME ~ work.hasty, NEW n \in believed, pc # "down"
               PROVE  \/ Completed(n)
                      \/ pc = "sending" /\ \E i \in DOMAIN telling.event : telling.event[i].n = n
    BY DEF SuccessIsComplete
  <2>2. PICK i \in DOMAIN Said : Said[i].n = n /\ Said[i].kind = "Complete"
    BY <2>1 DEF Truthful, Completes
  <2>3. \/ i \in DOMAIN events /\ Said[i] = events[i]
        \/ i - Len(events) \in DOMAIN telling.event /\ Said[i] = telling.event[i - Len(events)]
    <3> DEFINE e == events
               g == telling.event
    <3> HIDE DEF e, g
    <3>1. e \in Seq(Events) /\ g \in Seq(Events) /\ i \in DOMAIN (e \o g)
      BY <2>1, <2>2 DEF e, g, Said
    <3>2. \/ i \in DOMAIN e /\ (e \o g)[i] = e[i]
          \/ i - Len(e) \in DOMAIN g /\ (e \o g)[i] = g[i - Len(e)]
      BY <3>1
    <3> QED
      BY <3>2 DEF e, g, Said
  <2>4. telling.event # <<>> => pc = "sending"
    BY <2>1 DEF Types, TypeOK, Once
  <2>5. CASE i \in DOMAIN events /\ Said[i] = events[i]
    BY <2>2, <2>5 DEF Completed
  <2>6. CASE i - Len(events) \in DOMAIN telling.event /\ Said[i] = telling.event[i - Len(events)]
    <3>1. telling.event # <<>>
      BY <2>6
    <3> QED
      BY <2>2, <2>4, <2>6, <3>1
  <2> QED
    BY <2>3, <2>5, <2>6
<1>2. Spec => []ToldInv
  BY InitTells, StepTells, PTL DEF Spec
<1> QED
  BY <1>1, <1>2, PTL
=============================================================================
