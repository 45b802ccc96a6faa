---------------------------- MODULE FileTransfer ----------------------------
(***************************************************************************)
(* File transfers from the device: FileTransferHandler of                  *)
(* src/src/session/file_transfer.rs, and the branches of the connection    *)
(* task's select! that call it (handle_file_transfer and the cleanup timer *)
(* of src/src/connection.rs).                                              *)
(*                                                                         *)
(* Contents are counted in pieces.  A piece is part i of the n-th transfer *)
(* the device sets up; the first starts with the JPEG's SOI marker, and    *)
(* tag says what else is in it: "eoi" ends with the EOI marker, "soi" has  *)
(* a further SOI marker, "body" neither.  A datagram carries at most one.  *)
(* n is a history field: datagrams and transfers carry an id only.         *)
(*                                                                         *)
(* recently_cancelled is left out: what it holds decides the level of a    *)
(* log line and nothing else.  bytes_received is Len(data).                *)
(***************************************************************************)
EXTENDS Integers, Sequences, FiniteSets

CONSTANTS
  Ids,              \* transfer ids
  TransferTimeout,  \* FileTransferConfig::transfer_timeout_secs
  CleanupInterval,  \* ConnectionConfig::cleanup_interval_secs
  MaxQueue          \* bound: datagrams in flight to the accessory

ASSUME FileTransferAssumption ==
  /\ IsFiniteSet(Ids)
  /\ {TransferTimeout, CleanupInterval} \subseteq Nat \ {0} /\ MaxQueue \in Nat

VARIABLES
  active,    \* active_transfers: by id, a transfer or None
  pc,        \* "loop" in select!, "sending" in send_data, "down" ended
  telling,   \* the datagram being sent, and the event that follows it
  events,    \* the transfer events sent to the application, oldest first
  waited,    \* time since select! was entered
  fromDev,   \* datagrams from the device, delivered in order by the link
  toDev      \* datagrams to the device

handler == <<active, pc, telling, events, waited>>
files == <<handler, fromDev, toDev>>

None == [n |-> 0]

(* Datagrams from the device, and those of the accessory. *)
Datagram(id, cmd, n, size, data) ==
  [id |-> id, cmd |-> cmd, n |-> n, size |-> size, data |-> data]

Answer(id, cmd, n) == [id |-> id, cmd |-> cmd, n |-> n]

Event(kind, id, n, data) == [kind |-> kind, id |-> id, n |-> n, data |-> data]

NoEvent == <<>>
NotTelling == [datagram |-> Answer(0, "None", 0), event |-> NoEvent]

FilesInit ==
  /\ active = [id \in Ids |-> None]
  /\ pc = "loop" /\ telling = NotTelling /\ events = <<>> /\ waited = 0
  /\ fromDev = <<>> /\ toDev = <<>>

-----------------------------------------------------------------------------
(* The contents of a transfer                                              *)

Ends(data) == {i \in DOMAIN data : data[i].tag = "eoi"}

EndOf(data) == CHOOSE e \in Ends(data) : \A i \in Ends(data) : e <= i

HasSOI(piece) == piece.i = 1 \/ piece.tag = "soi"

(* sanitize_artwork returns an error: no SOI at the start, no EOI, or a    *)
(* second image behind the first.  (What is inside a segment or a scan is  *)
(* not looked at, so a "soi" before the EOI does not count.)               *)
Broken(data, size) ==
  IF data = <<>> THEN size # 0
  ELSE \/ ~ HasSOI(data[1])
       \/ Ends(data) = {}
       \/ \E e \in Ends(data), i \in DOMAIN data : i > e /\ HasSOI(data[i])

(* Bytes behind the EOI are trimmed. *)
Sanitized(data) == IF data = <<>> THEN <<>> ELSE SubSeq(data, 1, EndOf(data))

-----------------------------------------------------------------------------
(* Talking to the device                                                   *)

(* send_data: the datagram is written, and its ack waited for, before the  *)
(* handler goes on.  A write that fails ends the connection task.          *)
Tell(datagram, event) ==
  \/ /\ toDev' = Append(toDev, datagram)
     /\ telling' = [datagram |-> datagram, event |-> event]
     /\ pc' = "sending"
     /\ UNCHANGED waited
  \/ pc' = "down" /\ UNCHANGED <<toDev, telling, waited>>

(* Mutant: the event is forgotten. *)
TellingSilently == NoEvent

Announced == telling.event

(* The send was acked: the handler returns and select! is entered again.   *)
TellDone ==
  /\ pc = "sending"
  /\ events' = events \o Announced
  /\ pc' = "loop" /\ telling' = NotTelling /\ waited' = 0
  /\ UNCHANGED <<active, fromDev, toDev>>

(* It was not: the error of send_data ends the connection task.            *)
TellFails ==
  /\ pc = "sending"
  /\ pc' = "down" /\ telling' = NotTelling
  /\ UNCHANGED <<active, events, waited, fromDev, toDev>>

-----------------------------------------------------------------------------
(* handle_datagram                                                         *)

(* Mutant: the other transfers are removed too. *)
RemoveAll(id) == active' = [i \in Ids |-> None]

Remove(id) == active' = [active EXCEPT ![id] = None]

(* receive_data of the link returns the next datagram. *)
Receives(d) ==
  /\ pc = "loop" /\ fromDev # <<>> /\ d = Head(fromDev)
  /\ fromDev' = Tail(fromDev)

Arrived == IF fromDev = <<>> THEN {} ELSE {Head(fromDev)}

(* handle_datagram returns without sending: select! is entered again. *)
Pending == pc' = "loop" /\ waited' = 0 /\ UNCHANGED <<telling, toDev>>

(* Mutant: what an earlier transfer of this id has received is kept. *)
FreshKeeping(d) ==
  [n |-> d.n, size |-> d.size, state |-> "Setup", age |-> 0,
   data |-> IF active[d.id] = None THEN <<>> ELSE active[d.id].data]

Fresh(d) ==
  [n |-> d.n, size |-> d.size, state |-> "Setup", age |-> 0, data |-> <<>>]

(* A transfer of the same id is replaced, and nobody is told. *)
HandleSetup ==
  /\ \E d \in Arrived :
       /\ Receives(d) /\ d.cmd = "Setup"
       /\ active' = [active EXCEPT ![d.id] = Fresh(d)]
       /\ Tell(Answer(d.id, "Start", d.n), NoEvent)
  /\ UNCHANGED events

HandleCancel ==
  /\ \E d \in Arrived : Receives(d) /\ d.cmd = "Cancel" /\ Remove(d.id)
  /\ Pending
  /\ UNCHANGED events

IsContent(d) == d.cmd \in {"First", "Data", "Last", "Only"}

(* Contents of no known transfer are ignored, as are a Pause and anything  *)
(* unknown.                                                                *)
HandleIgnored ==
  /\ \E d \in Arrived :
       /\ Receives(d)
       /\ d.cmd = "Pause" \/ (IsContent(d) /\ active[d.id] = None)
  /\ Pending
  /\ UNCHANGED <<active, events>>

(* Mutant: a transfer may exceed its declared size by one. *)
ExceedsByTwo(t, d) == t.size > 0 /\ Len(t.data) + Len(d.data) > t.size + 1

(* FirstAndOnlyData is compared without what was received before. *)
Exceeds(t, d) ==
  t.size > 0 /\ (IF d.cmd = "Only" THEN 0 ELSE Len(t.data)) + Len(d.data) > t.size

(* FirstAndOnlyData is taken in either state. *)
WrongState(t, d) ==
  \/ d.cmd = "First" /\ t.state # "Setup"
  \/ d.cmd \in {"Data", "Last"} /\ t.state # "Receiving"

IsLast(d) == d.cmd \in {"Last", "Only"}

Whole(t, d) == t.data \o d.data

Incomplete(t, d) == t.size > 0 /\ Len(Whole(t, d)) # t.size

Refused(t, d) ==
  \/ WrongState(t, d) \/ Exceeds(t, d)
  \/ IsLast(d) /\ (Incomplete(t, d) \/ Broken(Whole(t, d), t.size))

(* Mutant: the device is not told. *)
ReportQuietly(d, t) == Pending

Report(d, t) ==
  Tell(Answer(d.id, "Failure", t.n), <<Event("Corrupted", d.id, t.n, <<>>)>>)

(* The transfer is dropped, the device told Failure, the application that  *)
(* the transfer is corrupted.                                              *)
HandleRefused ==
  /\ \E d \in Arrived :
       /\ Receives(d) /\ IsContent(d) /\ active[d.id] # None
       /\ Refused(active[d.id], d)
       /\ Remove(d.id)
       /\ Report(d, active[d.id])
  /\ UNCHANGED events

(* Mutant: the state is taken for complete too early. *)
GrownComplete(t, d) == [t EXCEPT !.data = Whole(t, d), !.state = "Complete"]

Grown(t, d) == [t EXCEPT !.data = Whole(t, d), !.state = "Receiving"]

(* handle_first_data and handle_data. *)
HandleContent ==
  /\ \E d \in Arrived :
       /\ Receives(d) /\ IsContent(d) /\ ~ IsLast(d) /\ active[d.id] # None
       /\ ~ Refused(active[d.id], d)
       /\ active' = [active EXCEPT ![d.id] = Grown(active[d.id], d)]
  /\ Pending
  /\ UNCHANGED events

(* handle_last_data and handle_first_and_only. *)
HandleLast ==
  /\ \E d \in Arrived :
       /\ Receives(d) /\ IsLast(d) /\ active[d.id] # None
       /\ ~ Refused(active[d.id], d)
       /\ Remove(d.id)
       /\ LET t == active[d.id]
          IN  Tell(Answer(d.id, "Success", t.n),
                   <<Event("Complete", d.id, t.n, Sanitized(Whole(t, d)))>>)
  /\ UNCHANGED events

-----------------------------------------------------------------------------
(* The timer of the select!                                                *)

(* Mutant: a transfer that has received nothing is not stale. *)
IsStaleReceiving(t) == t # None /\ t.age >= TransferTimeout /\ t.state = "Receiving"

IsStale(t) == t # None /\ t.age >= TransferTimeout

(* Mutant: stale transfers are reported and kept. *)
WithoutKeeping(stale) == active

Without(stale) == [id \in Ids |-> IF id \in stale THEN None ELSE active[id]]

(* The orders in which a HashMap may yield its entries. *)
Orders(stale) ==
  {q \in [1 .. Cardinality(stale) -> stale] :
     \A i, j \in DOMAIN q : i # j => q[i] # q[j]}

(* What a branch does besides may have it send: the loop waits for the ack *)
(* then, as it does for a datagram of this session.                        *)
MaySend == pc' \in {"loop", "sending"} /\ waited' = 0

(* cleanup_stale, when the sleep of this turn of the loop has run out: the *)
(* application is told of each stale transfer, the device is not.  The     *)
(* branch sends a keepalive if nothing was received for long enough.       *)
Cleanup ==
  /\ pc = "loop" /\ waited >= CleanupInterval
  /\ LET stale == {id \in Ids : IsStale(active[id])}
     IN  /\ active' = Without(stale)
         /\ \E q \in Orders(stale) :
              events' = events \o
                [i \in DOMAIN q |-> Event("Corrupted", q[i], active[q[i]].n, <<>>)]
  /\ MaySend
  /\ UNCHANGED <<telling, fromDev, toDev>>

(* Any other branch: a message of another session, data or a command of    *)
(* the application.  The next turn of the loop makes a new sleep.          *)
OtherBranch ==
  /\ pc = "loop" /\ MaySend
  /\ UNCHANGED <<active, telling, events, fromDev, toDev>>

(* A second, or whatever the unit of the constants is, goes by. *)
Tick ==
  /\ pc # "down"
  /\ active' = [id \in Ids |->
       IF active[id] # None /\ active[id].age < TransferTimeout
       THEN [active[id] EXCEPT !.age = @ + 1] ELSE active[id]]
  /\ waited' = IF pc = "loop" /\ waited < CleanupInterval THEN waited + 1 ELSE waited
  /\ UNCHANGED <<pc, telling, events, fromDev, toDev>>

(* An error of receive_data, or the application's stop. *)
ConnectionEnds ==
  /\ pc = "loop" /\ pc' = "down"
  /\ UNCHANGED <<active, telling, events, waited, fromDev, toDev>>

-----------------------------------------------------------------------------
HandleDatagram ==
  \/ HandleSetup \/ HandleCancel \/ HandleIgnored \/ HandleRefused
  \/ HandleContent \/ HandleLast

Handler ==
  \/ HandleDatagram \/ TellDone \/ TellFails \/ Cleanup \/ OtherBranch
  \/ ConnectionEnds
=============================================================================
