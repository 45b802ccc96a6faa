------------------------- MODULE FileTransferSystem -------------------------
(***************************************************************************)
(* File transfers between a device and the accessory (FileTransfer).  The  *)
(* device is not in the repository: it sets a transfer up, waits for       *)
(* Start, sends the contents, and waits for Success or Failure.  It may    *)
(* cancel at any time, or give a transfer up by setting up the next with   *)
(* the same id, and it may stop in the middle.  It ignores an answer that  *)
(* does not fit what it is doing.  The declared size may be unknown (0) or *)
(* wrong, the contents may be no JPEG.  The link delivers what the device  *)
(* sends in order and once (Link, MessageChannel).                         *)
(***************************************************************************)
EXTENDS FileTransfer

CONSTANTS
  Workloads,  \* what a device may do in one behaviour, see below
  MaxSetups   \* bound: transfers set up

Tags == {"body", "eoi", "soi"}

(* A workload: the ids the device uses, the contents its files may have    *)
(* (sequences of the tags of their pieces), whether it may declare a wrong *)
(* size, whether it is hasty (gives a transfer up before it is answered    *)
(* with Start), and bounds on its Setups and Pauses.                       *)
ASSUME FileTransferSystemAssumption ==
  /\ \A w \in Workloads :
       /\ w.ids \subseteq Ids /\ w.contents \subseteq Seq(Tags)
       /\ {w.wrong, w.hasty} \subseteq BOOLEAN
       /\ w.setups \in 0 .. MaxSetups /\ w.pauses \in Nat
  /\ MaxSetups \in Nat

VARIABLES
  work,      \* the workload of this behaviour
  dev,       \* by id: what the device is doing, with which transfer, how far
  file,      \* by transfer: its contents and declared size
  believed,  \* transfers the device was told Success for
  pauses     \* Pauses sent

device == <<work, dev, file, believed, pauses>>
vars == <<files, device>>

Idle == [state |-> "idle", n |-> 0, sent |-> 0]

Init ==
  /\ FilesInit /\ work \in Workloads
  /\ dev = [id \in Ids |-> Idle]
  /\ file = <<>> /\ believed = {} /\ pauses = 0

Room == Len(fromDev) < MaxQueue

Sends(d) == fromDev' = Append(fromDev, d)

(* Piece i of transfer n, and its first k pieces. *)
Piece(n, i) == [n |-> n, i |-> i, tag |-> file[n].tags[i]]
Prefix(n, k) == [i \in 1 .. k |-> Piece(n, i)]

Length(n) == Len(file[n].tags)

-----------------------------------------------------------------------------
(* Unknown (0) or right, or too large or too small. *)
SizesOf(tags) ==
  {0, Len(tags)} \cup IF work.wrong THEN {Len(tags) + 1, 1} ELSE {}

(* The device may give up what it is doing with this id.  One that is not  *)
(* hasty waits for Start; a Failure that comes before it can only be the   *)
(* answer to an earlier transfer, for every Setup is answered with Start.  *)
MayGiveUp(id) == dev[id].state # "setup" \/ work.hasty

(* A new transfer, also in place of one that is not finished. *)
DevSetup(id) ==
  /\ Len(file) < work.setups /\ Room /\ MayGiveUp(id)
  /\ \E tags \in work.contents : \E size \in SizesOf(tags) :
       LET n == Len(file) + 1
       IN  /\ file' = Append(file, [tags |-> tags, size |-> size])
           /\ dev' = [dev EXCEPT ![id] = [state |-> "setup", n |-> n, sent |-> 0]]
           /\ Sends(Datagram(id, "Setup", n, size, <<>>))
  /\ UNCHANGED <<handler, work, toDev, believed, pauses>>

(* The next piece.  Contents of at most one piece go in one datagram. *)
DevContent(id) ==
  /\ dev[id].state = "sending" /\ Room
  /\ LET n == dev[id].n
         k == IF Length(n) = 0 THEN 0 ELSE dev[id].sent + 1
         cmd == IF Length(n) <= 1 THEN "Only"
                ELSE IF k = 1 THEN "First"
                ELSE IF k < Length(n) THEN "Data" ELSE "Last"
     IN  /\ Sends(Datagram(id, cmd, n, 0, IF k = 0 THEN <<>> ELSE <<Piece(n, k)>>))
         /\ dev' = [dev EXCEPT ![id].sent = k,
                               ![id].state = IF IsLast([cmd |-> cmd]) THEN "sent" ELSE @]
  /\ UNCHANGED <<handler, work, toDev, file, believed, pauses>>

DevCancel(id) ==
  /\ dev[id].state # "idle" /\ Room /\ MayGiveUp(id)
  /\ dev' = [dev EXCEPT ![id] = Idle]
  /\ Sends(Datagram(id, "Cancel", dev[id].n, 0, <<>>))
  /\ UNCHANGED <<handler, work, toDev, file, believed, pauses>>

DevPause(id) ==
  /\ dev[id].state = "sending" /\ pauses < work.pauses /\ Room
  /\ pauses' = pauses + 1
  /\ Sends(Datagram(id, "Pause", dev[id].n, 0, <<>>))
  /\ UNCHANGED <<handler, work, toDev, dev, file, believed>>

(* An answer names an id only. *)
DevAnswer ==
  /\ toDev # <<>> /\ toDev' = Tail(toDev)
  /\ LET a == Head(toDev)
         d == dev[a.id]
     IN  \/ /\ a.cmd = "Start" /\ d.state = "setup"
            /\ dev' = [dev EXCEPT ![a.id].state = "sending"]
            /\ UNCHANGED believed
         \/ /\ a.cmd = "Success" /\ d.state = "sent"
            /\ dev' = [dev EXCEPT ![a.id] = Idle]
            /\ believed' = believed \cup {d.n}
         \/ /\ a.cmd = "Failure" /\ d.state # "idle" /\ MayGiveUp(a.id)
            /\ dev' = [dev EXCEPT ![a.id] = Idle]
            /\ UNCHANGED believed
         \/ /\ \/ a.cmd = "Start" /\ d.state # "setup"
               \/ a.cmd = "Success" /\ d.state # "sent"
               \/ a.cmd = "Failure" /\ (d.state = "idle" \/ ~ MayGiveUp(a.id))
            /\ UNCHANGED <<dev, believed>>
  /\ UNCHANGED <<handler, work, fromDev, file, pauses>>

Device ==
  \/ \E id \in work.ids : DevSetup(id) \/ DevContent(id) \/ DevCancel(id) \/ DevPause(id)
  \/ DevAnswer

Next ==
  \/ (Handler \/ Tick) /\ UNCHANGED device
  \/ Device

Spec == Init /\ [][Next]_vars

(* send_data returns; time goes on; select! picks at random among the      *)
(* branches that are ready, so one that is ready again and again is taken. *)
FairSpec ==
  /\ Spec
  /\ WF_vars(TellDone /\ UNCHANGED device)
  /\ SF_vars(HandleDatagram /\ UNCHANGED device)
  /\ WF_vars(Tick /\ UNCHANGED device)
  /\ SF_vars(Cleanup /\ UNCHANGED device)

-----------------------------------------------------------------------------
(* Properties                                                              *)

Pieces == [n : 1 .. MaxSetups, i : Nat, tag : Tags]

Transfers ==
  [n : 1 .. MaxSetups, size : Nat, state : {"Setup", "Receiving"},
   age : 0 .. TransferTimeout, data : Seq(Pieces)]

Events ==
  [kind : {"Complete", "Corrupted"}, id : Ids, n : 1 .. MaxSetups,
   data : Seq(Pieces)]

(* The variables of the handler keep their types; in particular a transfer *)
(* in active_transfers is never in the states Complete and Failed.         *)
TypeOK ==
  /\ active \in [Ids -> Transfers \cup {None}]
  /\ pc \in {"loop", "sending", "down"}
  /\ telling.event \in Seq(Events) /\ events \in Seq(Events)
  /\ waited \in 0 .. CleanupInterval

Completed(n) == \E i \in DOMAIN events : events[i].kind = "Complete" /\ events[i].n = n
HasVerdict(n) == \E i \in DOMAIN events : events[i].n = n

(* What the application gets in a FileTransferComplete is the contents of  *)
(* one transfer up to the end of its image: no piece missing, none of an   *)
(* earlier transfer with the same id.                                      *)
WholeFile ==
  \A i \in DOMAIN events : events[i].kind = "Complete" =>
    LET n == events[i].n
    IN  /\ events[i].data = Sanitized(Prefix(n, Length(n)))
        /\ file[n].size \in {0, Length(n)}

(* The application gets at most one verdict on a transfer, whichever of    *)
(* the datagrams and the cleanup timer comes first.                        *)
OneVerdict ==
  \A i, j \in DOMAIN events : i # j => events[i].n # events[j].n

(* Memory for a transfer stays within the size the device declared.        *)
WithinDeclared ==
  \A id \in Ids :
    active[id] # None /\ active[id].size > 0 => Len(active[id].data) <= active[id].size

(* A device that was told Success for a transfer did send a file that the  *)
(* application gets: it has the event, or the task is about to send it, or *)
(* the connection ended in between.  Answers carry an id, not a transfer,  *)
(* and ids are used again: a hasty device can take the Start, and then the *)
(* Success, of one transfer for those of the next, so it is left out.      *)
SuccessIsComplete ==
  ~ work.hasty => \A n \in believed :
    \/ Completed(n)
    \/ pc = "sending" /\ \E i \in DOMAIN telling.event : telling.event[i].n = n
    \/ pc = "down"

(* The pieces of transfer n still on their way. *)
OnTheWay(n) ==
  {i \in DOMAIN fromDev : fromDev[i].n = n /\ fromDev[i].data # <<>>}

(* While the device is sending a transfer that had no verdict, the handler *)
(* holds it, and what it holds is what was sent and is not on its way.     *)
InStep ==
  \A id \in Ids :
    LET n == dev[id].n
        undecided == /\ ~ HasVerdict(n)
                     /\ \A i \in DOMAIN telling.event : telling.event[i].n # n
                     /\ pc # "down"
        setUp == \A i \in DOMAIN fromDev : fromDev[i].n = n => fromDev[i].cmd # "Setup"
    IN  dev[id].state = "sending" /\ undecided /\ setUp =>
          /\ active[id].n = n
          /\ active[id].data = Prefix(n, dev[id].sent - Cardinality(OnTheWay(n)))

Sent(n) == \E id \in Ids : dev[id].state = "sent" /\ dev[id].n = n

(* A transfer whose contents were all sent gets a verdict: the device is   *)
(* answered or the application told, unless the device gives it up or the  *)
(* connection ends.                                                        *)
VerdictReached ==
  \A n \in 1 .. MaxSetups : Sent(n) ~> (~ Sent(n) \/ HasVerdict(n) \/ pc = "down")

(* The timer of the loop runs out again and again.                         *)
TimerRunsOut == waited = CleanupInterval

Abandoned(id) == active[id] # None /\ active[id].age = TransferTimeout

(* A transfer that has timed out is cleaned up and reported, as the        *)
(* comment of cleanup_stale has it, unless the connection ends.            *)
TimedOutEnds ==
  \A id \in Ids : Abandoned(id) ~> (~ Abandoned(id) \/ pc = "down")

(* It is if the timer of the loop runs out again and again; every turn of  *)
(* the loop makes a new timer, and a busy connection may keep it from      *)
(* running out.                                                            *)
AbandonedEnds == []<>TimerRunsOut => TimedOutEnds
=============================================================================
