-------------------------- MODULE ConnectionSystem --------------------------
(***************************************************************************)
(* The connection task (Connection) with the application that uses an      *)
(* Iap2Connection, and a device.  The device is not in the repository: it  *)
(* authenticates and identifies the accessory in any order, opens and      *)
(* closes External Accessory sessions once it was asked to, and sends data *)
(* on an open session: on the one link session that was declared for such  *)
(* data (shared), or on the link session with the id of the session, what  *)
(* the code's naming assumes.  It closes a session before it opens it      *)
(* again, and uses a new transfer id each time.  It may fall silent at any *)
(* point.                                                                  *)
(***************************************************************************)
EXTENDS Connection

CONSTANTS
  SharedLinks,  \* the choices for shared: which kinds of device there are
  Budgets,      \* bounds: by kind, what the device and the application send
                \* or do, and the failures; a run starts from any one of them
  MaxQueue      \* bound: messages in flight to the accessory

FromDevice ==
  {"StartIdentification", "IdentificationAccepted", "IdentificationRejected",
   "RequestCertificate", "Challenge", "AuthenticationSucceeded",
   "AuthenticationFailed", "NowPlayingUpdate", "EaStart", "EaData", "EaStop"}

FromApplication == {"HidCommand", "AppLaunch", "Outgoing", "Drop", "Unlisten", "Stop"}

Kinds == FromDevice \cup FromApplication \cup {"Failure"}

ASSUME ConnectionSystemAssumption ==
  Budgets \subseteq [Kinds -> Nat] /\ MaxQueue \in Nat /\ SharedLinks \subseteq BOOLEAN

VARIABLES
  left,      \* by kind: what may still be sent, done, or fail
  shared,    \* the device sends EA data on the declared link session
  session,   \* by id: the EA session the device has open, or had last
  sent,      \* by number of the EA session: how much data was sent on it
  asked,     \* the challenges sent, oldest first
  failures,  \* steps and receives that have failed
  told       \* what the messages written so far told the device

device == <<shared, session, sent, asked>>
vars == <<connection, left, device, failures, told>>

(* The kinds of messages it was sent, whether its HID remote is started,   *)
(* whether it was sent HID reports while it was not, and the challenges    *)
(* that were answered, by their responses.                                 *)
ToldNothing ==
  [kinds |-> {}, hid |-> FALSE, misled |-> FALSE, responses |-> <<>>]

Learns(m) ==
  [kinds |-> told.kinds \cup {m.kind},
   hid |-> m.kind = "StartHID" \/ (told.hid /\ m.kind # "StopHID"),
   misled |-> told.misled \/ (m.kind = "Report" /\ ~ told.hid),
   responses |-> IF m.kind = "Response" THEN Append(told.responses, m.arg)
                 ELSE told.responses]

Init ==
  /\ ConnectionInit
  /\ left \in Budgets /\ shared \in SharedLinks
  /\ session = [s \in Sids |-> [n |-> 0, open |-> FALSE]]
  /\ sent = <<>> /\ asked = <<>>
  /\ failures = 0 /\ told = ToldNothing

Wrote(kind) == kind \in told.kinds

Spends(kind) == left[kind] > 0 /\ left' = [left EXCEPT ![kind] = @ - 1]

HasEvent(kind) == \E i \in DOMAIN events : events[i].kind = kind

-----------------------------------------------------------------------------
(* The device                                                              *)

Sends(kind, arg) ==
  /\ Spends(kind) /\ Len(fromDev) < MaxQueue
  /\ pc \notin {"negotiating", "failed", "closing", "ended", "done"}
  /\ fromDev' = Append(fromDev, Msg(kind, arg))
  /\ UNCHANGED <<task, appVars, queued, shared, failures, told>>

DevIdentifies ==
  /\ \/ Sends("StartIdentification", 0)
     \/ /\ Wrote("Identification")
        /\ Sends("IdentificationAccepted", 0) \/ Sends("IdentificationRejected", 0)
  /\ UNCHANGED <<session, sent, asked>>

Undecided ==
  /\ pc = "auth"
  /\ \A i \in DOMAIN fromDev :
       fromDev[i].kind \notin {"AuthenticationSucceeded", "AuthenticationFailed"}

(* A challenge sent for the first time gets the next number. *)
DevAuthenticates ==
  /\ Undecided
  /\ \/ Sends("RequestCertificate", 0) /\ UNCHANGED asked
     \/ /\ Wrote("Certificate")
        /\ \E c \in Challenges :
             c <= Len(asked) + 1 /\ Sends("Challenge", c) /\ asked' = Append(asked, c)
     \/ /\ Wrote("Response")
        /\ Sends("AuthenticationSucceeded", 0) \/ Sends("AuthenticationFailed", 0)
        /\ UNCHANGED asked
  /\ UNCHANGED <<session, sent>>

DevOpens(s) ==
  /\ Wrote("EaRequest") /\ ~ session[s].open
  /\ LET n == Len(sent) + 1
     IN  /\ Sends("EaStart", [sid |-> s, n |-> n])
         /\ session' = [session EXCEPT ![s] = [n |-> n, open |-> TRUE]]
         /\ sent' = Append(sent, 0)
  /\ UNCHANGED asked

DevSendsData(s) ==
  /\ session[s].open
  /\ LET n == session[s].n
     IN  /\ Sends("EaData", [sid |-> IF shared THEN EaLinkSession ELSE s,
                           n |-> n, i |-> sent[n] + 1])
         /\ sent' = [sent EXCEPT ![n] = @ + 1]
  /\ UNCHANGED <<session, asked>>

DevCloses(s) ==
  /\ session[s].open
  /\ Sends("EaStop", [sid |-> s])
  /\ session' = [session EXCEPT ![s].open = FALSE]
  /\ UNCHANGED <<sent, asked>>

DevPlays ==
  /\ Wrote("StartNowPlaying")
  /\ Sends("NowPlayingUpdate", 0)
  /\ UNCHANGED <<session, sent, asked>>

Device ==
  \/ DevIdentifies \/ DevAuthenticates \/ DevPlays
  \/ \E s \in Sids : DevOpens(s) \/ DevSendsData(s) \/ DevCloses(s)

-----------------------------------------------------------------------------
(* The application                                                         *)

AppUnchanged == UNCHANGED <<task, fromDev, queued, device, failures, told>>

(* Iap2Connection::send_hid_command *)
SendHidCommand ==
  /\ Spends("HidCommand") /\ commands' = commands + 1
  /\ AppUnchanged /\ UNCHANGED <<running, listening, launches, outgoing>>

(* Iap2Connection::request_app_launch *)
RequestAppLaunch ==
  /\ Spends("AppLaunch") /\ launches' = launches + 1
  /\ AppUnchanged /\ UNCHANGED <<running, listening, commands, outgoing>>

(* EaSession::send *)
SendOutgoing ==
  /\ Spends("Outgoing")
  /\ \E h \in DOMAIN handles :
       handles[h].open /\ outgoing' = Append(outgoing, handles[h].sid)
  /\ AppUnchanged /\ UNCHANGED <<running, listening, commands, launches>>

(* Iap2Connection::stop *)
Stop ==
  /\ Spends("Stop") /\ running' = FALSE
  /\ AppUnchanged /\ UNCHANGED <<listening, commands, launches, outgoing>>

(* The application drops an EaSession, or the receiver of them. *)
DropSession ==
  /\ Spends("Drop")
  /\ \E h \in DOMAIN handles :
       handles[h].open /\ handles' = [handles EXCEPT ![h].open = FALSE]
  /\ UNCHANGED <<pc, stepVars, modeVars, channels, pending, transferIds,
                 events, fromDev, queued, appVars, device, failures, told>>

StopListening ==
  /\ Spends("Unlisten") /\ listening' = FALSE
  /\ AppUnchanged /\ UNCHANGED <<running, commands, launches, outgoing>>

Application ==
  \/ SendHidCommand \/ RequestAppLaunch \/ SendOutgoing \/ Stop
  \/ DropSession \/ StopListening

-----------------------------------------------------------------------------
TaskRuns ==
  \/ Write /\ told' = Learns(Head(todo).msg) /\ UNCHANGED <<left, device, failures>>
  \/ /\ \/ Acked \/ ReadAhead \/ TakenForAck \/ ChallengeDropped
        \/ Negotiated \/ Authentication \/ Top \/ Branch
        \/ Closed \/ Failed \/ Ended
     /\ UNCHANGED <<left, device, failures, told>>

Fails ==
  /\ Spends("Failure") /\ failures' = failures + 1
  /\ StepFails \/ ReceiveFails
  /\ UNCHANGED <<device, told>>

Next == TaskRuns \/ Fails \/ Device \/ Application

Spec == Init /\ [][Next]_vars

(* The task runs on, and a send it waits for is acked or fails; select!    *)
(* picks at random, so a branch that is ready again and again is taken.    *)
FairSpec ==
  /\ Spec
  /\ WF_vars(TaskRuns)
  /\ SF_vars(HidCommand /\ UNCHANGED <<left, device, failures, told>>)

-----------------------------------------------------------------------------
(* Properties                                                              *)

TypeOK ==
  /\ pc \in {"negotiating", "auth", "top", "select", "closing", "failed",
             "ended", "done"}
  /\ onError \in {"end", "drop", "skip"} /\ (written => todo # <<>>)
  /\ {running, accepted, hid, nowPlaying, pending, listening} \subseteq BOOLEAN
  /\ channels \in [LinkSids -> 0 .. Len(handles) + 1]
  /\ transferIds \in [LinkSids -> 0 .. Len(sent)]
  /\ queued \in 0 .. Len(fromDev)

Positions(kind) == {i \in DOMAIN events : events[i].kind = kind}

(* The application is told that the connection ended once, as the last     *)
(* event, and of an Error only right before; sessions and the HID remote   *)
(* are heard of only between AuthenticationSucceeded and the end.          *)
EventOrder ==
  /\ \A i \in Positions("Disconnected") : i = Len(events)
  /\ \A i \in Positions("Error") :
       i < Len(events) => i + 1 \in Positions("Disconnected")
  /\ \A k \in {"EaSessionStarted", "EaSessionStopped", "HidRemoteStarted",
               "HidRemoteStopped", "NowPlayingUpdate"} :
       \A i \in Positions(k) : \E j \in Positions("AuthenticationSucceeded") : j < i
  /\ pc = "done" => Positions("Disconnected") # {}

(* The External Accessory session is requested when the device has both    *)
(* authenticated the accessory and accepted its identification, in either  *)
(* order: never earlier, and without fail.                                 *)
EaRequestedWhenBoth ==
  LET both == HasEvent("AuthenticationSucceeded") /\ HasEvent("IdentificationAccepted")
  IN  /\ Wrote("EaRequest") => both
      /\ both /\ pc = "select" => Wrote("EaRequest")

(* The session a handle belongs to is in progress: its end was not handled. *)
InProgress(h) ==
  LET s == handles[h].sid
  IN  /\ session[s].n = handles[h].n
      /\ session[s].open \/ \E i \in DOMAIN fromDev :
              fromDev[i].kind = "EaStop" /\ fromDev[i].arg.sid = s

(* What arrives on an EaSession is the data of the session it stands for,  *)
(* in order and without a gap, whatever sessions are opened, closed and    *)
(* dropped meanwhile, if the device sends it on the link session with the  *)
(* id of the session (~ shared).  While the session is in progress and     *)
(* the application keeps the EaSession it got when it was opened, all of   *)
(* the data arrives there, unless it comes without a link session: in a    *)
(* packet with the number 0.                                               *)
EaInOrder == ~ shared =>
  \A h \in DOMAIN handles :
    LET n == handles[h].n
        got == handles[h].got
        onTheWay == {i \in DOMAIN fromDev :
                       fromDev[i].kind = "EaData" /\ fromDev[i].arg.n = n}
    IN  /\ \A i \in DOMAIN got :
             got[i] = [n |-> n, i |-> got[1].i + i - 1] /\ got[i].i <= sent[n]
        /\ /\ InProgress(h) /\ handles[h].open /\ IsEaData(handles[h].sid)
           /\ \A g \in 1 .. h - 1 : handles[g].n # n
           => Len(got) + Cardinality(onTheWay) = sent[n]

(* EA data goes out with the transfer id of the newest session of its id,  *)
(* or without one, never with that of a session opened before it: also     *)
(* when the session is closed and opened again between the application's   *)
(* send and the device's next data.  For a device that is not shared.      *)
OutgoingTransferId == ~ shared =>
  \A i \in DOMAIN todo :
    LET m == todo[i].msg
    IN  m.kind = "EaData" /\ m.arg.n # 0 =>
          \E h \in DOMAIN handles :
            /\ handles[h].sid = m.arg.sid /\ handles[h].n = m.arg.n
            /\ \A g \in DOMAIN handles : g > h => handles[g].sid # m.arg.sid

(* HID reports reach a device whose HID remote is started.                 *)
ReportsWhileStarted == ~ told.misled

(* A connection that is stopped, with nothing gone wrong, leaves neither   *)
(* the HID remote nor now-playing updates on.                              *)
CleanGoodbye ==
  pc \in {"ended", "done"} /\ failures = 0 /\ ~ HasEvent("Error") =>
    /\ ~ told.hid
    /\ Wrote("StartNowPlaying") => Wrote("StopNowPlaying")

(* The responses are to some of the challenges, in their order.            *)
IsAnswering(responses, challenges) ==
  \E f \in [DOMAIN responses -> DOMAIN challenges] :
    /\ \A i, j \in DOMAIN responses : i < j => f[i] < f[j]
    /\ \A i \in DOMAIN responses : responses[i] = challenges[f[i]]
    /\ responses # <<>> => f[1] = 1

(* Every response is to a challenge of its own, those from the cache too,  *)
(* and to a later one than the response before; the first challenge has a  *)
(* response if any has.  A challenge that comes while the response to an   *)
(* earlier one is being sent may have none.                                *)
ResponsesFit == IsAnswering(told.responses, asked)

(* What link.rs says of the challenges it drops, that they are duplicates  *)
(* of the one that is being answered: with everything read and handled,    *)
(* the last response is to the last challenge.                             *)
LastChallengeAnswered ==
  Ready("auth") /\ fromDev = <<>> /\ asked # <<>> =>
    /\ told.responses # <<>>
    /\ told.responses[Len(told.responses)] = asked[Len(asked)]

(* stop() ends the loop, a busy one too.                                   *)
StopEnds == (pc \in {"top", "select"} /\ ~ running) ~> pc = "done"

(* A HID command accepted by send_hid_command is taken, unless the         *)
(* connection ends; one sent before authentication too, if that succeeds.  *)
CommandsTaken ==
  (commands > 0 /\ pc \in {"top", "select"}) ~>
     (commands = 0 \/ pc \in {"closing", "failed", "ended", "done"})

(* The application gets at most two EaSessions for each session the device *)
(* opens: one when it is opened, and one for the first data that finds its *)
(* link session without a channel, as the first of each session does from  *)
(* a device that is shared.  Two for the same link session and the         *)
(* same session of the device only in place of one it has dropped.         *)
SessionsAreOpened ==
  /\ Len(handles) <= 2 * Cardinality(Positions("EaSessionStarted"))
  /\ \A g, h \in DOMAIN handles :
       g < h /\ handles[g].sid = handles[h].sid /\ handles[g].n = handles[h].n
         => ~ handles[g].open

(* The data that arrives on an EaSession is that of one session of the     *)
(* device.                                                                 *)
DataOfOneSession ==
  \A h \in DOMAIN handles :
    \A i, j \in DOMAIN handles[h].got : handles[h].got[i].n = handles[h].got[j].n
=============================================================================
