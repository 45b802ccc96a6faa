----------------------------- MODULE Connection -----------------------------
(***************************************************************************)
(* The connection task, run_connection of src/src/connection.rs, from the  *)
(* negotiation of the link to Disconnected: authentication and             *)
(* identification, the select! loop with its control messages, External    *)
(* Accessory sessions (src/src/session/ea.rs), the HID remote              *)
(* (src/src/session/hid.rs) and the application's commands, and the end.   *)
(*                                                                         *)
(* A handler that awaits sends is a list of steps, todo: each writes one   *)
(* message, waits for its ack, and then has its effect.  The link is a     *)
(* reliable channel here (Link, MessageChannel); a step fails when the     *)
(* link gives up, or when the MFi provider it waits for first fails.  But  *)
(* a send that waits takes the messages that come meanwhile into pending,  *)
(* and the send of a response drops the challenges among them.             *)
(*                                                                         *)
(* An External Accessory session has an id, and its data comes on a        *)
(* session of the link, which has a number of its own; session_channels    *)
(* and transfer_ids are looked up with either.                             *)
(*                                                                         *)
(* Left out: file transfers (FileTransfer), what messages contain          *)
(* (ControlMessage, NowPlaying), the certificate's cache and the map       *)
(* sessions, which decides a log line only.                                *)
(***************************************************************************)
EXTENDS Integers, Sequences, FiniteSets

CONSTANTS
  Sids,              \* ids of External Accessory sessions
  Challenges,        \* the device's authentication challenges, numbered
  EnableNowPlaying,  \* Iap2Config::enable_now_playing
  EnableHid          \* Iap2Config::enable_hid

(* The sessions of the link.  The SYN of packet.rs declares one for        *)
(* control messages and one for External Accessory data; the loop takes a  *)
(* packet of another session for a file transfer if its number is 1, and   *)
(* for External Accessory data if not, unless it has no session: 0.        *)
ControlSession == 10
EaLinkSession == 11
FileSession == 1
LinkSids == Sids \cup {EaLinkSession}

IsEaData(s) == s \notin {0, ControlSession, FileSession}

ASSUME ConnectionAssumption ==
  /\ {EnableNowPlaying, EnableHid} \subseteq BOOLEAN
  /\ Challenges \subseteq Nat \ {0}
  /\ Sids \subseteq 0 .. 255 \ {FileSession, ControlSession, EaLinkSession}

VARIABLES
  pc,           \* where the task is: "negotiating", "auth", "top" and "select"
                \* of the loop, "closing", "failed", "ended", "done"
  todo,         \* the steps the handler still has to take
  written,      \* the message of the first of them was written
  onError,      \* what a failing step does: ends the task, drops or skips it
  running,      \* the flag shared with the application
  accepted,     \* identification_accepted of handle_authentication
  answered,     \* last_challenge and last_response of Iap2Auth, or 0
  hid,          \* HidRemote.started
  nowPlaying,   \* now_playing_active
  channels,     \* session_channels: the number of the handle it feeds, or 0
  pending,      \* pending_ea_session is Some
  transferIds,  \* transfer_ids: the last one seen, or 0
  events,       \* the events sent to the application, oldest first
  handles,      \* the EaSessions given to the application, oldest first
  listening,    \* the application has not dropped ea_sessions
  commands,     \* HID commands sent by the application and not yet taken
  launches,     \* app launches asked for and not yet taken
  outgoing,     \* EA data sent by the application: session ids
  fromDev,      \* messages from the device
  queued        \* how many of them are in Iap2Link.pending

eaVars == <<channels, pending, transferIds, handles>>
appVars == <<running, listening, commands, launches, outgoing>>
stepVars == <<todo, written, onError>>
modeVars == <<accepted, answered, hid, nowPlaying>>
task == <<pc, stepVars, modeVars, eaVars, events>>
connection == <<task, appVars, fromDev, queued>>

Msg(kind, arg) == [kind |-> kind, arg |-> arg]

Step(kind, arg, evs) == [msg |-> Msg(kind, arg), events |-> evs]

ConnectionInit ==
  /\ pc = "negotiating" /\ todo = <<>> /\ written = FALSE /\ onError = "end"
  /\ running = TRUE /\ accepted = FALSE /\ answered = [challenge |-> 0, response |-> 0]
  /\ hid = FALSE /\ nowPlaying = FALSE
  /\ channels = [s \in LinkSids |-> 0] /\ pending = FALSE
  /\ transferIds = [s \in LinkSids |-> 0]
  /\ events = <<>> /\ handles = <<>> /\ listening = TRUE
  /\ commands = 0 /\ launches = 0 /\ outgoing = <<>>
  /\ fromDev = <<>> /\ queued = 0

-----------------------------------------------------------------------------
(* The steps of a handler                                                  *)

(* Mutant: the ack of a step that was given up is still waited for. *)
GoesWaiting(at, steps, err) ==
  /\ pc' = at /\ todo' = steps /\ written' = written /\ onError' = err

(* The task goes on to "at", after the steps. *)
Goes(at, steps, err) ==
  /\ pc' = at /\ todo' = steps /\ written' = FALSE /\ onError' = err

GoesOn(at) == Goes(at, <<>>, "end")

Ready(at) == pc = at /\ todo = <<>>

Emits(evs) == events' = events \o evs

Write ==
  /\ todo # <<>> /\ ~ written
  /\ written' = TRUE
  /\ UNCHANGED <<pc, todo, onError, modeVars, eaVars, events, appVars, fromDev, queued>>

(* Mutant: StopHID does not reset the flag. *)
HidAfterStop(kind) == hid \/ kind = "StartHID"

HidAfter(kind) == kind = "StartHID" \/ (hid /\ kind # "StopHID")

SendOver ==
  /\ written
  /\ LET s == Head(todo)
     IN  /\ hid' = HidAfter(s.msg.kind)
         /\ nowPlaying' = (nowPlaying \/ s.msg.kind = "StartNowPlaying")
         /\ Emits(s.events)
  /\ todo' = Tail(todo) /\ written' = FALSE
  /\ UNCHANGED <<pc, onError, accepted, answered, eaVars, appVars>>

Acked == SendOver /\ UNCHANGED <<fromDev, queued>>

(* The link has sent a response and waits for its ack. *)
Responding == written /\ Head(todo).msg.kind = "Response"

(* The next message that is not in pending yet. *)
Incoming(kinds) == queued < Len(fromDev) /\ fromDev[queued + 1].kind \in kinds

(* send_data: a message that comes while the ack is waited for is put in   *)
(* pending.  That matters, and is modelled, where responses are sent.      *)
ReadAhead ==
  /\ pc = "auth" /\ written /\ ~ Responding
  /\ queued < Len(fromDev) /\ queued' = queued + 1
  /\ UNCHANGED <<task, appVars, fromDev>>

(* send_data_retransmit_until_ack_or_payload: a message is as good as the  *)
(* ack,                                                                    *)
TakenForAck ==
  /\ Responding /\ queued < Len(fromDev) /\ ~ Incoming({"Challenge"})
  /\ SendOver
  /\ queued' = queued + 1 /\ UNCHANGED fromDev

(* but a challenge is acked, taken for the one that is being answered, and *)
(* dropped, whichever it is.                                               *)
ChallengeDropped ==
  /\ Responding /\ Incoming({"Challenge"})
  /\ fromDev' = SubSeq(fromDev, 1, queued) \o SubSeq(fromDev, queued + 2, Len(fromDev))
  /\ UNCHANGED <<task, appVars, queued>>

StepFails ==
  /\ todo # <<>>
  /\ CASE onError = "end" -> GoesOn("failed")
       [] onError = "drop" -> Goes(pc, <<>>, "drop")
       [] onError = "skip" -> Goes(pc, Tail(todo), "skip")
  /\ UNCHANGED <<modeVars, eaVars, events, appVars, fromDev, queued>>

-----------------------------------------------------------------------------
(* Negotiation and authentication                                          *)

Negotiated ==
  /\ Ready("negotiating")
  /\ Emits(<<Msg("LinkEstablished", 0)>>)
  /\ GoesOn("auth")
  /\ UNCHANGED <<modeVars, eaVars, appVars, fromDev, queued>>

(* The negotiation, or a receive of the authentication or the loop, fails. *)
ReceiveFails ==
  /\ Ready(pc) /\ pc \in {"negotiating", "auth", "select"}
  /\ GoesOn("failed")
  /\ UNCHANGED <<modeVars, eaVars, events, appVars, fromDev, queued>>

(* receive_data: a message in pending is the next one. *)
Takes(m) ==
  /\ fromDev # <<>> /\ m = Head(fromDev) /\ fromDev' = Tail(fromDev)
  /\ queued' = IF queued = 0 THEN 0 ELSE queued - 1

Arrived == IF fromDev = <<>> THEN {} ELSE {Head(fromDev)}

Identifications ==
  {"StartIdentification", "IdentificationAccepted", "IdentificationRejected"}

(* Mutant: an acceptance before AuthenticationSucceeded is forgotten. *)
AcceptedInAuthForgotten(kind) == FALSE

AcceptedInAuth(kind) == accepted \/ kind = "IdentificationAccepted"

(* Identification before authentication. *)
AuthIdentification ==
  /\ Ready("auth")
  /\ \E m \in Arrived :
       /\ Takes(m) /\ m.kind \in Identifications
       /\ accepted' = AcceptedInAuth(m.kind)
       /\ IF m.kind = "StartIdentification"
          THEN /\ Goes("auth", <<Step("Identification", 0, <<>>)>>, "end")
               /\ UNCHANGED events
          ELSE GoesOn("auth") /\ Emits(<<Msg(m.kind, 0)>>)
  /\ UNCHANGED <<answered, hid, nowPlaying, eaVars, appVars>>

AuthCertificate ==
  /\ Ready("auth")
  /\ \E m \in Arrived : Takes(m) /\ m.kind = "RequestCertificate"
  /\ Emits(<<Msg("AuthenticationStarted", 0)>>)
  /\ Goes("auth", <<Step("Certificate", 0, <<>>)>>, "end")
  /\ UNCHANGED <<modeVars, eaVars, appVars>>

(* Mutant: the cached response is used for any challenge. *)
ResponseToAny(c) == IF answered.response # 0 THEN answered.response ELSE c

(* The response is the cached one if the challenge is the last one again;  *)
(* the provider's response to c is named c.                                *)
ResponseTo(c) == IF answered.challenge = c THEN answered.response ELSE c

AuthChallenge ==
  /\ Ready("auth")
  /\ \E m \in Arrived :
       /\ Takes(m) /\ m.kind = "Challenge"
       /\ answered' = [challenge |-> m.arg, response |-> ResponseTo(m.arg)]
       /\ Goes("auth", <<Step("Response", ResponseTo(m.arg), <<>>)>>, "end")
  /\ UNCHANGED <<accepted, hid, nowPlaying, eaVars, events, appVars>>

(* AA05: the loop is next, after the EA request an earlier acceptance of   *)
(* the identification calls for.                                           *)
AuthSucceeded ==
  /\ Ready("auth")
  /\ \E m \in Arrived : Takes(m) /\ m.kind = "AuthenticationSucceeded"
  /\ Emits(<<Msg("AuthenticationSucceeded", 0)>>)
  /\ Goes("top", IF accepted THEN <<Step("EaRequest", 0, <<>>)>> ELSE <<>>, "end")
  /\ UNCHANGED <<modeVars, eaVars, appVars>>

AuthFailed ==
  /\ Ready("auth")
  /\ \E m \in Arrived : Takes(m) /\ m.kind = "AuthenticationFailed"
  /\ Emits(<<Msg("AuthenticationFailed", 0)>>)
  /\ GoesOn("failed")
  /\ UNCHANGED <<modeVars, eaVars, appVars>>

Authentication ==
  \/ AuthIdentification \/ AuthCertificate \/ AuthChallenge
  \/ AuthSucceeded \/ AuthFailed

-----------------------------------------------------------------------------
(* The loop: its condition, and the control messages                       *)

(* Mutant: the HID remote is left on. *)
GoodbyeKeepingHid ==
  IF nowPlaying THEN <<Step("StopNowPlaying", 0, <<>>)>> ELSE <<>>

(* What is still active is stopped; errors are ignored. *)
Goodbye ==
  (IF nowPlaying THEN <<Step("StopNowPlaying", 0, <<>>)>> ELSE <<>>) \o
  (IF hid THEN <<Step("StopHID", 0, <<>>)>> ELSE <<>>)

(* Mutant: the loop does not look at running. *)
ContinuesAlways == TRUE

Continues == running

(* while *running.lock().await *)
Top ==
  /\ Ready("top")
  /\ IF Continues THEN GoesOn("select") ELSE Goes("closing", Goodbye, "skip")
  /\ UNCHANGED <<modeVars, eaVars, events, appVars, fromDev, queued>>

ControlIdentification ==
  /\ Ready("select")
  /\ \E m \in Arrived :
       /\ Takes(m) /\ m.kind \in Identifications
       /\ IF m.kind = "StartIdentification"
          THEN /\ Goes("top", <<Step("Identification", 0, <<>>)>>, "end")
               /\ UNCHANGED events
          ELSE /\ Goes("top", IF m.kind = "IdentificationAccepted"
                              THEN <<Step("EaRequest", 0, <<>>)>> ELSE <<>>, "end")
               /\ Emits(<<Msg(m.kind, 0)>>)
  /\ UNCHANGED <<modeVars, eaVars, appVars>>

(* A NowPlayingUpdate, a StatusUpdate, or anything else: at most an event. *)
ControlOther ==
  /\ Ready("select")
  /\ \E m \in Arrived : Takes(m) /\ m.kind = "NowPlayingUpdate"
  /\ Emits(<<Msg("NowPlayingUpdate", 0)>>)
  /\ GoesOn("top")
  /\ UNCHANGED <<modeVars, eaVars, appVars>>

Registered(s) == [channels EXCEPT ![s] = Len(handles) + 1]

Handle(s, n) == [sid |-> s, n |-> n, got |-> <<>>, open |-> TRUE]

(* StartExternalAccessoryProtocolSession: a channel, of which the          *)
(* application gets the other end, in place of one the session may have;   *)
(* then now playing and the HID remote are started.                        *)
EaStart ==
  /\ Ready("select")
  /\ \E m \in Arrived :
       /\ Takes(m) /\ m.kind = "EaStart"
       /\ channels' = Registered(m.arg.sid)
       /\ pending' = TRUE
       /\ IF listening
          THEN /\ handles' = Append(handles, Handle(m.arg.sid, m.arg.n))
               /\ Emits(<<Msg("EaSessionStarted", m.arg.sid)>>)
               /\ Goes("top",
                    (IF EnableNowPlaying /\ ~ nowPlaying
                     THEN <<Step("StartNowPlaying", 0, <<>>)>> ELSE <<>>) \o
                    (IF EnableHid /\ ~ hid
                     THEN <<Step("StartHID", 0, <<Msg("HidRemoteStarted", 0)>>)>>
                     ELSE <<>>), "end")
          ELSE GoesOn("failed") /\ UNCHANGED <<handles, events>>
  /\ UNCHANGED <<modeVars, transferIds, appVars>>

(* Mutant: the transfer id outlives the session. *)
ForgottenKeeping(s) == transferIds

Forgotten(s) == [transferIds EXCEPT ![s] = 0]

(* StopExternalAccessoryProtocolSession *)
EaStop ==
  /\ Ready("select")
  /\ \E m \in Arrived :
       /\ Takes(m) /\ m.kind = "EaStop"
       /\ channels' = [channels EXCEPT ![m.arg.sid] = 0]
       /\ transferIds' = Forgotten(m.arg.sid)
       /\ Emits(<<Msg("EaSessionStopped", m.arg.sid)>>)
       /\ Goes("top",
            IF hid THEN <<Step("StopHID", 0, <<Msg("HidRemoteStopped", 0)>>)>>
            ELSE <<>>, "end")
  /\ UNCHANGED <<modeVars, pending, handles, appVars>>

(* Mutant: a session that has a channel is registered too. *)
RegistersAny(s) == pending

Registers(s) == channels[s] = 0 /\ pending

(* Data without a session is ignored. *)
EaDataIgnored ==
  /\ Ready("select")
  /\ \E m \in Arrived : Takes(m) /\ m.kind = "EaData" /\ ~ IsEaData(m.arg.sid)
  /\ GoesOn("top")
  /\ UNCHANGED <<modeVars, eaVars, events, appVars>>

(* handle_incoming_data: data of a session without a channel registers it  *)
(* if pending_ea_session is set; a channel the application has dropped is  *)
(* removed when data does not get through it.                              *)
EaData ==
  /\ Ready("select")
  /\ \E m \in Arrived :
       LET s == m.arg.sid
           register == Registers(s)
           known == IF register THEN Append(handles, Handle(s, m.arg.n)) ELSE handles
           h == IF register THEN Len(known) ELSE channels[s]
       IN  /\ Takes(m) /\ m.kind = "EaData" /\ IsEaData(s)
           /\ transferIds' = [transferIds EXCEPT ![s] = m.arg.n]
           /\ pending' = (pending /\ ~ register)
           /\ IF register /\ ~ listening
              THEN GoesOn("failed") /\ channels' = Registered(s) /\ UNCHANGED handles
              ELSE /\ GoesOn("top")
                   /\ IF h # 0 /\ known[h].open
                      THEN /\ handles' = [known EXCEPT ![h].got = Append(@, [n |-> m.arg.n, i |-> m.arg.i])]
                           /\ channels' = [channels EXCEPT ![s] = h]
                      ELSE /\ channels' = [channels EXCEPT ![s] = 0]
                           /\ UNCHANGED handles
  /\ UNCHANGED <<modeVars, events, appVars>>

-----------------------------------------------------------------------------
(* The other branches of the select!                                       *)

OutgoingData ==
  /\ Ready("select") /\ outgoing # <<>>
  /\ outgoing' = Tail(outgoing)
  /\ LET s == Head(outgoing)
     IN  Goes("top", <<Step("EaData", [sid |-> s, n |-> transferIds[s]], <<>>)>>, "drop")
  /\ UNCHANGED <<modeVars, eaVars, events, fromDev, queued,
                 running, listening, commands, launches>>

(* send_command: StartHID unless started, and nobody is told; the button   *)
(* is pressed and released.                                                *)
Command ==
  (IF hid THEN <<>> ELSE <<Step("StartHID", 0, <<>>)>>) \o
  <<Step("Report", 1, <<>>), Step("Report", 0, <<>>)>>

(* Mutant: commands are taken once the HID remote is started. *)
CommandReadyStarted == commands > 0 /\ hid

CommandReady == commands > 0

HidCommand ==
  /\ Ready("select") /\ CommandReady
  /\ commands' = commands - 1
  /\ Goes("top", Command, "drop")
  /\ UNCHANGED <<modeVars, eaVars, events, fromDev, queued,
                 running, listening, launches, outgoing>>

AppLaunch ==
  /\ Ready("select") /\ launches > 0
  /\ launches' = launches - 1
  /\ Goes("top", <<Step("AppLaunch", 0, <<>>)>>, "drop")
  /\ UNCHANGED <<modeVars, eaVars, events, fromDev, queued,
                 running, listening, commands, outgoing>>

(* The cleanup timer; a keepalive is due or not. *)
Timer ==
  /\ Ready("select")
  /\ \/ GoesOn("top")
     \/ Goes("top", <<Step("Keepalive", 0, <<>>)>>, "end")
  /\ UNCHANGED <<modeVars, eaVars, events, appVars, fromDev, queued>>

-----------------------------------------------------------------------------
(* The end: connect's task after run_connection                            *)

Closed ==
  /\ Ready("closing")
  /\ Emits(<<Msg("Disconnected", 0)>>)
  /\ GoesOn("ended")
  /\ UNCHANGED <<modeVars, eaVars, appVars, fromDev, queued>>

(* Mutant: the two in the other order. *)
LastWordsSwapped == <<Msg("Disconnected", 0), Msg("Error", 0)>>

LastWords == <<Msg("Error", 0), Msg("Disconnected", 0)>>

Failed ==
  /\ Ready("failed")
  /\ Emits(LastWords)
  /\ GoesOn("ended")
  /\ UNCHANGED <<modeVars, eaVars, appVars, fromDev, queued>>

Ended ==
  /\ Ready("ended")
  /\ running' = FALSE
  /\ GoesOn("done")
  /\ UNCHANGED <<modeVars, eaVars, events, fromDev, queued,
                 listening, commands, launches, outgoing>>

Branch ==
  \/ ControlIdentification \/ ControlOther \/ EaStart \/ EaStop
  \/ EaData \/ EaDataIgnored
  \/ OutgoingData \/ HidCommand \/ AppLaunch \/ Timer

Task ==
  \/ Write \/ Acked \/ ReadAhead \/ TakenForAck \/ ChallengeDropped
  \/ StepFails \/ Negotiated \/ ReceiveFails
  \/ Authentication \/ Top \/ Branch \/ Closed \/ Failed \/ Ended
=============================================================================
