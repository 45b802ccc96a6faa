-------------------------- MODULE ConnectionProofs --------------------------
(***************************************************************************)
(* The connection task.  Its type invariant: the types of the task, of the *)
(* application and of the device, whatever they do, whichever sends fail,  *)
(* and for every bound.                                                    *)
(*                                                                         *)
(* What the device and the application are told, and in which order:       *)
(* ReportsWhileStarted, CleanGoodbye, EaRequestedWhenBoth, EventOrder and  *)
(* ResponsesFit, each with the inductive invariant it needs.               *)
(***************************************************************************)
EXTENDS ConnectionSystem, SequenceTheorems, TLAPS

-----------------------------------------------------------------------------
(* The type invariant: TypeOK, with the types of what TypeOK leaves out.   *)

Places ==
  {"negotiating", "auth", "top", "select", "closing", "failed", "ended", "done"}

OnErrors == {"end", "drop", "skip"}

EventKinds ==
  {"LinkEstablished", "AuthenticationStarted", "AuthenticationSucceeded",
   "AuthenticationFailed", "IdentificationAccepted", "IdentificationRejected",
   "NowPlayingUpdate", "EaSessionStarted", "EaSessionStopped", "HidRemoteStarted",
   "HidRemoteStopped", "Error", "Disconnected"}

Events == [kind : EventKinds, arg : Nat]

PlainSteps ==
  {"Identification", "Certificate", "Response", "EaRequest", "StartNowPlaying",
   "StopNowPlaying", "StartHID", "StopHID", "Report", "AppLaunch", "Keepalive"}

OutMessages ==
  [kind : PlainSteps, arg : Nat]
    \cup [kind : {"EaData"}, arg : [sid : LinkSids, n : Nat]]

Steps == [msg : OutMessages, events : Seq(Events)]

(* Messages of the device: those without an argument, and the others. *)
PlainKinds == FromDevice \ {"Challenge", "EaStart", "EaData", "EaStop"}

DevMessages ==
  [kind : PlainKinds, arg : {0}]
    \cup [kind : {"Challenge"}, arg : Challenges]
    \cup [kind : {"EaStart"}, arg : [sid : Sids, n : Nat]]
    \cup [kind : {"EaData"}, arg : [sid : LinkSids, n : Nat, i : Nat]]
    \cup [kind : {"EaStop"}, arg : [sid : Sids]]

Pieces == [n : Nat, i : Nat]

Handles == [sid : LinkSids, n : Nat, got : Seq(Pieces), open : BOOLEAN]

Sessions == [n : Nat, open : BOOLEAN]

StepTypes ==
  /\ pc \in Places /\ onError \in OnErrors
  /\ todo \in Seq(Steps)
  /\ written \in BOOLEAN /\ (written => todo # <<>>)

ModeTypes ==
  /\ accepted \in BOOLEAN /\ hid \in BOOLEAN /\ nowPlaying \in BOOLEAN
  /\ answered \in [challenge : Nat, response : Nat]

EaTypes ==
  /\ channels \in [LinkSids -> 0 .. Len(handles) + 1]
  /\ pending \in BOOLEAN
  /\ transferIds \in [LinkSids -> 0 .. Len(sent)]
  /\ handles \in Seq(Handles)

AppTypes ==
  /\ running \in BOOLEAN /\ listening \in BOOLEAN
  /\ commands \in Nat /\ launches \in Nat /\ outgoing \in Seq(LinkSids)

DeviceTypes ==
  /\ session \in [Sids -> Sessions]
  /\ \A s \in Sids : session[s].open => session[s].n \in 1 .. Len(sent)
  /\ sent \in Seq(Nat) /\ asked \in Seq(Challenges)

(* Sessions are numbered as they are opened. *)
ArrivingTypes ==
  /\ fromDev \in Seq(DevMessages) /\ queued \in 0 .. Len(fromDev)
  /\ \A i \in 1 .. Len(fromDev) :
       fromDev[i].kind \in {"EaStart", "EaData"} => fromDev[i].arg.n \in 1 .. Len(sent)

HistoryTypes ==
  /\ left \in [Kinds -> Nat] /\ failures \in Nat
  /\ told \in [kinds : SUBSET (PlainSteps \cup {"EaData"}), hid : BOOLEAN, misled : BOOLEAN,
               responses : Seq(Nat)]

Types ==
  /\ StepTypes /\ ModeTypes /\ EaTypes /\ AppTypes /\ events \in Seq(Events)
  /\ DeviceTypes /\ ArrivingTypes /\ HistoryTypes

LEMMA TypesImplyTypeOK == Types => TypeOK
BY DEF Types, StepTypes, ModeTypes, EaTypes, AppTypes, ArrivingTypes, TypeOK, Places, OnErrors

-----------------------------------------------------------------------------
(* The types of what handlers make                                         *)

LEMMA SidTypes ==
  /\ Sids \subseteq LinkSids /\ EaLinkSession \in LinkSids
  /\ Sids \subseteq Nat /\ LinkSids \subseteq Nat
BY ConnectionAssumption DEF LinkSids, EaLinkSession

LEMMA EventType ==
  ASSUME NEW kind \in EventKinds, NEW arg \in Nat
  PROVE  Msg(kind, arg) \in Events
BY DEF Msg, Events

LEMMA EmitsTypes ==
  ASSUME events \in Seq(Events), NEW evs \in Seq(Events), Emits(evs)
  PROVE  events' \in Seq(Events)
BY DEF Emits

LEMMA EmitsOneTypes ==
  ASSUME events \in Seq(Events), NEW kind \in EventKinds, NEW arg \in Nat,
         Emits(<<Msg(kind, arg)>>)
  PROVE  events' \in Seq(Events)
<1>1. <<Msg(kind, arg)>> \in Seq(Events)
  BY EventType
<1> QED
  BY <1>1, EmitsTypes

LEMMA StepType ==
  ASSUME NEW kind \in PlainSteps, NEW arg \in Nat, NEW evs \in Seq(Events)
  PROVE  Step(kind, arg, evs) \in Steps
BY DEF Step, Msg, Steps, OutMessages

LEMMA OneStepType ==
  ASSUME NEW kind \in PlainSteps, NEW arg \in Nat, NEW evs \in Seq(Events)
  PROVE  <<Step(kind, arg, evs)>> \in Seq(Steps)
<1>1. Step(kind, arg, evs) \in Steps
  BY StepType
<1> QED
  BY <1>1

LEMMA DataStepType ==
  ASSUME NEW s \in LinkSids, NEW n \in Nat
  PROVE  Step("EaData", [sid |-> s, n |-> n], <<>>) \in Steps
<1>1. Msg("EaData", [sid |-> s, n |-> n]) \in OutMessages
  BY DEF Msg, OutMessages
<1> QED
  BY <1>1 DEF Step, Steps

LEMMA GoesTypes ==
  ASSUME NEW at \in Places, NEW steps \in Seq(Steps), NEW err \in OnErrors,
         Goes(at, steps, err)
  PROVE  StepTypes'
BY DEF Goes, StepTypes

LEMMA GoesOnTypes ==
  ASSUME NEW at \in Places, GoesOn(at)
  PROVE  StepTypes'
<1>1. <<>> \in Seq(Steps) /\ "end" \in OnErrors
  BY DEF OnErrors
<1> QED
  BY <1>1, GoesTypes DEF GoesOn

LEMMA TakesTypes ==
  ASSUME ArrivingTypes, NEW m, Takes(m), UNCHANGED sent
  PROVE  /\ m \in DevMessages
         /\ m.kind \in {"EaStart", "EaData"} => m.arg.n \in 1 .. Len(sent)
         /\ ArrivingTypes'
<1>1. fromDev # <<>> /\ m = fromDev[1] /\ fromDev' = Tail(fromDev)
  BY DEF Takes, ArrivingTypes
<1>2. m \in DevMessages /\ fromDev' \in Seq(DevMessages)
  BY <1>1 DEF ArrivingTypes
<1>4. queued' \in 0 .. Len(fromDev')
  <2>1. Len(fromDev') = Len(fromDev) - 1 /\ Len(fromDev) \in Nat /\ Len(fromDev) # 0
    BY <1>1 DEF ArrivingTypes
  <2>2. queued' = IF queued = 0 THEN 0 ELSE queued - 1
    BY DEF Takes
  <2> QED
    BY <2>1, <2>2 DEF ArrivingTypes
<1>3. \A i \in 1 .. Len(fromDev') : i + 1 \in 1 .. Len(fromDev) /\ fromDev'[i] = fromDev[i + 1]
  BY <1>1 DEF ArrivingTypes
<1> QED
  BY <1>1, <1>2, <1>3, <1>4 DEF ArrivingTypes

(* The argument of a message, by its kind. *)
LEMMA ArgTypes ==
  ASSUME NEW m \in DevMessages
  PROVE  /\ m.kind = "Challenge" => m.arg \in Challenges
         /\ m.kind = "EaStart" => m.arg.sid \in Sids /\ m.arg.n \in Nat
         /\ m.kind = "EaData" =>
              m.arg.sid \in LinkSids /\ m.arg.n \in Nat /\ m.arg.i \in Nat
         /\ m.kind = "EaStop" => m.arg.sid \in Sids
BY DEF DevMessages, PlainKinds, FromDevice

LEMMA GoodbyeTypes == ModeTypes => Goodbye \in Seq(Steps)
<1>1. Step("StopNowPlaying", 0, <<>>) \in Steps /\ Step("StopHID", 0, <<>>) \in Steps
  <2>1. <<>> \in Seq(Events) /\ 0 \in Nat /\ 1 \in Nat
    OBVIOUS
  <2> QED
    BY <2>1, StepType DEF PlainSteps
<1> QED
  BY <1>1 DEF Goodbye, ModeTypes

LEMMA CommandTypes == Command \in Seq(Steps)
<1>1. /\ Step("StartHID", 0, <<>>) \in Steps
      /\ Step("Report", 1, <<>>) \in Steps /\ Step("Report", 0, <<>>) \in Steps
  <2>1. <<>> \in Seq(Events) /\ 0 \in Nat /\ 1 \in Nat
    OBVIOUS
  <2> QED
    BY <2>1, StepType DEF PlainSteps
<1> QED
  BY <1>1 DEF Command

-----------------------------------------------------------------------------
LEMMA InitTypes == Init => Types
<1> SUFFICES ASSUME Init PROVE Types
  OBVIOUS
<1> USE DEF Init, ConnectionInit
<1>a. StepTypes
  <2>1. pc \in Places /\ onError \in OnErrors
    BY DEF Places, OnErrors
  <2>2. todo \in Seq(Steps)
    OBVIOUS
  <2> QED
    BY <2>1, <2>2 DEF StepTypes
<1>b. ModeTypes
  BY DEF ModeTypes
<1>c. AppTypes
  BY DEF AppTypes
<1>1. events \in Seq(Events) /\ ArrivingTypes
  BY DEF ArrivingTypes
<1>2. EaTypes
  <2>1. handles \in Seq(Handles) /\ Len(handles) = 0 /\ Len(sent) = 0
    OBVIOUS
  <2>2. 0 \in 0 .. Len(handles) + 1 /\ 0 \in 0 .. Len(sent)
    BY <2>1
  <2> QED
    BY <2>1, <2>2 DEF EaTypes
<1>3. DeviceTypes
  BY DEF DeviceTypes, Sessions
<1>4. HistoryTypes
  <2>1. left \in [Kinds -> Nat]
    BY ConnectionSystemAssumption
  <2> QED
    BY <2>1 DEF HistoryTypes, ToldNothing
<1> QED
  BY <1>1, <1>2, <1>3, <1>4, <1>a, <1>b, <1>c DEF Types

(* Groups of variables that a step leaves alone. *)
LEMMA SameTypes ==
  /\ StepTypes /\ UNCHANGED <<pc, stepVars>> => StepTypes'
  /\ ModeTypes /\ UNCHANGED modeVars => ModeTypes'
  /\ EaTypes /\ UNCHANGED <<eaVars, sent>> => EaTypes'
  /\ AppTypes /\ UNCHANGED appVars => AppTypes'
  /\ DeviceTypes /\ UNCHANGED device => DeviceTypes'
  /\ ArrivingTypes /\ UNCHANGED <<fromDev, queued, sent>> => ArrivingTypes'
  /\ HistoryTypes /\ UNCHANGED <<left, failures, told>> => HistoryTypes'
BY DEF StepTypes, stepVars, ModeTypes, modeVars, EaTypes, eaVars, AppTypes, appVars,
       DeviceTypes, device, ArrivingTypes, HistoryTypes

LEMMA WriteTypes ==
  ASSUME Types, Write, told' = Learns(Head(todo).msg), UNCHANGED <<left, device, failures>>
  PROVE  Types'
<1>1. StepTypes'
  BY DEF Types, StepTypes, Write
<1>2. HistoryTypes'
  <2>1. Head(todo) \in Steps
    BY DEF Types, StepTypes, Write
  <2>2. Head(todo).msg \in OutMessages
    BY <2>1 DEF Steps
  <2> DEFINE m == Head(todo).msg
  <2>3. /\ m.kind \in PlainSteps \cup {"EaData"}
        /\ m.kind = "Response" => m.arg \in Nat
    BY <2>2 DEF OutMessages, PlainSteps
  <2>4. told' = Learns(m)
    OBVIOUS
  <2> HIDE DEF m
  <2>5. told.kinds \cup {m.kind} \in SUBSET (PlainSteps \cup {"EaData"})
    BY <2>3 DEF Types, HistoryTypes
  <2>6. (IF m.kind = "Response" THEN Append(told.responses, m.arg) ELSE told.responses) \in Seq(Nat)
    BY <2>3 DEF Types, HistoryTypes
  <2> QED
    BY <2>4, <2>5, <2>6 DEF Types, HistoryTypes, Learns
<1> QED
  BY <1>1, <1>2, SameTypes DEF Types, Write, device

LEMMA SendOverTypes ==
  ASSUME Types, SendOver, ArrivingTypes', UNCHANGED <<left, device, failures, told>>
  PROVE  Types'
<1>1. todo \in Seq(Steps) /\ todo # <<>>
  BY DEF Types, StepTypes, SendOver
<1>2. Head(todo) \in Steps /\ Tail(todo) \in Seq(Steps)
  BY <1>1
<1>3. Head(todo).events \in Seq(Events)
  BY <1>2 DEF Steps
<1>4. events' \in Seq(Events)
  BY <1>3, EmitsTypes DEF Types, SendOver
<1>5. StepTypes'
  BY <1>2 DEF Types, StepTypes, SendOver
<1>6. ModeTypes'
  BY DEF Types, ModeTypes, SendOver, HidAfter
<1> QED
  BY <1>4, <1>5, <1>6, SameTypes DEF Types, SendOver, device

(* The messages without the one at position k. *)
Without(from, k) == SubSeq(from, 1, k - 1) \o SubSeq(from, k + 1, Len(from))

LEMMA WithoutOne ==
  ASSUME NEW S, NEW from \in Seq(S), NEW k \in 1 .. Len(from)
  PROVE  /\ Without(from, k) \in Seq(S)
         /\ Len(Without(from, k)) = Len(from) - 1
         /\ \A i \in 1 .. Len(from) - 1 :
              Without(from, k)[i] = from[IF i < k THEN i ELSE i + 1]
<1> DEFINE a == SubSeq(from, 1, k - 1)
           b == SubSeq(from, k + 1, Len(from))
<1>1. /\ a \in Seq(S) /\ Len(a) = k - 1 /\ \A i \in 1 .. k - 1 : a[i] = from[i]
      /\ b \in Seq(S) /\ Len(b) = Len(from) - k
      /\ \A i \in 1 .. Len(from) - k : b[i] = from[k + i]
      /\ k \in Nat /\ Len(from) \in Nat /\ k <= Len(from) /\ k >= 1
  OBVIOUS
<1>2. Without(from, k) = a \o b
  BY DEF Without
<1> HIDE DEF a, b
<1>3. a \o b \in Seq(S) /\ Len(a \o b) = Len(from) - 1
  BY <1>1
<1>4. ASSUME NEW i \in 1 .. Len(from) - 1
      PROVE  (a \o b)[i] = from[IF i < k THEN i ELSE i + 1]
  <2>1. CASE i < k
    <3>1. i \in 1 .. Len(a) /\ i \in 1 .. k - 1
      BY <1>1, <2>1
    <3>2. (a \o b)[i] = a[i]
      BY <1>1, <3>1
    <3> QED
      BY <1>1, <2>1, <3>1, <3>2
  <2>2. CASE ~ (i < k)
    <3>1. /\ i \in Len(a) + 1 .. Len(a) + Len(b) /\ i - (k - 1) \in 1 .. Len(from) - k
          /\ k + (i - (k - 1)) = i + 1
      BY <1>1, <2>2
    <3>2. (a \o b)[i] = b[i - (k - 1)]
      BY <1>1, <3>1
    <3>3. b[i - (k - 1)] = from[k + (i - (k - 1))]
      BY <1>1, <3>1
    <3> QED
      BY <2>2, <3>1, <3>2, <3>3
  <2> QED
    BY <2>1, <2>2
<1> QED
  BY <1>2, <1>3, <1>4

(* The messages read while the ack of one is waited for. *)
LEMMA ReadAheadTypes ==
  ASSUME Types, Acked \/ ReadAhead \/ TakenForAck \/ ChallengeDropped,
         UNCHANGED <<left, device, failures, told>>
  PROVE  Types'
<1>0. fromDev \in Seq(DevMessages) /\ Len(fromDev) \in Nat /\ queued \in 0 .. Len(fromDev)
  BY DEF Types, ArrivingTypes
<1>1. CASE Acked
  BY <1>1, SendOverTypes, SameTypes DEF Acked, Types, device
<1>2. ASSUME queued < Len(fromDev), queued' = queued + 1, UNCHANGED fromDev
      PROVE  ArrivingTypes'
  <2>1. queued' \in 0 .. Len(fromDev')
    BY <1>0, <1>2
  <2> QED
    BY <1>2, <2>1 DEF Types, ArrivingTypes, device
<1>3. CASE ReadAhead
  BY <1>2, <1>3, SameTypes DEF ReadAhead, Types, task, device
<1>4. CASE TakenForAck
  BY <1>2, <1>4, SendOverTypes DEF TakenForAck
<1>5. CASE ChallengeDropped
  <2>1. fromDev' = Without(fromDev, queued + 1) /\ queued + 1 \in 1 .. Len(fromDev)
    <3>1. (queued + 1) - 1 = queued /\ (queued + 1) + 1 = queued + 2
      BY <1>0
    <3>2. fromDev' = Without(fromDev, queued + 1)
      BY <1>5, <3>1 DEF ChallengeDropped, Without
    <3>3. queued + 1 \in 1 .. Len(fromDev)
      BY <1>0, <1>5 DEF ChallengeDropped, Incoming
    <3> QED
      BY <3>2, <3>3
  <2> DEFINE k == queued + 1
  <2>a. fromDev' = Without(fromDev, k) /\ k \in 1 .. Len(fromDev)
    BY <2>1
  <2> HIDE DEF k
  <2>b. /\ Without(fromDev, k) \in Seq(DevMessages)
        /\ Len(Without(fromDev, k)) = Len(fromDev) - 1
        /\ \A i \in 1 .. Len(fromDev) - 1 :
             Without(fromDev, k)[i] = fromDev[IF i < k THEN i ELSE i + 1]
    BY <1>0, <2>a, WithoutOne
  <2>2. /\ fromDev' \in Seq(DevMessages) /\ Len(fromDev') = Len(fromDev) - 1
        /\ \A i \in 1 .. Len(fromDev') : fromDev'[i] = fromDev[IF i < k THEN i ELSE i + 1]
    BY <2>a, <2>b
  <2>3. queued' \in 0 .. Len(fromDev')
    <3>1. queued' = queued
      BY <1>5 DEF ChallengeDropped
    <3>2. queued + 1 \in 1 .. Len(fromDev) /\ Len(fromDev') = Len(fromDev) - 1
      BY <2>1, <2>2
    <3>3. queued \in 0 .. Len(fromDev) - 1
      BY <1>0, <3>2
    <3> QED
      BY <3>1, <3>2, <3>3
  <2>4. ASSUME NEW i \in 1 .. Len(fromDev'), fromDev'[i].kind \in {"EaStart", "EaData"}
        PROVE  fromDev'[i].arg.n \in 1 .. Len(sent)
    <3>1. PICK j \in 1 .. Len(fromDev) : fromDev'[i] = fromDev[j]
      <4>1. (IF i < k THEN i ELSE i + 1) \in 1 .. Len(fromDev)
        BY <1>0, <2>2, <2>a
      <4> QED
        BY <2>2, <4>1
    <3> QED
      BY <2>4, <3>1 DEF Types, ArrivingTypes
  <2>5. ArrivingTypes'
    BY <2>2, <2>3, <2>4 DEF ArrivingTypes, device
  <2> QED
    BY <1>5, <2>5, SameTypes DEF ChallengeDropped, Types, task, device
<1> QED
  BY <1>1, <1>3, <1>4, <1>5

LEMMA StepFailsTypes ==
  ASSUME Types, StepFails PROVE StepTypes'
<1>1. /\ pc \in Places /\ onError \in OnErrors /\ todo \in Seq(Steps) /\ todo # <<>>
      /\ <<>> \in Seq(Steps) /\ "failed" \in Places
  BY DEF Types, StepTypes, StepFails, Places
<1>2. Tail(todo) \in Seq(Steps)
  BY <1>1
<1>3. \/ onError = "end" /\ GoesOn("failed")
      \/ onError = "drop" /\ Goes(pc, <<>>, "drop")
      \/ onError = "skip" /\ Goes(pc, Tail(todo), "skip")
  BY <1>1 DEF StepFails, OnErrors
<1> QED
  BY <1>1, <1>2, <1>3, GoesTypes, GoesOnTypes

LEMMA FailsTypes ==
  ASSUME Types, Fails PROVE Types'
<1>1. left' \in [Kinds -> Nat] /\ failures' \in Nat
  BY DEF Types, HistoryTypes, Fails, Spends, Kinds
<1>2. HistoryTypes' /\ DeviceTypes'
  BY <1>1, SameTypes DEF Types, HistoryTypes, Fails
<1>3. CASE StepFails
  BY <1>2, <1>3, StepFailsTypes, SameTypes DEF Types, Fails, StepFails, device
<1>4. CASE ReceiveFails
  <2>1. StepTypes'
    BY <1>4, GoesOnTypes DEF ReceiveFails, Places
  <2> QED
    BY <1>2, <1>4, <2>1, SameTypes DEF Types, Fails, ReceiveFails, device
<1> QED
  BY <1>3, <1>4 DEF Fails

-----------------------------------------------------------------------------
(* Handlers: one step per action.                                          *)

LEMMA AuthenticationTypes ==
  ASSUME Types, Authentication, UNCHANGED <<left, device, failures, told>>
  PROVE  Types'
<1> USE SameTypes DEF Types, device
<1>0. /\ <<>> \in Seq(Events) /\ <<>> \in Seq(Steps) /\ 0 \in Nat
      /\ UNCHANGED sent
  OBVIOUS
<1>1. CASE AuthIdentification
  <2>1. PICK m \in Arrived :
          /\ Takes(m) /\ m.kind \in Identifications
          /\ accepted' = AcceptedInAuth(m.kind)
          /\ IF m.kind = "StartIdentification"
             THEN /\ Goes("auth", <<Step("Identification", 0, <<>>)>>, "end")
                  /\ UNCHANGED events
             ELSE GoesOn("auth") /\ Emits(<<Msg(m.kind, 0)>>)
    BY <1>1 DEF AuthIdentification
  <2>2. ArrivingTypes'
    BY <1>0, <2>1, TakesTypes
  <2>3. ModeTypes'
    BY <1>1, <2>1 DEF AuthIdentification, AcceptedInAuth, ModeTypes
  <2>4. <<Step("Identification", 0, <<>>)>> \in Seq(Steps)
    BY <1>0, OneStepType DEF PlainSteps
  <2>5. StepTypes'
    BY <2>1, <2>4, GoesTypes, GoesOnTypes DEF Places, OnErrors
  <2>6. events' \in Seq(Events)
    <3>1. CASE m.kind = "StartIdentification"
      BY <2>1, <3>1
    <3>2. CASE m.kind # "StartIdentification"
      <4>1. m.kind \in EventKinds
        BY <2>1, <3>2 DEF Identifications, EventKinds
      <4> QED
        BY <1>0, <2>1, <3>2, <4>1, EmitsOneTypes
    <3> QED
      BY <3>1, <3>2
  <2> QED
    BY <1>1, <2>2, <2>3, <2>5, <2>6 DEF AuthIdentification
<1>2. CASE AuthCertificate
  <2>1. ArrivingTypes'
    BY <1>0, <1>2, TakesTypes DEF AuthCertificate
  <2>2. <<Step("Certificate", 0, <<>>)>> \in Seq(Steps)
    BY <1>0, OneStepType DEF PlainSteps
  <2>3. StepTypes'
    BY <1>2, <2>2, GoesTypes DEF AuthCertificate, Places, OnErrors
  <2>4. events' \in Seq(Events)
    BY <1>0, <1>2, EmitsOneTypes DEF AuthCertificate, EventKinds
  <2> QED
    BY <1>2, <2>1, <2>3, <2>4 DEF AuthCertificate
<1>3. CASE AuthChallenge
  <2>1. PICK m \in Arrived :
          /\ Takes(m) /\ m.kind = "Challenge"
          /\ answered' = [challenge |-> m.arg, response |-> ResponseTo(m.arg)]
          /\ Goes("auth", <<Step("Response", ResponseTo(m.arg), <<>>)>>, "end")
    BY <1>3 DEF AuthChallenge
  <2>2. ArrivingTypes' /\ m \in DevMessages
    BY <1>0, <2>1, TakesTypes
  <2>3. m.arg \in Nat
    BY <2>1, <2>2, ArgTypes, ConnectionAssumption
  <2>4. ResponseTo(m.arg) \in Nat
    BY <2>3 DEF ResponseTo, ModeTypes
  <2>5. ModeTypes'
    BY <1>3, <2>1, <2>3, <2>4 DEF AuthChallenge, ModeTypes
  <2>6. <<Step("Response", ResponseTo(m.arg), <<>>)>> \in Seq(Steps)
    BY <1>0, <2>4, OneStepType DEF PlainSteps
  <2>7. StepTypes'
    BY <2>1, <2>6, GoesTypes DEF Places, OnErrors
  <2> QED
    BY <1>3, <2>2, <2>5, <2>7 DEF AuthChallenge
<1>4. CASE AuthSucceeded
  <2>1. ArrivingTypes'
    BY <1>0, <1>4, TakesTypes DEF AuthSucceeded
  <2>2. (IF accepted THEN <<Step("EaRequest", 0, <<>>)>> ELSE <<>>) \in Seq(Steps)
    BY <1>0, OneStepType DEF PlainSteps
  <2>3. StepTypes'
    BY <1>4, <2>2, GoesTypes DEF AuthSucceeded, Places, OnErrors
  <2>4. events' \in Seq(Events)
    BY <1>0, <1>4, EmitsOneTypes DEF AuthSucceeded, EventKinds
  <2> QED
    BY <1>4, <2>1, <2>3, <2>4 DEF AuthSucceeded
<1>5. CASE AuthFailed
  <2>1. ArrivingTypes'
    BY <1>0, <1>5, TakesTypes DEF AuthFailed
  <2>2. StepTypes'
    BY <1>5, GoesOnTypes DEF AuthFailed, Places
  <2>3. events' \in Seq(Events)
    BY <1>0, <1>5, EmitsOneTypes DEF AuthFailed, EventKinds
  <2> QED
    BY <1>5, <2>1, <2>2, <2>3 DEF AuthFailed
<1> QED
  BY <1>1, <1>2, <1>3, <1>4, <1>5 DEF Authentication

(* The ends of the loop, and the handlers that leave EA sessions alone. *)
LEMMA LoopTypes ==
  ASSUME Types,
         \/ Negotiated \/ Top \/ Closed \/ Failed \/ Ended
         \/ ControlIdentification \/ ControlOther \/ EaDataIgnored \/ Timer,
         UNCHANGED <<left, device, failures, told>>
  PROVE  Types'
<1> USE SameTypes DEF Types, device
<1>0. /\ <<>> \in Seq(Events) /\ <<>> \in Seq(Steps) /\ 0 \in Nat
      /\ UNCHANGED sent
  OBVIOUS
<1>1. CASE Negotiated
  <2>1. StepTypes'
    BY <1>1, GoesOnTypes DEF Negotiated, Places
  <2>2. events' \in Seq(Events)
    BY <1>0, <1>1, EmitsOneTypes DEF Negotiated, EventKinds
  <2> QED
    BY <1>1, <2>1, <2>2 DEF Negotiated
<1>2. CASE Top
  <2>1. StepTypes'
    BY <1>2, GoesOnTypes, GoesTypes, GoodbyeTypes DEF Top, Places, OnErrors
  <2> QED
    BY <1>2, <2>1 DEF Top
<1>3. CASE Closed
  <2>1. StepTypes'
    BY <1>3, GoesOnTypes DEF Closed, Places
  <2>2. events' \in Seq(Events)
    BY <1>0, <1>3, EmitsOneTypes DEF Closed, EventKinds
  <2> QED
    BY <1>3, <2>1, <2>2 DEF Closed
<1>4. CASE Failed
  <2>1. StepTypes'
    BY <1>4, GoesOnTypes DEF Failed, Places
  <2>2. Msg("Error", 0) \in Events /\ Msg("Disconnected", 0) \in Events
    BY <1>0, EventType DEF EventKinds
  <2>3. LastWords \in Seq(Events)
    BY <2>2 DEF LastWords
  <2>4. events' \in Seq(Events)
    BY <1>4, <2>3, EmitsTypes DEF Failed
  <2> QED
    BY <1>4, <2>1, <2>4 DEF Failed
<1>5. CASE Ended
  <2>1. StepTypes'
    BY <1>5, GoesOnTypes DEF Ended, Places
  <2>2. AppTypes'
    BY <1>5 DEF Ended, AppTypes
  <2> QED
    BY <1>5, <2>1, <2>2 DEF Ended
<1>6. CASE ControlIdentification
  <2>1. PICK m \in Arrived :
          /\ Takes(m) /\ m.kind \in Identifications
          /\ IF m.kind = "StartIdentification"
             THEN /\ Goes("top", <<Step("Identification", 0, <<>>)>>, "end")
                  /\ UNCHANGED events
             ELSE /\ Goes("top", IF m.kind = "IdentificationAccepted"
                                 THEN <<Step("EaRequest", 0, <<>>)>> ELSE <<>>, "end")
                  /\ Emits(<<Msg(m.kind, 0)>>)
    BY <1>6 DEF ControlIdentification
  <2>2. ArrivingTypes'
    BY <1>0, <2>1, TakesTypes
  <2>3. /\ <<Step("Identification", 0, <<>>)>> \in Seq(Steps)
        /\ (IF m.kind = "IdentificationAccepted"
            THEN <<Step("EaRequest", 0, <<>>)>> ELSE <<>>) \in Seq(Steps)
    BY <1>0, OneStepType DEF PlainSteps
  <2>4. StepTypes'
    BY <2>1, <2>3, GoesTypes DEF Places, OnErrors
  <2>5. events' \in Seq(Events)
    <3>1. CASE m.kind = "StartIdentification"
      BY <2>1, <3>1
    <3>2. CASE m.kind # "StartIdentification"
      <4>1. m.kind \in EventKinds
        BY <2>1, <3>2 DEF Identifications, EventKinds
      <4> QED
        BY <1>0, <2>1, <3>2, <4>1, EmitsOneTypes
    <3> QED
      BY <3>1, <3>2
  <2> QED
    BY <1>6, <2>2, <2>4, <2>5 DEF ControlIdentification
<1>7. CASE ControlOther
  <2>1. ArrivingTypes'
    BY <1>0, <1>7, TakesTypes DEF ControlOther
  <2>2. StepTypes'
    BY <1>7, GoesOnTypes DEF ControlOther, Places
  <2>3. events' \in Seq(Events)
    BY <1>0, <1>7, EmitsOneTypes DEF ControlOther, EventKinds
  <2> QED
    BY <1>7, <2>1, <2>2, <2>3 DEF ControlOther
<1>8. CASE EaDataIgnored
  <2>1. ArrivingTypes'
    BY <1>0, <1>8, TakesTypes DEF EaDataIgnored
  <2>2. StepTypes'
    BY <1>8, GoesOnTypes DEF EaDataIgnored, Places
  <2> QED
    BY <1>8, <2>1, <2>2 DEF EaDataIgnored
<1>9. CASE Timer
  <2>1. <<Step("Keepalive", 0, <<>>)>> \in Seq(Steps)
    BY <1>0, OneStepType DEF PlainSteps
  <2>2. StepTypes'
    BY <1>9, <2>1, GoesTypes, GoesOnTypes DEF Timer, Places, OnErrors
  <2> QED
    BY <1>9, <2>2 DEF Timer
<1> QED
  BY <1>1, <1>2, <1>3, <1>4, <1>5, <1>6, <1>7, <1>8, <1>9

(* The branches of the application's requests. *)
LEMMA RequestTypes ==
  ASSUME Types, OutgoingData \/ HidCommand \/ AppLaunch,
         UNCHANGED <<left, device, failures, told>>
  PROVE  Types'
<1> USE SameTypes DEF Types, device
<1>0. <<>> \in Seq(Events) /\ 0 \in Nat
  OBVIOUS
<1>1. CASE OutgoingData
  <2> DEFINE s == Head(outgoing)
  <2>1. s \in LinkSids /\ Tail(outgoing) \in Seq(LinkSids)
    BY <1>1 DEF OutgoingData, AppTypes
  <2>2. transferIds[s] \in Nat
    <3>1. \A i \in 0 .. Len(sent) : i \in Nat
      OBVIOUS
    <3> QED
      BY <2>1, <3>1 DEF EaTypes
  <2> HIDE DEF s
  <2>3. Step("EaData", [sid |-> s, n |-> transferIds[s]], <<>>) \in Steps
    BY <2>1, <2>2, DataStepType
  <2>4. <<Step("EaData", [sid |-> s, n |-> transferIds[s]], <<>>)>> \in Seq(Steps)
    BY <2>3
  <2>5. StepTypes'
    BY <1>1, <2>4, GoesTypes DEF OutgoingData, s, Places, OnErrors
  <2>6. AppTypes'
    BY <1>1, <2>1 DEF OutgoingData, AppTypes
  <2> QED
    BY <1>1, <2>5, <2>6 DEF OutgoingData
<1>2. CASE HidCommand
  <2>1. StepTypes'
    BY <1>2, CommandTypes, GoesTypes DEF HidCommand, Places, OnErrors
  <2>2. AppTypes'
    BY <1>2 DEF HidCommand, CommandReady, AppTypes
  <2> QED
    BY <1>2, <2>1, <2>2 DEF HidCommand
<1>3. CASE AppLaunch
  <2>1. <<Step("AppLaunch", 0, <<>>)>> \in Seq(Steps)
    BY <1>0, OneStepType DEF PlainSteps
  <2>2. StepTypes'
    BY <1>3, <2>1, GoesTypes DEF AppLaunch, Places, OnErrors
  <2>3. AppTypes'
    BY <1>3 DEF AppLaunch, AppTypes
  <2> QED
    BY <1>3, <2>2, <2>3 DEF AppLaunch
<1> QED
  BY <1>1, <1>2, <1>3

-----------------------------------------------------------------------------
(* External Accessory sessions                                             *)

LEMMA HandleType ==
  ASSUME NEW s \in LinkSids, NEW n \in Nat
  PROVE  Handle(s, n) \in Handles
BY DEF Handle, Handles

LEMMA NewHandleTypes ==
  ASSUME NEW hs \in Seq(Handles), NEW s \in LinkSids, NEW n \in Nat
  PROVE  /\ Append(hs, Handle(s, n)) \in Seq(Handles)
         /\ Len(Append(hs, Handle(s, n))) = Len(hs) + 1
         /\ Append(hs, Handle(s, n))[Len(hs) + 1] = Handle(s, n)
         /\ \A h \in 1 .. Len(hs) : Append(hs, Handle(s, n))[h] = hs[h]
BY HandleType

LEMMA ExceptTypes ==
  ASSUME NEW S, NEW q \in Seq(S), NEW i \in Nat, NEW e, i \in 1 .. Len(q) => e \in S
  PROVE  /\ [q EXCEPT ![i] = e] \in Seq(S)
         /\ Len([q EXCEPT ![i] = e]) = Len(q)
         /\ \A j \in 1 .. Len(q) : [q EXCEPT ![i] = e][j] = IF j = i THEN e ELSE q[j]
<1>1. CASE i \in 1 .. Len(q)
  BY <1>1, ExceptSeq
<1>2. CASE i \notin 1 .. Len(q)
  <2>1. [q EXCEPT ![i] = e] = q
    BY <1>2
  <2> QED
    BY <1>2, <2>1
<1> QED
  BY <1>1, <1>2

(* A handle that gets a piece of data, and one that is dropped. *)
LEMMA GetsTypes ==
  ASSUME NEW hs \in Seq(Handles), NEW h \in Nat, NEW p \in Pieces
  PROVE  LET gs == [hs EXCEPT ![h].got = Append(@, p)]
         IN  gs \in Seq(Handles) /\ Len(gs) = Len(hs)
<1> DEFINE e == [hs[h] EXCEPT !.got = Append(hs[h].got, p)]
<1>1. h \in 1 .. Len(hs) => e \in Handles
  <2> SUFFICES ASSUME h \in 1 .. Len(hs) PROVE e \in Handles
    OBVIOUS
  <2>1. hs[h] \in Handles
    OBVIOUS
  <2>2. Append(hs[h].got, p) \in Seq(Pieces)
    BY <2>1 DEF Handles
  <2> QED
    BY <2>1, <2>2 DEF Handles
<1>2. [hs EXCEPT ![h].got = Append(@, p)] = [hs EXCEPT ![h] = e]
  OBVIOUS
<1> HIDE DEF e
<1> QED
  BY <1>1, <1>2, ExceptTypes

LEMMA ClosedTypes ==
  ASSUME NEW hs \in Seq(Handles), NEW h \in DOMAIN hs
  PROVE  LET gs == [hs EXCEPT ![h].open = FALSE]
         IN  gs \in Seq(Handles) /\ Len(gs) = Len(hs)
<1> DEFINE e == [hs[h] EXCEPT !.open = FALSE]
<1>1. h \in 1 .. Len(hs) /\ h \in Nat
  OBVIOUS
<1>2. e \in Handles
  <2>1. hs[h] \in Handles
    BY <1>1
  <2> QED
    BY <2>1 DEF Handles
<1>3. [hs EXCEPT ![h].open = FALSE] = [hs EXCEPT ![h] = e]
  OBVIOUS
<1> HIDE DEF e
<1> QED
  BY <1>1, <1>2, <1>3, ExceptTypes

LEMMA EaStartTypes ==
  ASSUME Types, EaStart, UNCHANGED <<left, device, failures, told>>
  PROVE  Types'
<1> USE SameTypes DEF Types, device
<1>0. <<>> \in Seq(Events) /\ <<>> \in Seq(Steps) /\ 0 \in Nat /\ UNCHANGED sent
  OBVIOUS
<1>1. PICK m \in Arrived :
        /\ Takes(m) /\ m.kind = "EaStart"
        /\ channels' = Registered(m.arg.sid)
        /\ pending' = TRUE
        /\ IF listening
           THEN /\ handles' = Append(handles, Handle(m.arg.sid, m.arg.n))
                /\ Emits(<<Msg("EaSessionStarted", m.arg.sid)>>)
                /\ Goes("top",
                     (IF EnableNowPlaying /\ ~ nowPlaying
                      THEN <<Step("StartNowPlaying", 0, <<>>)>> ELSE <<>>) \o
                     (IF EnableHid /\ ~ hid
                      THEN <<Step("StartHID", 0, <<Msg("HidRemoteStarted", 0)>>)>>
                      ELSE <<>>), "end")
           ELSE GoesOn("failed") /\ UNCHANGED <<handles, events>>
  BY DEF EaStart
<1>2. ArrivingTypes' /\ m \in DevMessages
  BY <1>0, <1>1, TakesTypes
<1>3. m.arg.sid \in Sids /\ m.arg.sid \in LinkSids /\ m.arg.sid \in Nat /\ m.arg.n \in Nat
  BY <1>1, <1>2, ArgTypes, SidTypes
<1>4. handles' \in Seq(Handles) /\ Len(handles') \in {Len(handles), Len(handles) + 1}
  <2>1. handles \in Seq(Handles)
    BY DEF EaTypes
  <2>2. handles' \in {handles, Append(handles, Handle(m.arg.sid, m.arg.n))}
    BY <1>1
  <2>3. /\ Append(handles, Handle(m.arg.sid, m.arg.n)) \in Seq(Handles)
        /\ Len(Append(handles, Handle(m.arg.sid, m.arg.n))) = Len(handles) + 1
    BY <1>3, <2>1, NewHandleTypes
  <2> QED
    BY <2>1, <2>2, <2>3
<1>5. EaTypes'
  <2>1. Len(handles) \in Nat /\ Len(handles') \in Nat
    BY DEF EaTypes
  <2>2. channels' \in [LinkSids -> 0 .. Len(handles') + 1]
    BY <1>1, <1>3, <1>4, <2>1 DEF EaTypes, Registered
  <2>3. transferIds' \in [LinkSids -> 0 .. Len(sent')]
    BY DEF EaTypes, EaStart
  <2> QED
    BY <1>1, <1>4, <2>2, <2>3 DEF EaTypes
<1>6. StepTypes'
  <2>1. Msg("HidRemoteStarted", 0) \in Events
    BY <1>0, EventType DEF EventKinds
  <2>2. <<Msg("HidRemoteStarted", 0)>> \in Seq(Events)
    BY <2>1
  <2>3. /\ <<Step("StartNowPlaying", 0, <<>>)>> \in Seq(Steps)
        /\ <<Step("StartHID", 0, <<Msg("HidRemoteStarted", 0)>>)>> \in Seq(Steps)
    BY <1>0, <2>2, OneStepType DEF PlainSteps
  <2> DEFINE steps == (IF EnableNowPlaying /\ ~ nowPlaying
                      THEN <<Step("StartNowPlaying", 0, <<>>)>> ELSE <<>>) \o
                     (IF EnableHid /\ ~ hid
                      THEN <<Step("StartHID", 0, <<Msg("HidRemoteStarted", 0)>>)>>
                      ELSE <<>>)
  <2>4. steps \in Seq(Steps)
    BY <1>0, <2>3
  <2> HIDE DEF steps
  <2>5. Goes("top", steps, "end") \/ GoesOn("failed")
    BY <1>1 DEF steps
  <2> QED
    BY <2>4, <2>5, GoesTypes, GoesOnTypes DEF Places, OnErrors
<1>7. events' \in Seq(Events)
  BY <1>1, <1>3, EmitsOneTypes DEF EventKinds
<1> QED
  BY <1>2, <1>5, <1>6, <1>7 DEF EaStart

LEMMA EaStopTypes ==
  ASSUME Types, EaStop, UNCHANGED <<left, device, failures, told>>
  PROVE  Types'
<1> USE SameTypes DEF Types, device
<1>0. <<>> \in Seq(Events) /\ <<>> \in Seq(Steps) /\ 0 \in Nat /\ UNCHANGED sent
  OBVIOUS
<1>1. PICK m \in Arrived :
        /\ Takes(m) /\ m.kind = "EaStop"
        /\ channels' = [channels EXCEPT ![m.arg.sid] = 0]
        /\ transferIds' = Forgotten(m.arg.sid)
        /\ Emits(<<Msg("EaSessionStopped", m.arg.sid)>>)
        /\ Goes("top",
             IF hid THEN <<Step("StopHID", 0, <<Msg("HidRemoteStopped", 0)>>)>>
             ELSE <<>>, "end")
  BY DEF EaStop
<1>2. ArrivingTypes' /\ m \in DevMessages
  BY <1>0, <1>1, TakesTypes
<1>3. m.arg.sid \in LinkSids /\ m.arg.sid \in Nat
  BY <1>1, <1>2, ArgTypes, SidTypes
<1>4. EaTypes'
  <2>1. Len(handles) \in Nat /\ Len(sent) \in Nat
    BY DEF EaTypes, DeviceTypes
  <2>2. 0 \in 0 .. Len(handles) + 1 /\ 0 \in 0 .. Len(sent)
    BY <2>1
  <2> QED
    BY <1>1, <1>3, <2>2 DEF EaTypes, EaStop, Forgotten
<1>5. StepTypes'
  <2>1. Msg("HidRemoteStopped", 0) \in Events
    BY <1>0, EventType DEF EventKinds
  <2>2. <<Msg("HidRemoteStopped", 0)>> \in Seq(Events)
    BY <2>1
  <2>3. (IF hid THEN <<Step("StopHID", 0, <<Msg("HidRemoteStopped", 0)>>)>>
         ELSE <<>>) \in Seq(Steps)
    BY <1>0, <2>2, OneStepType DEF PlainSteps
  <2> QED
    BY <1>1, <2>3, GoesTypes DEF Places, OnErrors
<1>6. events' \in Seq(Events)
  BY <1>1, <1>3, EmitsOneTypes DEF EventKinds
<1> QED
  BY <1>2, <1>4, <1>5, <1>6 DEF EaStop

LEMMA EaDataTypes ==
  ASSUME Types, EaData, UNCHANGED <<left, device, failures, told>>
  PROVE  Types'
<1> USE SameTypes DEF Types, device
<1>0. UNCHANGED sent
  OBVIOUS
<1>1. PICK m \in Arrived :
       LET s == m.arg.sid
           register == Registers(s)
           known == IF register THEN Append(handles, Handle(s, m.arg.n)) ELSE handles
           h == IF register THEN Len(known) ELSE channels[s]
       IN  /\ Takes(m) /\ m.kind = "EaData" /\ IsEaData(s)
           /\ transferIds' = [transferIds EXCEPT ![s] = m.arg.n]
           /\ pending' = (pending /\ ~ register)
           /\ IF register /\ ~ listening
              THEN GoesOn("failed") /\ channels' = Registered(s) /\ UNCHANGED handles
              ELSE /\ GoesOn("top")
                   /\ IF h # 0 /\ known[h].open
                      THEN /\ handles' = [known EXCEPT ![h].got = Append(@, [n |-> m.arg.n, i |-> m.arg.i])]
                           /\ channels' = [channels EXCEPT ![s] = h]
                      ELSE /\ channels' = [channels EXCEPT ![s] = 0]
                           /\ UNCHANGED handles
  BY DEF EaData
<1> DEFINE s == m.arg.sid
           register == Registers(s)
           known == IF register THEN Append(handles, Handle(s, m.arg.n)) ELSE handles
           h == IF register THEN Len(known) ELSE channels[s]
           p == [n |-> m.arg.n, i |-> m.arg.i]
<1>2. ArrivingTypes' /\ m \in DevMessages /\ m.arg.n \in 1 .. Len(sent)
  BY <1>0, <1>1, TakesTypes
<1>3. s \in LinkSids /\ m.arg.n \in Nat /\ p \in Pieces
  BY <1>1, <1>2, ArgTypes DEF Pieces
<1>4. /\ known \in Seq(Handles)
      /\ Len(known) = Len(handles) + (IF register THEN 1 ELSE 0)
      /\ Len(handles) \in Nat
  BY <1>3, NewHandleTypes DEF EaTypes
<1>5. h \in 0 .. Len(known) + 1
  <2>1. channels[s] \in 0 .. Len(handles) + 1
    BY <1>3 DEF EaTypes
  <2> QED
    BY <1>4, <2>1
<1>6. /\ register \in BOOLEAN /\ pending' = (pending /\ ~ register)
      /\ transferIds' = [transferIds EXCEPT ![s] = m.arg.n]
  BY <1>1 DEF Registers, EaTypes
<1>7. \/ GoesOn("failed") /\ channels' = [channels EXCEPT ![s] = Len(handles) + 1] /\ UNCHANGED handles
      \/ /\ GoesOn("top") /\ channels' = [channels EXCEPT ![s] = h]
         /\ handles' = [known EXCEPT ![h].got = Append(@, p)]
      \/ GoesOn("top") /\ channels' = [channels EXCEPT ![s] = 0] /\ UNCHANGED handles
  BY <1>1 DEF Registered
<1> HIDE DEF s, register, known, h, p
<1>8. handles' \in Seq(Handles) /\ Len(handles') \in {Len(handles), Len(known)}
  <2>1. handles \in Seq(Handles) /\ h \in Nat
    BY <1>4, <1>5 DEF EaTypes
  <2>2. LET gs == [known EXCEPT ![h].got = Append(@, p)]
        IN  gs \in Seq(Handles) /\ Len(gs) = Len(known)
    BY <1>3, <1>4, <2>1, GetsTypes
  <2>3. handles' \in {handles, [known EXCEPT ![h].got = Append(@, p)]}
    BY <1>7
  <2> QED
    BY <2>1, <2>2, <2>3
<1>9. channels' \in [LinkSids -> 0 .. Len(handles') + 1]
  <2>1. CASE UNCHANGED handles
    <3>1. \E c \in 0 .. Len(handles) + 1 : channels' = [channels EXCEPT ![s] = c]
      <4>1. CASE channels' = [channels EXCEPT ![s] = h] /\ handles' = [known EXCEPT ![h].got = Append(@, p)]
        <5>1. Len(handles') = Len(known)
          BY <1>3, <1>4, <1>5, <4>1, GetsTypes
        <5> QED
          BY <1>4, <1>5, <2>1, <4>1, <5>1
      <4> QED
        BY <1>4, <1>7, <4>1
    <3> QED
      BY <1>3, <2>1, <3>1 DEF EaTypes
  <2>2. CASE channels' = [channels EXCEPT ![s] = h] /\ handles' = [known EXCEPT ![h].got = Append(@, p)]
    <3>1. Len(handles') = Len(known)
      BY <1>3, <1>4, <1>5, <2>2, GetsTypes
    <3>2. 0 .. Len(handles) + 1 \subseteq 0 .. Len(handles') + 1
      BY <1>4, <3>1
    <3> QED
      BY <1>3, <1>5, <2>2, <3>1, <3>2 DEF EaTypes
  <2> QED
    BY <1>7, <2>1, <2>2
<1>10. EaTypes'
  <2>1. m.arg.n \in 0 .. Len(sent)
    BY <1>2
  <2>2. transferIds' \in [LinkSids -> 0 .. Len(sent')]
    BY <1>3, <1>6, <2>1 DEF EaTypes
  <2> QED
    BY <1>6, <1>8, <1>9, <2>2 DEF EaTypes
<1>11. StepTypes'
  BY <1>7, GoesOnTypes DEF Places
<1> QED
  BY <1>2, <1>10, <1>11 DEF EaData

-----------------------------------------------------------------------------
(* The device and the application                                          *)

LEMMA SpendsTypes ==
  ASSUME HistoryTypes, NEW kind \in Kinds, Spends(kind)
  PROVE  left' \in [Kinds -> Nat]
BY DEF HistoryTypes, Spends

LEMMA SendsTypes ==
  ASSUME Types, NEW kind \in FromDevice, NEW arg, Sends(kind, arg),
         Msg(kind, arg) \in DevMessages, DeviceTypes', Len(sent) <= Len(sent'),
         kind \in {"EaStart", "EaData"} => arg.n \in 1 .. Len(sent')
  PROVE  Types'
<1> USE SameTypes DEF Types
<1>1. HistoryTypes'
  <2>1. left' \in [Kinds -> Nat]
    BY SpendsTypes DEF Sends, Kinds
  <2> QED
    BY <2>1 DEF Sends, HistoryTypes
<1>2. Len(sent) \in Nat /\ Len(sent') \in Nat
  BY DEF DeviceTypes
<1>3. ArrivingTypes'
  <2>1. fromDev' = Append(fromDev, Msg(kind, arg)) /\ fromDev \in Seq(DevMessages)
    BY DEF Sends, ArrivingTypes
  <2>2. fromDev' \in Seq(DevMessages)
    BY <2>1
  <2>3. \A i \in 1 .. Len(fromDev') :
          \/ i \in 1 .. Len(fromDev) /\ fromDev'[i] = fromDev[i]
          \/ fromDev'[i] = Msg(kind, arg)
    BY <2>1
  <2>4. Msg(kind, arg).kind = kind /\ Msg(kind, arg).arg = arg
    BY DEF Msg
  <2>5. 1 .. Len(sent) \subseteq 1 .. Len(sent')
    BY <1>2
  <2>6. queued' \in 0 .. Len(fromDev')
    BY <2>1 DEF Sends, ArrivingTypes
  <2> QED
    BY <2>2, <2>3, <2>4, <2>5, <2>6 DEF ArrivingTypes
<1>4. EaTypes'
  <2>1. 0 .. Len(sent) \subseteq 0 .. Len(sent')
    BY <1>2
  <2>2. transferIds' = transferIds /\ transferIds' \in [LinkSids -> 0 .. Len(sent')]
    BY <2>1 DEF EaTypes, Sends, task, eaVars
  <2> QED
    BY <2>2 DEF EaTypes, Sends, task, eaVars
<1> QED
  BY <1>1, <1>3, <1>4 DEF Sends, task

LEMMA PlainMessages ==
  \A kind \in PlainKinds : kind \in FromDevice /\ Msg(kind, 0) \in DevMessages
BY DEF Msg, DevMessages, PlainKinds

LEMMA DeviceActionTypes ==
  ASSUME Types, Device PROVE Types'
<1> USE SameTypes DEF Types
<1>0. Len(sent) \in Nat /\ sent \in Seq(Nat) /\ asked \in Seq(Challenges)
  BY DEF DeviceTypes
<1>1. ASSUME NEW kind \in PlainKinds, Sends(kind, 0), UNCHANGED <<session, sent, asked>>
      PROVE  Types'
  <2>1. /\ kind \in FromDevice /\ Msg(kind, 0) \in DevMessages
        /\ kind \notin {"EaStart", "EaData"} /\ DeviceTypes' /\ Len(sent) <= Len(sent')
    BY <1>0, <1>1, PlainMessages DEF DeviceTypes, PlainKinds
  <2> QED
    BY <1>1, <2>1, SendsTypes
<1>2. CASE DevIdentifies
  BY <1>1, <1>2 DEF DevIdentifies, PlainKinds, FromDevice
<1>3. CASE DevPlays
  BY <1>1, <1>3 DEF DevPlays, PlainKinds, FromDevice
<1>4. CASE DevAuthenticates
  <2>1. CASE /\ UNCHANGED asked
             /\ \/ Sends("RequestCertificate", 0)
                \/ Sends("AuthenticationSucceeded", 0)
                \/ Sends("AuthenticationFailed", 0)
    BY <1>1, <1>4, <2>1 DEF DevAuthenticates, PlainKinds, FromDevice
  <2>2. ASSUME NEW c \in Challenges, Sends("Challenge", c), asked' = Append(asked, c)
        PROVE  Types'
    <3>1. Msg("Challenge", c) \in DevMessages /\ "Challenge" \in FromDevice
      BY DEF Msg, DevMessages, FromDevice
    <3>2. DeviceTypes' /\ Len(sent) <= Len(sent')
      <4>1. asked' \in Seq(Challenges)
        BY <1>0, <2>2
      <4> QED
        BY <1>0, <1>4, <4>1 DEF DevAuthenticates, DeviceTypes
    <3> QED
      BY <2>2, <3>1, <3>2, SendsTypes
  <2> QED
    BY <1>4, <2>1, <2>2 DEF DevAuthenticates
<1>5. ASSUME NEW s \in Sids, DevOpens(s) PROVE Types'
  <2> DEFINE n == Len(sent) + 1
  <2>1. /\ Sends("EaStart", [sid |-> s, n |-> n])
        /\ session' = [session EXCEPT ![s] = [n |-> n, open |-> TRUE]]
        /\ sent' = Append(sent, 0) /\ UNCHANGED asked
    BY <1>5 DEF DevOpens
  <2>2. /\ sent' \in Seq(Nat) /\ Len(sent') = Len(sent) + 1
        /\ n \in 1 .. Len(sent') /\ n \in Nat
    BY <1>0, <2>1
  <2>3. Msg("EaStart", [sid |-> s, n |-> n]) \in DevMessages /\ "EaStart" \in FromDevice
    BY <2>2 DEF Msg, DevMessages, FromDevice
  <2> HIDE DEF n
  <2>4. DeviceTypes'
    <3>1. [n |-> n, open |-> TRUE] \in Sessions
      BY <2>2 DEF Sessions
    <3>2. session' \in [Sids -> Sessions]
      BY <2>1, <3>1 DEF DeviceTypes
    <3>3. \A t \in Sids : session'[t].open => session'[t].n \in 1 .. Len(sent')
      <4> SUFFICES ASSUME NEW t \in Sids, session'[t].open
                   PROVE  session'[t].n \in 1 .. Len(sent')
        OBVIOUS
      <4>1. CASE t = s
        BY <2>1, <2>2, <4>1 DEF DeviceTypes
      <4>2. CASE t # s
        <5>1. session'[t] = session[t]
          BY <2>1, <4>2 DEF DeviceTypes
        <5>2. 1 .. Len(sent) \subseteq 1 .. Len(sent')
          BY <1>0, <2>2
        <5> QED
          BY <5>1, <5>2 DEF DeviceTypes
      <4> QED
        BY <4>1, <4>2
    <3> QED
      BY <2>1, <2>2, <3>2, <3>3 DEF DeviceTypes
  <2>5. [sid |-> s, n |-> n].n \in 1 .. Len(sent') /\ Len(sent) <= Len(sent')
    BY <1>0, <2>2
  <2> QED
    BY <2>1, <2>3, <2>4, <2>5, SendsTypes
<1>6. ASSUME NEW s \in Sids, DevSendsData(s) PROVE Types'
  <2> DEFINE n == session[s].n
             to == IF shared THEN EaLinkSession ELSE s
             arg == [sid |-> to, n |-> n, i |-> sent[n] + 1]
  <2>1. /\ Sends("EaData", arg) /\ sent' = [sent EXCEPT ![n] = @ + 1]
        /\ UNCHANGED <<session, asked>> /\ session[s].open
    BY <1>6 DEF DevSendsData
  <2>2. n \in 1 .. Len(sent) /\ n \in Nat
    BY <1>0, <2>1 DEF DeviceTypes
  <2>3. sent[n] \in Nat
    BY <1>0, <2>2
  <2>4. to \in LinkSids
    BY SidTypes
  <2>5. sent' \in Seq(Nat) /\ Len(sent') = Len(sent)
    BY SMTT(30), <1>0, <2>1, <2>2, <2>3, ExceptSeq
  <2> HIDE DEF n, to
  <2>6. Msg("EaData", arg) \in DevMessages /\ "EaData" \in FromDevice
    BY <2>2, <2>3, <2>4 DEF Msg, DevMessages, FromDevice
  <2>7. arg.n \in 1 .. Len(sent')
    BY <2>2, <2>5
  <2> HIDE DEF arg
  <2>8. DeviceTypes'
    BY <2>1, <2>5 DEF DeviceTypes
  <2> QED
    BY <1>0, <2>1, <2>5, <2>6, <2>7, <2>8, SendsTypes
<1>7. ASSUME NEW s \in Sids, DevCloses(s) PROVE Types'
  <2>1. Msg("EaStop", [sid |-> s]) \in DevMessages /\ "EaStop" \in FromDevice
    BY DEF Msg, DevMessages, FromDevice
  <2>2. DeviceTypes'
    <3>1. \A t \in Sids : session'[t] = IF t = s THEN [session[s] EXCEPT !.open = FALSE] ELSE session[t]
      BY <1>7 DEF DevCloses, DeviceTypes
    <3>2. session' \in [Sids -> Sessions]
      BY <1>7 DEF DevCloses, DeviceTypes, Sessions
    <3>3. session[s] \in Sessions
      BY DEF DeviceTypes
    <3>4. ~ [session[s] EXCEPT !.open = FALSE].open
      BY <3>3 DEF Sessions
    <3> QED
      BY <1>7, <3>1, <3>2, <3>4 DEF DevCloses, DeviceTypes
  <2> QED
    BY <1>0, <1>7, <2>1, <2>2, SendsTypes DEF DevCloses
<1> QED
  BY <1>2, <1>3, <1>4, <1>5, <1>6, <1>7 DEF Device

LEMMA ApplicationTypes ==
  ASSUME Types, Application PROVE Types'
<1> USE SameTypes DEF Types
<1>1. ASSUME NEW kind \in FromApplication, Spends(kind), AppUnchanged, AppTypes'
      PROVE  Types'
  <2>1. HistoryTypes'
    BY <1>1, SpendsTypes DEF HistoryTypes, AppUnchanged, Kinds
  <2> QED
    BY <1>1, <2>1 DEF AppUnchanged, task, device
<1>2. CASE SendHidCommand
  BY <1>1, <1>2 DEF SendHidCommand, FromApplication, AppTypes
<1>3. CASE RequestAppLaunch
  BY <1>1, <1>3 DEF RequestAppLaunch, FromApplication, AppTypes
<1>4. CASE Stop
  BY <1>1, <1>4 DEF Stop, FromApplication, AppTypes
<1>5. CASE StopListening
  BY <1>1, <1>5 DEF StopListening, FromApplication, AppTypes
<1>6. CASE SendOutgoing
  <2>1. PICK h \in DOMAIN handles : outgoing' = Append(outgoing, handles[h].sid)
    BY <1>6 DEF SendOutgoing
  <2>2. handles[h].sid \in LinkSids
    <3>1. handles[h] \in Handles
      BY DEF EaTypes
    <3> QED
      BY <3>1 DEF Handles
  <2>3. AppTypes'
    BY <1>6, <2>1, <2>2 DEF SendOutgoing, AppTypes
  <2> QED
    BY <1>1, <1>6, <2>3 DEF SendOutgoing, FromApplication
<1>7. CASE DropSession
  <2>1. PICK h \in DOMAIN handles : handles' = [handles EXCEPT ![h].open = FALSE]
    BY <1>7 DEF DropSession
  <2>2. handles' \in Seq(Handles) /\ Len(handles') = Len(handles)
    BY <2>1, ClosedTypes DEF EaTypes
  <2>3. EaTypes'
    BY <1>7, <2>2 DEF DropSession, EaTypes, device
  <2>4. HistoryTypes'
    BY <1>7, SpendsTypes DEF DropSession, HistoryTypes, Kinds, FromApplication
  <2> QED
    BY <1>7, <2>3, <2>4 DEF DropSession, device
<1> QED
  BY <1>2, <1>3, <1>4, <1>5, <1>6, <1>7 DEF Application

LEMMA NextTypes == Types /\ [Next]_vars => Types'
<1> SUFFICES ASSUME Types, [Next]_vars PROVE Types'
  OBVIOUS
<1>1. CASE TaskRuns
  BY <1>1, WriteTypes, ReadAheadTypes, AuthenticationTypes, LoopTypes, RequestTypes,
     EaStartTypes, EaStopTypes, EaDataTypes DEF TaskRuns, Branch
<1>2. CASE UNCHANGED vars
  BY <1>2, SameTypes DEF Types, vars, connection, task, device
<1> QED
  BY <1>1, <1>2, FailsTypes, DeviceActionTypes, ApplicationTypes DEF Next

(* The task, the application and the device keep their types.              *)
THEOREM ConnectionTypeCorrect == Spec => [](TypeOK /\ Types)
<1>1. Init => Types
  BY InitTypes
<1>2. Types /\ [Next]_vars => Types'
  BY NextTypes
<1> QED
  BY <1>1, <1>2, TypesImplyTypeOK, PTL DEF Spec

-----------------------------------------------------------------------------
(* The steps of a handler.  Where the task goes after them and what it     *)
(* does when one fails say which steps they may be: reports are dropped    *)
(* when one fails, but the HID remote is not stopped by steps that are.    *)

(* The event of a step, if it has one. *)
HidEvent(kind) ==
  IF kind = "StartHID" THEN "HidRemoteStarted" ELSE "HidRemoteStopped"

Silent(step) == step.events = <<>>

Fits(at, err, step) ==
  \/ /\ at = "auth" /\ err = "end" /\ Silent(step)
     /\ step.msg.kind \in {"Identification", "Certificate", "Response"}
  \/ /\ at = "top" /\ err = "end" /\ Silent(step)
     /\ step.msg.kind \in {"Identification", "EaRequest", "Keepalive", "StartNowPlaying"}
  \/ /\ at = "top" /\ err = "end"
     /\ step.msg.kind \in {"StartHID", "StopHID"}
     /\ step.events = <<Msg(HidEvent(step.msg.kind), 0)>>
  \/ /\ at = "top" /\ err = "drop" /\ Silent(step)
     /\ step.msg.kind \in {"EaData", "StartHID", "Report", "AppLaunch"}
  \/ /\ at = "closing" /\ err = "skip" /\ Silent(step)
     /\ step.msg.kind \in {"StopNowPlaying", "StopHID"}

Plan(at, err, steps) ==
  /\ \A i \in 1 .. Len(steps) : Fits(at, err, steps[i])
  /\ err = "skip" <=> at = "closing"

TodoFits == Plan(pc, onError, todo)

(* The message of the step that is being taken. *)
Writing(kind) == written /\ todo[1].msg.kind = kind

(* A message of the kind is still to be written, or acked. *)
Due(kind) == \E i \in 1 .. Len(todo) : todo[i].msg.kind = kind

WrittenIsTold == written => Wrote(todo[1].msg.kind)

(* The flag of the task and the state of the device's HID remote differ    *)
(* only while a StopHID waits for its ack, or at the end.                  *)
HidInv ==
  /\ ReportsWhileStarted
  /\ \A i \in 1 .. Len(todo) :
       todo[i].msg.kind = "Report" =>
         told.hid \/ \E j \in 1 .. i - 1 : todo[j].msg.kind = "StartHID"
  /\ Writing("StartHID") => told.hid
  /\ hid /\ ~ told.hid =>
       pc \in {"closing", "failed", "ended", "done"} \/ Writing("StopHID")

(* As long as nothing has failed, they agree, and what is on is stopped    *)
(* by the steps of the goodbye.                                            *)
GoodbyeInv ==
  failures = 0 =>
    /\ told.hid = IF written THEN HidAfter(todo[1].msg.kind) ELSE hid
    /\ Wrote("StartNowPlaying") => nowPlaying \/ Writing("StartNowPlaying")
    /\ pc = "closing" =>
         /\ hid => Due("StopHID")
         /\ nowPlaying => Wrote("StopNowPlaying") \/ Due("StopNowPlaying")
    /\ pc \in {"ended", "done"} =>
         HasEvent("Error") \/ (~ hid /\ (nowPlaying => Wrote("StopNowPlaying")))

Both == HasEvent("AuthenticationSucceeded") /\ HasEvent("IdentificationAccepted")

EaRequestInv ==
  /\ accepted => HasEvent("IdentificationAccepted")
  /\ pc \in {"negotiating", "auth"} => ~ HasEvent("AuthenticationSucceeded")
  /\ pc = "negotiating" => ~ HasEvent("IdentificationAccepted")
  /\ pc = "auth" /\ HasEvent("IdentificationAccepted") => accepted
  /\ pc \in {"top", "select"} => HasEvent("AuthenticationSucceeded")
  /\ Wrote("EaRequest") \/ Due("EaRequest") => Both
  /\ pc \in {"top", "select"} /\ Both => Wrote("EaRequest") \/ Due("EaRequest")

(* The last events are sent when the task leaves the loop, and not before. *)
LastEvents ==
  /\ pc \notin {"ended", "done"} =>
       Positions("Disconnected") = {} /\ Positions("Error") = {}
  /\ pc \in {"ended", "done"} => Positions("Disconnected") = {Len(events)}
  /\ pc \in {"top", "select", "closing"} => Positions("AuthenticationSucceeded") # {}

EventInv == EventOrder /\ LastEvents

-----------------------------------------------------------------------------
(* What a step does to the steps of the handler                            *)

LEMMA PlanOfNone ==
  ASSUME NEW at, NEW err, err = "skip" <=> at = "closing"
  PROVE  Plan(at, err, <<>>)
BY DEF Plan

LEMMA PlanOfOne ==
  ASSUME NEW at, NEW err, NEW step, Fits(at, err, step), err = "skip" <=> at = "closing"
  PROVE  Plan(at, err, <<step>>)
BY DEF Plan

LEMMA PlanOfSome ==
  ASSUME NEW at, NEW err, NEW p \in Seq(Steps), NEW q \in Seq(Steps),
         Plan(at, err, p), Plan(at, err, q)
  PROVE  Plan(at, err, p \o q)
BY DEF Plan

LEMMA PlanOfRest ==
  ASSUME NEW at, NEW err, NEW p \in Seq(Steps), p # <<>>, Plan(at, err, p)
  PROVE  Plan(at, err, Tail(p))
BY DEF Plan

(* A step without an event. *)
LEMMA SilentFits ==
  ASSUME NEW kind, NEW arg, NEW at, NEW err,
         \/ /\ at = "auth" /\ err = "end"
            /\ kind \in {"Identification", "Certificate", "Response"}
         \/ /\ at = "top" /\ err = "end"
            /\ kind \in {"Identification", "EaRequest", "Keepalive", "StartNowPlaying"}
         \/ /\ at = "top" /\ err = "drop"
            /\ kind \in {"EaData", "StartHID", "Report", "AppLaunch"}
         \/ /\ at = "closing" /\ err = "skip"
            /\ kind \in {"StopNowPlaying", "StopHID"}
  PROVE  /\ Fits(at, err, Step(kind, arg, <<>>))
         /\ Plan(at, err, <<Step(kind, arg, <<>>)>>)
<1>1. Fits(at, err, Step(kind, arg, <<>>))
  BY DEF Fits, Step, Msg, Silent
<1> QED
  BY <1>1, PlanOfOne

LEMMA GoodbyePlan == ModeTypes => Plan("closing", "skip", Goodbye)
<1> SUFFICES ASSUME ModeTypes PROVE Plan("closing", "skip", Goodbye)
  OBVIOUS
<1> DEFINE p == IF nowPlaying THEN <<Step("StopNowPlaying", 0, <<>>)>> ELSE <<>>
           q == IF hid THEN <<Step("StopHID", 0, <<>>)>> ELSE <<>>
<1>1. Plan("closing", "skip", p) /\ Plan("closing", "skip", q)
  BY SilentFits, PlanOfNone
<1>2. p \in Seq(Steps) /\ q \in Seq(Steps)
  <2>1. <<>> \in Seq(Events) /\ <<>> \in Seq(Steps) /\ 0 \in Nat
    OBVIOUS
  <2> QED
    BY <2>1, OneStepType DEF PlainSteps
<1>3. Goodbye = p \o q
  BY DEF Goodbye
<1> HIDE DEF p, q
<1> QED
  BY <1>1, <1>2, <1>3, PlanOfSome

LEMMA CommandPlan == ModeTypes => Plan("top", "drop", Command)
<1> SUFFICES ASSUME ModeTypes PROVE Plan("top", "drop", Command)
  OBVIOUS
<1> DEFINE p == IF hid THEN <<>> ELSE <<Step("StartHID", 0, <<>>)>>
           a == Step("Report", 1, <<>>)
           b == Step("Report", 0, <<>>)
<1>1. Plan("top", "drop", p) /\ Fits("top", "drop", a) /\ Fits("top", "drop", b)
  BY SilentFits, PlanOfNone
<1>2. p \in Seq(Steps) /\ a \in Steps /\ b \in Steps
  <2>1. <<>> \in Seq(Events) /\ <<>> \in Seq(Steps) /\ 0 \in Nat /\ 1 \in Nat
    OBVIOUS
  <2> QED
    BY <2>1, OneStepType, StepType DEF PlainSteps
<1>3. Command = p \o <<a, b>>
  BY DEF Command
<1> HIDE DEF p, a, b
<1>4. Plan("top", "drop", <<a, b>>) /\ <<a, b>> \in Seq(Steps)
  BY <1>1, <1>2 DEF Plan
<1> QED
  BY <1>1, <1>2, <1>3, <1>4, PlanOfSome

EaStartSteps ==
  (IF EnableNowPlaying /\ ~ nowPlaying
   THEN <<Step("StartNowPlaying", 0, <<>>)>> ELSE <<>>) \o
  (IF EnableHid /\ ~ hid
   THEN <<Step("StartHID", 0, <<Msg("HidRemoteStarted", 0)>>)>> ELSE <<>>)

LEMMA EaStartPlan == ModeTypes => Plan("top", "end", EaStartSteps)
<1> SUFFICES ASSUME ModeTypes PROVE Plan("top", "end", EaStartSteps)
  OBVIOUS
<1> DEFINE p == IF EnableNowPlaying /\ ~ nowPlaying
                THEN <<Step("StartNowPlaying", 0, <<>>)>> ELSE <<>>
           s == Step("StartHID", 0, <<Msg("HidRemoteStarted", 0)>>)
           q == IF EnableHid /\ ~ hid THEN <<s>> ELSE <<>>
<1>1. Fits("top", "end", s)
  BY DEF Fits, Step, Msg, HidEvent
<1>2. Plan("top", "end", p) /\ Plan("top", "end", q)
  BY <1>1, SilentFits, PlanOfNone, PlanOfOne
<1>3. p \in Seq(Steps) /\ q \in Seq(Steps)
  <2>1. <<>> \in Seq(Events) /\ <<>> \in Seq(Steps) /\ 0 \in Nat
    OBVIOUS
  <2>2. Msg("HidRemoteStarted", 0) \in Events
    BY <2>1, EventType DEF EventKinds
  <2>3. <<Msg("HidRemoteStarted", 0)>> \in Seq(Events)
    BY <2>2
  <2> QED
    BY <2>1, <2>3, OneStepType DEF PlainSteps
<1>4. EaStartSteps = p \o q
  BY DEF EaStartSteps
<1> HIDE DEF p, q
<1> QED
  BY <1>2, <1>3, <1>4, PlanOfSome

(* The handlers: all that the task does but writing a message and taking   *)
(* note of its ack.                                                        *)
Handler ==
  Negotiated \/ Authentication \/ Top \/ Branch \/ Closed \/ Failed \/ Ended

(* Every handler starts without steps and leaves steps that fit the place  *)
(* it goes to; no handler changes the flags of the modes.                  *)
LEMMA HandlerPlans ==
  ASSUME Types, Handler \/ ReceiveFails
  PROVE  /\ todo = <<>> /\ written' = FALSE
         /\ UNCHANGED <<hid, nowPlaying>>
         /\ Plan(pc', onError', todo')
<1> USE DEF Ready, Goes, GoesOn, modeVars
<1>0. ModeTypes
  BY DEF Types
<1>1. CASE Negotiated \/ Closed \/ Failed \/ Ended \/ ReceiveFails
  BY <1>1, PlanOfNone DEF Negotiated, Closed, Failed, Ended, ReceiveFails
<1>2. CASE Top
  BY <1>0, <1>2, PlanOfNone, GoodbyePlan DEF Top
<1>3. CASE AuthIdentification \/ AuthCertificate \/ AuthChallenge \/ AuthSucceeded \/ AuthFailed
  BY <1>3, PlanOfNone, SilentFits
     DEF AuthIdentification, AuthCertificate, AuthChallenge, AuthSucceeded, AuthFailed
<1>4. CASE ControlIdentification
  BY <1>4, PlanOfNone, SilentFits DEF ControlIdentification
<1>5. CASE ControlOther \/ EaDataIgnored
  BY <1>5, PlanOfNone DEF ControlOther, EaDataIgnored
<1>6. CASE EaStart
  BY <1>0, <1>6, PlanOfNone, EaStartPlan DEF EaStart, EaStartSteps
<1>7. CASE EaStop
  <2> DEFINE s == Step("StopHID", 0, <<Msg("HidRemoteStopped", 0)>>)
  <2>1. Fits("top", "end", s)
    BY DEF Fits, Step, Msg, HidEvent
  <2> QED
    BY <1>7, <2>1, PlanOfNone, PlanOfOne DEF EaStop
<1>8. CASE EaData
  BY ZenonT(60), <1>8, PlanOfNone DEF EaData
<1>9. CASE OutgoingData \/ AppLaunch \/ Timer
  BY <1>9, PlanOfNone, SilentFits DEF OutgoingData, AppLaunch, Timer
<1>10. CASE HidCommand
  BY <1>0, <1>10, CommandPlan DEF HidCommand
<1> QED
  BY <1>1, <1>2, <1>3, <1>4, <1>5, <1>6, <1>7, <1>8, <1>9, <1>10
     DEF Handler, Authentication, Branch

(* The device sends a message, which may be a challenge, or none; or a     *)
(* challenge is dropped.                                                   *)
Arrives ==
  \/ UNCHANGED <<fromDev, asked>>
  \/ /\ Responding /\ Incoming({"Challenge"}) /\ UNCHANGED asked
     /\ fromDev' = Without(fromDev, queued + 1)
  \/ \E m \in DevMessages :
       /\ fromDev' = Append(fromDev, m)
       /\ IF m.kind = "Challenge"
          THEN m.arg \in Challenges /\ asked' = Append(asked, m.arg)
          ELSE UNCHANGED asked

(* Steps of the device and of the application, and messages read while the *)
(* ack of one is waited for, change nothing else of this.                  *)
Quiet == UNCHANGED <<pc, stepVars, modeVars, events, told, failures>> /\ Arrives

Writes ==
  Write /\ told' = Learns(todo[1].msg) /\ UNCHANGED <<left, device, failures>>

Answers == SendOver /\ UNCHANGED <<fromDev, left, device, failures, told>>

Runs == Handler /\ UNCHANGED <<left, device, failures, told>>

GivesUp == StepFails /\ failures' = failures + 1 /\ UNCHANGED <<device, told>>

Loses == ReceiveFails /\ failures' = failures + 1 /\ UNCHANGED <<device, told>>

LEMMA DeviceArrives == ASSUME Types, Device PROVE Arrives
<1>1. ASSUME NEW kind \in FromDevice \ {"Challenge"}, NEW arg, Sends(kind, arg),
             UNCHANGED asked, Msg(kind, arg) \in DevMessages
      PROVE  Arrives
  BY <1>1 DEF Sends, Arrives, Msg
<1>2. ASSUME NEW kind \in PlainKinds, Sends(kind, 0), UNCHANGED asked PROVE Arrives
  BY <1>1, <1>2, PlainMessages DEF PlainKinds
<1>3. CASE DevIdentifies \/ DevPlays
  BY <1>2, <1>3 DEF DevIdentifies, DevPlays, PlainKinds, FromDevice
<1>4. CASE DevAuthenticates
  <2>1. ASSUME NEW c \in Challenges, Sends("Challenge", c), asked' = Append(asked, c)
        PROVE  Arrives
    <3>1. Msg("Challenge", c) \in DevMessages
      BY DEF Msg, DevMessages
    <3> QED
      BY <2>1, <3>1 DEF Sends, Arrives, Msg
  <2> QED
    BY <1>2, <1>4, <2>1 DEF DevAuthenticates, PlainKinds, FromDevice
<1>5. ASSUME NEW s \in Sids, DevOpens(s) PROVE Arrives
  <2>1. Len(sent) + 1 \in Nat
    BY DEF Types, DeviceTypes
  <2>2. Msg("EaStart", [sid |-> s, n |-> Len(sent) + 1]) \in DevMessages
    BY <2>1 DEF Msg, DevMessages
  <2> QED
    BY <1>1, <1>5, <2>2 DEF DevOpens, FromDevice
<1>6. ASSUME NEW s \in Sids, DevSendsData(s) PROVE Arrives
  <2> DEFINE n == session[s].n
             to == IF shared THEN EaLinkSession ELSE s
  <2>1. n \in 1 .. Len(sent) /\ n \in Nat /\ sent[n] \in Nat
    BY <1>6 DEF DevSendsData, Types, DeviceTypes
  <2>2. to \in LinkSids
    BY SidTypes
  <2> HIDE DEF n, to
  <2>3. Msg("EaData", [sid |-> to, n |-> n, i |-> sent[n] + 1]) \in DevMessages
    BY <2>1, <2>2 DEF Msg, DevMessages
  <2> QED
    BY <1>1, <1>6, <2>3 DEF DevSendsData, FromDevice, n, to
<1>7. ASSUME NEW s \in Sids, DevCloses(s) PROVE Arrives
  <2>1. Msg("EaStop", [sid |-> s]) \in DevMessages
    BY DEF Msg, DevMessages
  <2> QED
    BY <1>1, <1>7, <2>1 DEF DevCloses, FromDevice
<1> QED
  BY <1>3, <1>4, <1>5, <1>6, <1>7 DEF Device

LEMMA NextCases ==
  ASSUME Types, [Next]_vars
  PROVE  Writes \/ Answers \/ Runs \/ GivesUp \/ Loses \/ Quiet
<1>1. CASE TaskRuns
  <2>1. CASE Write /\ told' = Learns(Head(todo).msg) /\ UNCHANGED <<left, device, failures>>
    <3>1. Head(todo) = todo[1]
      BY <2>1 DEF Write, Types, StepTypes
    <3> QED
      BY <2>1, <3>1 DEF Writes
  <2>2. CASE (Acked \/ TakenForAck) /\ UNCHANGED <<left, device, failures, told>>
    BY <2>2 DEF Acked, TakenForAck, Answers
  <2>4. CASE (ReadAhead \/ ChallengeDropped) /\ UNCHANGED <<left, device, failures, told>>
    <3>1. CASE ReadAhead
      BY <2>4, <3>1 DEF ReadAhead, task, device, Quiet, Arrives
    <3>2. CASE ChallengeDropped
      <4>1. (queued + 1) - 1 = queued /\ (queued + 1) + 1 = queued + 2
        BY DEF Types, ArrivingTypes
      <4>2. fromDev' = Without(fromDev, queued + 1)
        BY <3>2, <4>1 DEF ChallengeDropped, Without
      <4> QED
        BY <2>4, <3>2, <4>2 DEF ChallengeDropped, task, device, Quiet, Arrives
    <3> QED
      BY <2>4, <3>1, <3>2
  <2>3. CASE Handler /\ UNCHANGED <<left, device, failures, told>>
    BY <2>3 DEF Runs
  <2> QED
    BY <1>1, <2>1, <2>2, <2>3, <2>4 DEF TaskRuns, Handler
<1>2. CASE Fails
  BY <1>2 DEF Fails, GivesUp, Loses
<1>3. CASE Device
  BY <1>3, DeviceArrives
     DEF Device, DevIdentifies, DevAuthenticates, DevOpens, DevSendsData, DevCloses,
         DevPlays, Sends, task, Quiet
<1>4. CASE Application
  BY <1>4 DEF Application, SendHidCommand, RequestAppLaunch, SendOutgoing, Stop,
              DropSession, StopListening, AppUnchanged, task, Quiet, Arrives, device
<1>5. CASE UNCHANGED vars
  BY <1>5 DEF vars, connection, task, device, Quiet, Arrives
<1> QED
  BY <1>1, <1>2, <1>3, <1>4, <1>5 DEF Next
(* The first step is Head(todo), and the rest are moved up by one. *)
LEMMA RestOfTodo ==
  ASSUME Types, todo # <<>>, todo' = Tail(todo)
  PROVE  /\ Head(todo) = todo[1] /\ todo[1] \in Steps
         /\ Len(todo') = Len(todo) - 1
         /\ \A i \in 1 .. Len(todo') :
              i + 1 \in 1 .. Len(todo) /\ todo'[i] = todo[i + 1]
BY DEF Types, StepTypes

(* The message that is written is one the device has been told. *)
StepInv == TodoFits /\ WrittenIsTold

LEMMA NextStepInv ==
  ASSUME Types, StepInv, [Next]_vars
  PROVE  StepInv'
<1> USE DEF StepInv, TodoFits
<1>1. CASE Writes
  <2>1. WrittenIsTold'
    BY <1>1 DEF Writes, Write, WrittenIsTold, Wrote, Learns
  <2> QED
    BY <1>1, <2>1 DEF Writes, Write
<1>2. CASE Answers
  <2>1. todo # <<>>
    BY <1>2 DEF Answers, SendOver, Types, StepTypes
  <2>2. TodoFits'
    BY <1>2, <2>1, PlanOfRest DEF Answers, SendOver, Types, StepTypes
  <2> QED
    BY <1>2, <2>2 DEF Answers, SendOver, WrittenIsTold
<1>3. CASE Runs \/ Loses
  BY <1>3, HandlerPlans DEF Runs, Loses, WrittenIsTold
<1>4. CASE GivesUp
  <2>1. ~ written'
    BY <1>4 DEF GivesUp, StepFails, GoesOn, Goes, Types, StepTypes, OnErrors
  <2>2. todo # <<>> /\ todo \in Seq(Steps) /\ onError \in OnErrors
    BY <1>4 DEF GivesUp, StepFails, Types, StepTypes
  <2>3. \/ onError = "end" /\ pc' = "failed" /\ todo' = <<>> /\ onError' = "end"
        \/ onError = "drop" /\ pc' = pc /\ todo' = <<>> /\ onError' = "drop"
        \/ onError = "skip" /\ pc' = pc /\ todo' = Tail(todo) /\ onError' = "skip"
    BY <1>4, <2>2 DEF GivesUp, StepFails, GoesOn, Goes, OnErrors
  <2>4. TodoFits'
    BY <2>2, <2>3, PlanOfRest DEF Plan
  <2> QED
    BY <2>1, <2>4 DEF WrittenIsTold
<1>5. CASE Quiet
  BY <1>5 DEF Quiet, stepVars, WrittenIsTold, Wrote
<1> QED
  BY <1>1, <1>2, <1>3, <1>4, <1>5, NextCases

-----------------------------------------------------------------------------
(* HID reports                                                             *)

(* Reports follow a StartHID, or the HID remote is started. *)
LEMMA HandlerReports ==
  ASSUME Types, HidInv, Handler \/ ReceiveFails
  PROVE  \A i \in 1 .. Len(todo') :
           todo'[i].msg.kind = "Report" =>
             told.hid \/ \E j \in 1 .. i - 1 : todo'[j].msg.kind = "StartHID"
<1>1. CASE HidCommand
  <2>1. ~ hid \/ told.hid
    BY <1>1 DEF HidCommand, Ready, HidInv, Writing, Types, StepTypes
  <2>2. CASE hid
    BY <2>1, <2>2
  <2>3. CASE ~ hid
    <3> DEFINE a == Step("StartHID", 0, <<>>)
               b == Step("Report", 1, <<>>)
               c == Step("Report", 0, <<>>)
    <3>1. todo' = <<a>> \o <<b, c>>
      BY <1>1, <2>3 DEF HidCommand, Goes, Command
    <3>2. a.msg.kind = "StartHID"
      BY DEF Step, Msg
    <3> HIDE DEF a, b, c
    <3>3. todo'[1] = a
      BY <3>1
    <3>4. 1 \in 1 .. 2 - 1 /\ \A i \in 1 .. Len(todo') : i # 1 => 1 \in 1 .. i - 1
      BY <3>1
    <3> QED
      BY <3>2, <3>3, <3>4
  <2> QED
    BY <2>2, <2>3
<1>2. CASE ~ HidCommand
  <2>1. \A i \in 1 .. Len(todo') : Fits(pc', onError', todo'[i])
    BY HandlerPlans DEF Plan
  <2>2. onError' # "drop" \/ OutgoingData \/ AppLaunch
    BY <1>2 DEF Handler, Negotiated, Authentication, Top, Branch, Closed, Failed, Ended,
       ReceiveFails, AuthIdentification, AuthCertificate, AuthChallenge, AuthSucceeded,
       AuthFailed, ControlIdentification, ControlOther, EaStart, EaStop, EaData,
       EaDataIgnored, Timer, GoesOn, Goes
  <2>3. CASE onError' # "drop"
    BY <2>1, <2>3 DEF Fits
  <2>4. CASE OutgoingData \/ AppLaunch
    BY <2>4 DEF OutgoingData, AppLaunch, Goes, Step, Msg
  <2> QED
    BY <2>2, <2>3, <2>4
<1> QED
  BY <1>1, <1>2

LEMMA NextHidInv ==
  ASSUME Types, StepInv, HidInv, [Next]_vars
  PROVE  HidInv'
<1> USE DEF HidInv, ReportsWhileStarted, Writing
<1>0. /\ \A i \in 1 .. Len(todo) : Fits(pc, onError, todo[i])
      /\ onError = "skip" <=> pc = "closing"
  BY DEF StepInv, TodoFits, Plan
<1>1. CASE Writes
  <2>1. /\ 1 \in 1 .. Len(todo)
        /\ todo' = todo /\ written' /\ pc' = pc /\ hid' = hid /\ told' = Learns(todo[1].msg)
    BY <1>1 DEF Writes, Write, Types, StepTypes, modeVars
  <2>2. told'.hid = (todo[1].msg.kind = "StartHID" \/ (told.hid /\ todo[1].msg.kind # "StopHID"))
    BY <2>1 DEF Learns
  <2>3. told'.misled = (told.misled \/ (todo[1].msg.kind = "Report" /\ ~ told.hid))
    BY <2>1 DEF Learns
  <2>4. ~ told'.misled
    <3>1. todo[1].msg.kind = "Report" => told.hid
      <4>1. ~ \E j \in 1 .. 1 - 1 : todo[j].msg.kind = "StartHID"
        OBVIOUS
      <4> QED
        BY <2>1, <4>1
    <3>2. ~ told.misled
      OBVIOUS
    <3> QED
      BY <2>3, <3>1, <3>2
  <2>5. ASSUME NEW i \in 1 .. Len(todo), todo[i].msg.kind = "Report" PROVE
          told'.hid \/ \E j \in 1 .. i - 1 : todo[j].msg.kind = "StartHID"
    <3>1. todo[1].msg.kind # "StopHID"
      BY <1>0, <2>1, <2>5 DEF Fits
    <3> QED
      BY <2>2, <2>5, <3>1
  <2>6. hid' /\ ~ told'.hid =>
          pc' \in {"closing", "failed", "ended", "done"} \/ todo'[1].msg.kind = "StopHID"
    BY <2>1, <2>2
  <2> QED
    BY <2>1, <2>2, <2>4, <2>5, <2>6
<1>2. CASE Answers
  <2>1. /\ todo # <<>> /\ written /\ ~ written' /\ todo' = Tail(todo)
        /\ UNCHANGED <<pc, told>>
    BY <1>2 DEF Answers, SendOver, Types, StepTypes
  <2>2. hid' = HidAfter(todo[1].msg.kind)
    BY <1>2, <2>1, RestOfTodo DEF Answers, SendOver
  <2>3. ASSUME NEW i \in 1 .. Len(todo'), todo'[i].msg.kind = "Report" PROVE
          told.hid \/ \E j \in 1 .. i - 1 : todo'[j].msg.kind = "StartHID"
    <3>1. i + 1 \in 1 .. Len(todo) /\ todo[i + 1] = todo'[i] /\ i \in Nat
      BY <2>1, <2>3, RestOfTodo
    <3>2. CASE told.hid
      BY <3>2
    <3>3. CASE ~ told.hid
      <4>1. PICK j \in 1 .. i : todo[j].msg.kind = "StartHID"
        BY <2>3, <3>1, <3>3
      <4>2. j # 1
        BY <2>1, <3>3, <4>1
      <4>3. j - 1 \in 1 .. i - 1 /\ j - 1 \in 1 .. Len(todo')
        BY <3>1, <4>1, <4>2
      <4>4. todo'[j - 1] = todo[j]
        BY <2>1, <4>1, <4>3, RestOfTodo
      <4> QED
        BY <4>1, <4>3, <4>4
    <3> QED
      BY <3>2, <3>3
  <2>4. hid' /\ ~ told.hid => pc \in {"closing", "failed", "ended", "done"}
    BY <2>1, <2>2 DEF HidAfter
  <2> QED
    BY <2>1, <2>3, <2>4
<1>3. CASE Runs \/ Loses
  <2>1. /\ todo = <<>> /\ ~ written' /\ UNCHANGED <<hid, told>>
        /\ Handler \/ ReceiveFails
    BY <1>3, HandlerPlans DEF Runs, Loses
  <2>2. ~ written
    BY <2>1 DEF Types, StepTypes
  <2>3. pc \in {"closing", "failed", "ended", "done"} => pc' \in {"closing", "failed", "ended", "done"}
    BY <2>1 DEF Handler, Negotiated, Authentication, Top, Branch, Closed, Failed, Ended,
       ReceiveFails, AuthIdentification, AuthCertificate, AuthChallenge, AuthSucceeded,
       AuthFailed, ControlIdentification, ControlOther, EaStart, EaStop, EaData,
       EaDataIgnored, OutgoingData, HidCommand, AppLaunch, Timer, Ready, GoesOn, Goes
  <2> QED
    BY <2>1, <2>2, <2>3, HandlerReports
<1>4. CASE GivesUp
  <2>1. todo # <<>> /\ onError \in OnErrors /\ UNCHANGED <<hid, told>>
    BY <1>4 DEF GivesUp, StepFails, Types, StepTypes, modeVars
  <2>2. \/ onError = "end" /\ pc' = "failed" /\ todo' = <<>>
        \/ onError = "drop" /\ pc' = pc /\ todo' = <<>>
        \/ onError = "skip" /\ pc' = pc /\ todo' = Tail(todo)
    BY <1>4, <2>1 DEF GivesUp, StepFails, GoesOn, Goes, OnErrors
  <2>3. ~ written'
    BY <1>4, <2>1 DEF GivesUp, StepFails, GoesOn, Goes, OnErrors
  <2>4. \A i \in 1 .. Len(todo') : todo'[i].msg.kind # "Report"
    <3>1. CASE todo' = <<>>
      BY <3>1
    <3>2. CASE onError = "skip" /\ todo' = Tail(todo)
      <4>1. \A i \in 1 .. Len(todo) : todo[i].msg.kind # "Report"
        BY <1>0, <3>2 DEF Fits
      <4> QED
        BY <2>1, <3>2, <4>1, RestOfTodo
    <3> QED
      BY <2>2, <3>1, <3>2
  <2>5. hid' /\ ~ told'.hid => pc' \in {"closing", "failed", "ended", "done"}
    <3>1. CASE onError = "drop"
      <4>1. 1 \in 1 .. Len(todo)
        BY <2>1 DEF Types, StepTypes
      <4>2. todo[1].msg.kind # "StopHID" /\ pc = "top"
        BY <1>0, <3>1, <4>1 DEF Fits
      <4> QED
        BY <2>1, <2>2, <4>2
    <3> QED
      BY <1>0, <2>1, <2>2, <3>1 DEF OnErrors
  <2> QED
    BY <2>1, <2>3, <2>4, <2>5
<1>5. CASE Quiet
  BY <1>5 DEF Quiet, stepVars, modeVars
<1> QED
  BY <1>1, <1>2, <1>3, <1>4, <1>5, NextCases

LEMMA InitStepHid == Init => StepInv /\ HidInv
<1> SUFFICES ASSUME Init PROVE StepInv /\ HidInv
  OBVIOUS
<1>1. todo = <<>> /\ ~ written /\ pc = "negotiating" /\ onError = "end" /\ ~ hid
      /\ ~ told.misled
  BY DEF Init, ConnectionInit, ToldNothing
<1> QED
  BY <1>1 DEF StepInv, TodoFits, Plan, WrittenIsTold, HidInv, ReportsWhileStarted, Writing

(* HID reports reach a device whose HID remote is started, whatever sends  *)
(* fail and whenever sessions end: the flag of the task may be behind what *)
(* the device was told, but then no report is sent.                        *)
THEOREM ReportsReachStartedHid == Spec => []ReportsWhileStarted
<1> DEFINE I == Types /\ StepInv /\ HidInv
<1>1. Init => I
  BY InitTypes, InitStepHid
<1>2. I /\ [Next]_vars => I'
  BY NextTypes, NextStepInv, NextHidInv
<1>3. I => ReportsWhileStarted
  BY DEF HidInv
<1> HIDE DEF I
<1> QED
  BY <1>1, <1>2, <1>3, PTL DEF Spec

-----------------------------------------------------------------------------
(* The goodbye                                                             *)

LEMMA HasEventKept ==
  ASSUME events \in Seq(Events), NEW evs \in Seq(Events), Emits(evs), NEW kind
  PROVE  HasEvent(kind) => HasEvent(kind)'
<1> SUFFICES ASSUME NEW i \in 1 .. Len(events), events[i].kind = kind
             PROVE  HasEvent(kind)'
  BY DEF HasEvent
<1>1. i \in 1 .. Len(events') /\ events'[i] = events[i]
  BY DEF Emits
<1> QED
  BY <1>1 DEF HasEvent

LEMMA DueMoves ==
  ASSUME Types, todo # <<>>, todo' = Tail(todo), NEW kind, Due(kind), todo[1].msg.kind # kind
  PROVE  Due(kind)'
<1>1. PICK i \in 1 .. Len(todo) : todo[i].msg.kind = kind
  BY DEF Due
<1>2. i # 1
  BY <1>1
<1>3. i - 1 \in 1 .. Len(todo') /\ todo'[i - 1] = todo[i]
  BY <1>1, <1>2, RestOfTodo
<1> QED
  BY <1>1, <1>3 DEF Due

LEMMA GoodbyeStops ==
  /\ hid => \E i \in 1 .. Len(Goodbye) : Goodbye[i].msg.kind = "StopHID"
  /\ nowPlaying => \E i \in 1 .. Len(Goodbye) : Goodbye[i].msg.kind = "StopNowPlaying"
<1> DEFINE a == Step("StopNowPlaying", 0, <<>>)
           b == Step("StopHID", 0, <<>>)
<1>1. a.msg.kind = "StopNowPlaying" /\ b.msg.kind = "StopHID"
  BY DEF Step, Msg
<1>2. Goodbye = (IF nowPlaying THEN <<a>> ELSE <<>>) \o (IF hid THEN <<b>> ELSE <<>>)
  BY DEF Goodbye
<1> HIDE DEF a, b
<1>3. CASE nowPlaying /\ hid
  <2>1. Goodbye = <<a>> \o <<b>>
    BY <1>2, <1>3
  <2>2. Len(Goodbye) = 2 /\ Goodbye[1] = a /\ Goodbye[2] = b
    BY <2>1
  <2> QED
    BY <1>1, <2>2
<1>4. CASE nowPlaying /\ ~ hid
  <2>1. Goodbye = <<a>>
    BY <1>2, <1>4
  <2>2. Len(Goodbye) = 1 /\ Goodbye[1] = a
    BY <2>1
  <2> QED
    BY <1>1, <1>4, <2>2
<1>5. CASE ~ nowPlaying /\ hid
  <2>1. Goodbye = <<b>>
    BY <1>2, <1>5
  <2>2. Len(Goodbye) = 1 /\ Goodbye[1] = b
    BY <2>1
  <2> QED
    BY <1>1, <1>5, <2>2
<1> QED
  BY <1>3, <1>4, <1>5

LEMMA NextGoodbyeInv ==
  ASSUME Types, StepInv, GoodbyeInv, [Next]_vars
  PROVE  GoodbyeInv'
<1> USE DEF Writing
<1>0. /\ \A i \in 1 .. Len(todo) : Fits(pc, onError, todo[i])
      /\ onError = "skip" <=> pc = "closing"
      /\ hid \in BOOLEAN /\ nowPlaying \in BOOLEAN /\ told.hid \in BOOLEAN
  BY DEF StepInv, TodoFits, Plan, Types, ModeTypes, HistoryTypes
<1>1. CASE Writes
  <2>1. /\ 1 \in 1 .. Len(todo) /\ ~ written /\ written'
        /\ UNCHANGED <<todo, pc, hid, nowPlaying, events, failures>>
        /\ told' = Learns(todo[1].msg)
    BY <1>1 DEF Writes, Write, Types, StepTypes, modeVars
  <2>2. SUFFICES ASSUME failures = 0 PROVE GoodbyeInv'
    BY <2>1 DEF GoodbyeInv
  <2>3. told'.hid = HidAfter(todo[1].msg.kind)
    <3>1. told.hid = hid
      BY <2>1, <2>2 DEF GoodbyeInv
    <3>2. told'.hid = (todo[1].msg.kind = "StartHID" \/ (told.hid /\ todo[1].msg.kind # "StopHID"))
      BY <2>1 DEF Learns
    <3> QED
      BY <3>1, <3>2 DEF HidAfter
  <2>4. Wrote("StartNowPlaying")' => nowPlaying \/ todo[1].msg.kind = "StartNowPlaying"
    <3>1. told'.kinds = told.kinds \cup {todo[1].msg.kind}
      BY <2>1 DEF Learns
    <3>2. Wrote("StartNowPlaying") => nowPlaying
      BY <2>1, <2>2 DEF GoodbyeInv
    <3> QED
      BY <3>1, <3>2 DEF Wrote
  <2>5. Wrote("StopNowPlaying") => Wrote("StopNowPlaying")'
    BY <2>1 DEF Learns, Wrote
  <2>6. (HidAfter(todo[1].msg.kind))' = HidAfter(todo[1].msg.kind)
    BY <2>1 DEF HidAfter
  <2>7. pc \notin {"ended", "done"}
    BY <1>0, <2>1 DEF Fits
  <2> QED
    BY <2>1, <2>2, <2>3, <2>4, <2>5, <2>6, <2>7 DEF GoodbyeInv, Due
<1>2. CASE Answers
  <2>1. /\ 1 \in 1 .. Len(todo) /\ todo # <<>> /\ written /\ ~ written' /\ todo' = Tail(todo)
        /\ UNCHANGED <<pc, told, failures>>
    BY <1>2 DEF Answers, SendOver, Types, StepTypes
  <2>2. /\ hid' = HidAfter(todo[1].msg.kind)
        /\ nowPlaying' = (nowPlaying \/ todo[1].msg.kind = "StartNowPlaying")
    BY <1>2, <2>1, RestOfTodo DEF Answers, SendOver
  <2>3. SUFFICES ASSUME failures = 0 PROVE GoodbyeInv'
    BY <2>1 DEF GoodbyeInv
  <2>4. told.hid = HidAfter(todo[1].msg.kind)
    BY <2>1, <2>3 DEF GoodbyeInv
  <2>5. Wrote("StartNowPlaying") => nowPlaying'
    BY <2>1, <2>2, <2>3 DEF GoodbyeInv
  <2>6. ASSUME pc = "closing"
        PROVE  /\ hid' => Due("StopHID")'
               /\ nowPlaying' => Wrote("StopNowPlaying") \/ Due("StopNowPlaying")'
    <3>1. todo[1].msg.kind \in {"StopNowPlaying", "StopHID"}
      BY <1>0, <2>1, <2>6 DEF Fits
    <3>2. hid' => hid /\ todo[1].msg.kind # "StopHID"
      BY <2>2, <3>1 DEF HidAfter
    <3>3. hid' => Due("StopHID")'
      BY <2>1, <2>3, <2>6, <3>2, DueMoves DEF GoodbyeInv
    <3>4. nowPlaying' => nowPlaying
      BY <2>2, <3>1
    <3>5. CASE todo[1].msg.kind = "StopNowPlaying"
      BY <2>1, <3>3, <3>5 DEF StepInv, WrittenIsTold
    <3>6. CASE todo[1].msg.kind # "StopNowPlaying"
      BY <2>1, <2>3, <2>6, <3>3, <3>4, <3>6, DueMoves DEF GoodbyeInv
    <3> QED
      BY <3>5, <3>6
  <2>7. pc \notin {"ended", "done"}
    BY <1>0, <2>1 DEF Fits
  <2> QED
    BY <2>1, <2>2, <2>4, <2>5, <2>6, <2>7 DEF GoodbyeInv, Wrote
<1>3. CASE Runs
  <2>1. /\ todo = <<>> /\ ~ written /\ ~ written'
        /\ UNCHANGED <<hid, nowPlaying, told, failures>> /\ Handler
    BY <1>3, HandlerPlans DEF Runs, Types, StepTypes
  <2>2. SUFFICES ASSUME failures = 0 PROVE GoodbyeInv'
    BY <2>1 DEF GoodbyeInv
  <2>3. told.hid = hid /\ (Wrote("StartNowPlaying") => nowPlaying)
    BY <2>1, <2>2 DEF GoodbyeInv
  <2>4. CASE Top
    <3>1. pc' = "select" \/ (pc' = "closing" /\ todo' = Goodbye)
      BY <2>4 DEF Top, GoesOn, Goes
    <3>2. pc' = "closing" =>
            (hid => Due("StopHID")') /\ (nowPlaying => Due("StopNowPlaying")')
      BY <3>1, GoodbyeStops DEF Due
    <3> QED
      BY <2>1, <2>3, <3>1, <3>2 DEF GoodbyeInv, Wrote
  <2>5. CASE Closed
    <3>1. pc = "closing" /\ pc' = "ended"
      BY <2>5 DEF Closed, Ready, GoesOn, Goes
    <3>2. ~ Due("StopHID") /\ ~ Due("StopNowPlaying")
      BY <2>1 DEF Due
    <3>3. ~ hid /\ (nowPlaying => Wrote("StopNowPlaying"))
      BY <2>2, <3>1, <3>2 DEF GoodbyeInv
    <3> QED
      BY <2>1, <2>3, <3>1, <3>3 DEF GoodbyeInv, Wrote
  <2>6. CASE Failed
    <3>1. pc' = "ended"
      BY <2>6 DEF Failed, GoesOn, Goes
    <3>2. HasEvent("Error")'
      <4>1. events' = events \o LastWords /\ events \in Seq(Events)
        BY <2>6 DEF Failed, Emits, Types
      <4>2. Len(events) + 1 \in 1 .. Len(events') /\ events'[Len(events) + 1] = Msg("Error", 0)
        BY <4>1 DEF LastWords
      <4>3. events'[Len(events) + 1].kind = "Error"
        BY <4>2 DEF Msg
      <4> QED
        BY <4>2, <4>3 DEF HasEvent
    <3> QED
      BY <2>1, <2>3, <3>1, <3>2 DEF GoodbyeInv, Wrote
  <2>7. CASE Ended
    <3>1. pc = "ended" /\ pc' = "done" /\ UNCHANGED events
      BY <2>7 DEF Ended, Ready, GoesOn, Goes
    <3> QED
      BY <2>1, <2>2, <2>3, <3>1 DEF GoodbyeInv, Wrote, HasEvent
  <2>8. CASE Negotiated \/ Authentication \/ Branch
    <3>1. pc' \notin {"closing", "ended", "done"}
      BY <2>8 DEF Negotiated, Authentication, Branch, AuthIdentification, AuthCertificate,
         AuthChallenge, AuthSucceeded, AuthFailed, ControlIdentification, ControlOther,
         EaStart, EaStop, EaData, EaDataIgnored, OutgoingData, HidCommand, AppLaunch,
         Timer, GoesOn, Goes
    <3> QED
      BY <2>1, <2>3, <3>1 DEF GoodbyeInv, Wrote
  <2> QED
    BY <2>1, <2>4, <2>5, <2>6, <2>7, <2>8 DEF Handler
<1>4. CASE GivesUp \/ Loses
  <2>1. failures' = failures + 1 /\ failures \in Nat
    BY <1>4 DEF GivesUp, Loses, Types, HistoryTypes
  <2> QED
    BY <2>1 DEF GoodbyeInv
<1>5. CASE Quiet
  BY <1>5 DEF Quiet, stepVars, modeVars, GoodbyeInv, Wrote, Due, HidAfter, HasEvent
<1> QED
  BY <1>1, <1>2, <1>3, <1>4, <1>5, NextCases

LEMMA InitGoodbye == Init => GoodbyeInv
<1> SUFFICES ASSUME Init PROVE GoodbyeInv
  OBVIOUS
<1>1. /\ pc = "negotiating" /\ ~ written /\ hid = FALSE
      /\ told.hid = FALSE /\ told.kinds = {}
  BY DEF Init, ConnectionInit, ToldNothing
<1> QED
  BY <1>1 DEF GoodbyeInv, Wrote

(* A connection that is stopped, with nothing gone wrong, leaves neither   *)
(* the HID remote nor now-playing updates on.                              *)
THEOREM GoodbyeIsClean == Spec => []CleanGoodbye
<1> DEFINE I == Types /\ StepInv /\ GoodbyeInv
<1>1. Init => I
  BY InitTypes, InitStepHid, InitGoodbye
<1>2. I /\ [Next]_vars => I'
  BY NextTypes, NextStepInv, NextGoodbyeInv
<1>3. I => CleanGoodbye
  <2> SUFFICES ASSUME I, pc \in {"ended", "done"}, failures = 0, ~ HasEvent("Error")
               PROVE  ~ told.hid /\ (Wrote("StartNowPlaying") => Wrote("StopNowPlaying"))
    BY DEF CleanGoodbye
  <2>1. ~ hid /\ (nowPlaying => Wrote("StopNowPlaying"))
    BY DEF GoodbyeInv
  <2>2. ~ written
    BY DEF StepInv, TodoFits, Plan, Fits, Types, StepTypes
  <2> QED
    BY <2>1, <2>2 DEF GoodbyeInv, Writing
<1> HIDE DEF I
<1> QED
  BY <1>1, <1>2, <1>3, PTL DEF Spec

-----------------------------------------------------------------------------
(* The events                                                              *)

Tells(kind) == \E arg \in Nat : Emits(<<Msg(kind, arg)>>)

LEMMA TellsOne ==
  ASSUME events \in Seq(Events), NEW k \in EventKinds, Tells(k)
  PROVE  /\ Len(events) \in Nat /\ Len(events') = Len(events) + 1
         /\ \A kind : Positions(kind)' =
              Positions(kind) \cup (IF kind = k THEN {Len(events) + 1} ELSE {})
         /\ \A kind : HasEvent(kind)' <=> HasEvent(kind) \/ kind = k
<1>1. PICK e : events' = Append(events, e) /\ e \in Events /\ e.kind = k
  <2>1. PICK arg \in Nat : events' = events \o <<Msg(k, arg)>>
    BY DEF Tells, Emits
  <2>2. Msg(k, arg) \in Events /\ Msg(k, arg).kind = k
    BY EventType DEF Msg
  <2>3. events \o <<Msg(k, arg)>> = Append(events, Msg(k, arg))
    BY <2>2
  <2> QED
    BY <2>1, <2>2, <2>3
<1>2. /\ Len(events') = Len(events) + 1 /\ Len(events) \in Nat
      /\ DOMAIN events = 1 .. Len(events) /\ DOMAIN events' = 1 .. Len(events) + 1
      /\ events'[Len(events) + 1] = e
      /\ \A i \in 1 .. Len(events) : events'[i] = events[i]
  BY <1>1
<1>3. ASSUME NEW kind
      PROVE  Positions(kind)' =
               Positions(kind) \cup (IF kind = k THEN {Len(events) + 1} ELSE {})
  <2>1. \A i : i \in 1 .. Len(events) + 1 <=> i \in 1 .. Len(events) \/ i = Len(events) + 1
    BY <1>2
  <2> QED
    BY <1>1, <1>2, <2>1 DEF Positions
<1>4. ASSUME NEW kind PROVE HasEvent(kind)' <=> HasEvent(kind) \/ kind = k
  <2>1. HasEvent(kind) <=> Positions(kind) # {}
    BY DEF HasEvent, Positions
  <2>2. HasEvent(kind)' <=> Positions(kind)' # {}
    BY DEF HasEvent, Positions
  <2> QED
    BY <1>3, <2>1, <2>2
<1> QED
  BY <1>2, <1>3, <1>4

InLoop == {"top", "select", "closing"}

LoopKinds ==
  {"EaSessionStarted", "EaSessionStopped", "HidRemoteStarted", "HidRemoteStopped",
   "NowPlayingUpdate"}

(* Where the task goes and what it tells the application on the way. *)
LEMMA HandlerEvents ==
  ASSUME Types, Handler \/ ReceiveFails
  PROVE  \/ /\ UNCHANGED events /\ pc' \notin {"ended", "done"}
            /\ pc \notin {"ended", "done"} /\ (pc' \in InLoop => pc \in InLoop)
         \/ UNCHANGED events /\ pc = "ended" /\ pc' = "done"
         \/ /\ pc' = "auth"
            /\ \E k \in {"LinkEstablished", "AuthenticationStarted",
                         "IdentificationAccepted", "IdentificationRejected"} : Tells(k)
            /\ pc \notin {"ended", "done"}
         \/ pc = "auth" /\ pc' = "top" /\ Tells("AuthenticationSucceeded")
         \/ pc = "auth" /\ pc' = "failed" /\ Tells("AuthenticationFailed")
         \/ /\ pc = "select" /\ pc' = "top"
            /\ \E k \in {"IdentificationAccepted", "IdentificationRejected",
                         "NowPlayingUpdate", "EaSessionStarted", "EaSessionStopped"} : Tells(k)
         \/ pc = "closing" /\ pc' = "ended" /\ Tells("Disconnected")
         \/ pc = "failed" /\ pc' = "ended" /\ Emits(LastWords)
<1> USE DEF Ready, Goes, GoesOn, InLoop
<1>0. 0 \in Nat
  OBVIOUS
<1>1. CASE Negotiated \/ AuthCertificate \/ AuthSucceeded \/ AuthFailed \/ Closed
  BY <1>0, <1>1 DEF Negotiated, AuthCertificate, AuthSucceeded, AuthFailed, Closed, Tells
<1>2. CASE Failed \/ Ended \/ ReceiveFails \/ Top \/ AuthChallenge
  BY <1>2 DEF Failed, Ended, ReceiveFails, Top, AuthChallenge
<1>3. CASE AuthIdentification
  BY <1>0, <1>3 DEF AuthIdentification, Identifications, Tells
<1>4. CASE ControlIdentification
  BY <1>0, <1>4 DEF ControlIdentification, Identifications, Tells
<1>5. CASE ControlOther
  BY <1>0, <1>5 DEF ControlOther, Tells
<1>6. CASE EaStart \/ EaStop
  <2>1. \A m \in Arrived : Takes(m) /\ m.kind \in {"EaStart", "EaStop"} => m.arg.sid \in Nat
    <3> SUFFICES ASSUME NEW m \in Arrived, Takes(m), m.kind \in {"EaStart", "EaStop"}
                 PROVE  m.arg.sid \in Nat
      OBVIOUS
    <3>1. m \in DevMessages
      BY DEF Takes, Types, ArrivingTypes
    <3> QED
      BY <3>1, ArgTypes, SidTypes
  <2>2. CASE EaStart
    BY <2>1, <2>2 DEF EaStart, Tells
  <2>3. CASE EaStop
    BY <2>1, <2>3 DEF EaStop, Tells
  <2> QED
    BY <1>6, <2>2, <2>3
<1>7. CASE EaData
  BY <1>7 DEF EaData
<1>8. CASE EaDataIgnored \/ OutgoingData \/ HidCommand \/ AppLaunch \/ Timer
  BY <1>8 DEF EaDataIgnored, OutgoingData, HidCommand, AppLaunch, Timer
<1> QED
  BY <1>1, <1>2, <1>3, <1>4, <1>5, <1>6, <1>7, <1>8 DEF Handler, Authentication, Branch

(* The event of a step, if it has one, is one of the HID remote. *)
LEMMA AckedEvents ==
  ASSUME Types, StepInv, SendOver
  PROVE  \/ UNCHANGED events
         \/ pc = "top" /\ \E k \in {"HidRemoteStarted", "HidRemoteStopped"} : Tells(k)
<1>1. todo # <<>> /\ 1 \in 1 .. Len(todo)
  BY DEF SendOver, Types, StepTypes
<1>2. Emits(todo[1].events)
  BY <1>1, RestOfTodo DEF SendOver
<1>3. Fits(pc, onError, todo[1])
  BY <1>1 DEF StepInv, TodoFits, Plan
<1>4. CASE todo[1].events = <<>>
  BY <1>2, <1>4 DEF Emits, Types
<1>5. CASE pc = "top" /\ \E k \in {"HidRemoteStarted", "HidRemoteStopped"} :
                              todo[1].events = <<Msg(k, 0)>>
  <2>1. 0 \in Nat
    OBVIOUS
  <2> QED
    BY <1>2, <1>5, <2>1 DEF Tells
<1> QED
  BY <1>3, <1>4, <1>5 DEF Fits, Silent, HidEvent

(* An event before the end keeps the order of events. *)
LEMMA TellsInOrder ==
  ASSUME Types, EventInv, NEW k \in EventKinds \ {"Disconnected", "Error"}, Tells(k),
         pc \notin {"ended", "done"}, pc' \notin {"ended", "done"},
         k \in LoopKinds => pc \in InLoop,
         pc' \in InLoop => pc \in InLoop \/ k = "AuthenticationSucceeded"
  PROVE  EventInv'
<1> USE DEF EventInv
<1>1. /\ Len(events) \in Nat /\ Len(events') = Len(events) + 1
      /\ \A kind : Positions(kind)' =
           Positions(kind) \cup (IF kind = k THEN {Len(events) + 1} ELSE {})
  BY TellsOne DEF Types
<1>2. Positions("Disconnected")' = {} /\ Positions("Error")' = {}
  BY <1>1 DEF LastEvents
<1>3. pc \in InLoop => Positions("AuthenticationSucceeded") # {}
  BY DEF LastEvents, InLoop
<1>4. LastEvents'
  BY <1>1, <1>2, <1>3 DEF LastEvents, InLoop
<1>5. ASSUME NEW kind \in LoopKinds, NEW i \in Positions(kind)'
      PROVE  \E j \in Positions("AuthenticationSucceeded")' : j < i
  <2>1. CASE i \in Positions(kind)
    BY <1>1, <2>1 DEF EventOrder, LoopKinds
  <2>2. CASE kind = k /\ i = Len(events) + 1
    <3>1. PICK j : j \in Positions("AuthenticationSucceeded")
      BY <1>3, <2>2
    <3>2. j \in 1 .. Len(events)
      BY <3>1 DEF Positions, Types
    <3>3. j < i
      BY <1>1, <2>2, <3>2
    <3> QED
      BY <1>1, <3>1, <3>3
  <2> QED
    BY <1>1, <1>5, <2>1, <2>2
<1> QED
  BY <1>2, <1>4, <1>5 DEF EventOrder, LoopKinds

LEMMA SameInOrder ==
  ASSUME EventInv, UNCHANGED events,
         \/ /\ pc \notin {"ended", "done"} /\ pc' \notin {"ended", "done"}
            /\ pc' \in InLoop => pc \in InLoop
         \/ UNCHANGED pc
         \/ pc = "ended" /\ pc' = "done"
  PROVE  EventInv'
<1>1. \A kind : Positions(kind)' = Positions(kind)
  BY DEF Positions
<1> QED
  BY <1>1 DEF EventInv, EventOrder, LastEvents, InLoop

(* The last events, after a failure and without one. *)
LEMMA EndsInOrder ==
  ASSUME Types, EventInv, pc \notin {"ended", "done"}, pc' = "ended",
         Tells("Disconnected") \/ Emits(LastWords)
  PROVE  EventInv'
<1> DEFINE n == Len(events')
<1>1. /\ \A kind : kind \notin {"Disconnected", "Error"} => Positions(kind)' = Positions(kind)
      /\ Positions("Disconnected")' = {n}
      /\ \A i \in Positions("Error")' : i < n => i + 1 = n
  <2>0. /\ Positions("Disconnected") = {} /\ Positions("Error") = {}
        /\ events \in Seq(Events)
    BY DEF EventInv, LastEvents, Types
  <2>1. CASE Tells("Disconnected")
    <3>1. "Disconnected" \in EventKinds
      BY DEF EventKinds
    <3>2. /\ n = Len(events) + 1
          /\ \A kind : Positions(kind)' =
               Positions(kind) \cup (IF kind = "Disconnected" THEN {Len(events) + 1} ELSE {})
      BY <2>0, <2>1, <3>1, TellsOne
    <3> HIDE DEF n
    <3>3. \A kind : kind # "Disconnected" => Positions(kind)' = Positions(kind)
      BY <3>2
    <3>4. Positions("Disconnected")' = {n}
      BY <2>0, <3>2
    <3>5. Positions("Error")' = {}
      BY <2>0, <3>3
    <3> QED
      BY <3>3, <3>4, <3>5
  <2>2. CASE Emits(LastWords)
    <3> DEFINE a == Msg("Error", 0)
               b == Msg("Disconnected", 0)
    <3>1. a.kind = "Error" /\ b.kind = "Disconnected"
      BY DEF Msg
    <3>2. events' = events \o <<a, b>>
      BY <2>2 DEF Emits, LastWords
    <3> HIDE DEF a, b
    <3>3. /\ Len(events) \in Nat /\ n = Len(events) + 2
          /\ DOMAIN events = 1 .. Len(events) /\ DOMAIN events' = 1 .. Len(events) + 2
          /\ events'[Len(events) + 1] = a /\ events'[Len(events) + 2] = b
          /\ \A i \in 1 .. Len(events) : events'[i] = events[i]
      BY <2>0, <3>2
    <3>4. \A i : i \in 1 .. Len(events) + 2 <=>
                   i \in 1 .. Len(events) \/ i = Len(events) + 1 \/ i = Len(events) + 2
      BY <3>3
    <3> HIDE DEF n
    <3>5. ASSUME NEW kind
          PROVE  Positions(kind)' =
                   Positions(kind) \cup (IF kind = "Error" THEN {Len(events) + 1} ELSE {})
                                   \cup (IF kind = "Disconnected" THEN {Len(events) + 2} ELSE {})
      BY <3>1, <3>3, <3>4 DEF Positions
    <3>6. \A kind : kind \notin {"Disconnected", "Error"} => Positions(kind)' = Positions(kind)
      BY <3>5
    <3>7. Positions("Disconnected")' = {n}
      BY <2>0, <3>3, <3>5
    <3>8. Positions("Error")' = {Len(events) + 1}
      BY <2>0, <3>5
    <3> QED
      BY <3>3, <3>6, <3>7, <3>8
  <2> QED
    BY <2>1, <2>2
<1> HIDE DEF n
<1>2. ASSUME NEW kind \in LoopKinds, NEW i \in Positions(kind)'
      PROVE  \E j \in Positions("AuthenticationSucceeded")' : j < i
  BY <1>1, <1>2 DEF EventInv, EventOrder, LoopKinds
<1> QED
  BY <1>1, <1>2 DEF EventInv, EventOrder, LastEvents, LoopKinds, n

LEMMA NextEventInv ==
  ASSUME Types, StepInv, EventInv, [Next]_vars
  PROVE  EventInv'
<1>0. /\ \A i \in 1 .. Len(todo) : Fits(pc, onError, todo[i])
      /\ todo # <<>> => 1 \in 1 .. Len(todo)
  BY DEF StepInv, TodoFits, Plan, Types, StepTypes
<1>1. CASE Writes \/ Quiet
  BY <1>1, SameInOrder DEF Writes, Write, Quiet
<1>2. CASE Answers
  <2>1. UNCHANGED pc /\ SendOver
    BY <1>2 DEF Answers, SendOver
  <2>2. CASE UNCHANGED events
    BY <2>1, <2>2, SameInOrder
  <2>3. CASE pc = "top" /\ \E k \in {"HidRemoteStarted", "HidRemoteStopped"} : Tells(k)
    BY <2>1, <2>3, TellsInOrder DEF EventKinds, LoopKinds, InLoop
  <2> QED
    BY <2>1, <2>2, <2>3, AckedEvents
<1>3. CASE GivesUp
  <2>1. pc' \in {pc, "failed"} /\ UNCHANGED events /\ pc \notin {"ended", "done"}
    <3>1. todo # <<>> /\ onError \in OnErrors
      BY <1>3 DEF GivesUp, StepFails, Types, StepTypes
    <3>2. pc \notin {"ended", "done"}
      BY <1>0, <3>1 DEF Fits
    <3> QED
      BY <1>3, <3>1, <3>2 DEF GivesUp, StepFails, GoesOn, Goes, OnErrors
  <2> QED
    BY <2>1, SameInOrder DEF InLoop
<1>4. CASE Runs \/ Loses
  <2>0. Handler \/ ReceiveFails
    BY <1>4 DEF Runs, Loses
  <2>1. CASE \/ /\ UNCHANGED events /\ pc' \notin {"ended", "done"}
                /\ pc \notin {"ended", "done"} /\ (pc' \in InLoop => pc \in InLoop)
             \/ UNCHANGED events /\ pc = "ended" /\ pc' = "done"
    BY <2>1, SameInOrder
  <2>2. CASE /\ pc' = "auth"
             /\ \E k \in {"LinkEstablished", "AuthenticationStarted",
                         "IdentificationAccepted", "IdentificationRejected"} : Tells(k)
             /\ pc \notin {"ended", "done"}
    BY <2>2, TellsInOrder DEF EventKinds, LoopKinds, InLoop
  <2>3. CASE \/ pc = "auth" /\ pc' = "top" /\ Tells("AuthenticationSucceeded")
             \/ pc = "auth" /\ pc' = "failed" /\ Tells("AuthenticationFailed")
    BY <2>3, TellsInOrder DEF EventKinds, LoopKinds, InLoop
  <2>4. CASE /\ pc = "select" /\ pc' = "top"
             /\ \E k \in {"IdentificationAccepted", "IdentificationRejected",
                         "NowPlayingUpdate", "EaSessionStarted", "EaSessionStopped"} : Tells(k)
    BY <2>4, TellsInOrder DEF EventKinds, LoopKinds, InLoop
  <2>5. CASE \/ pc = "closing" /\ pc' = "ended" /\ Tells("Disconnected")
             \/ pc = "failed" /\ pc' = "ended" /\ Emits(LastWords)
    BY <2>5, EndsInOrder
  <2> QED
    BY <2>0, <2>1, <2>2, <2>3, <2>4, <2>5, HandlerEvents
<1> QED
  BY <1>1, <1>2, <1>3, <1>4, NextCases

LEMMA InitEvents == Init => EventInv
<1> SUFFICES ASSUME Init PROVE EventInv
  OBVIOUS
<1>1. pc = "negotiating" /\ events = <<>>
  BY DEF Init, ConnectionInit
<1>2. \A kind : Positions(kind) = {}
  BY <1>1 DEF Positions
<1> QED
  BY <1>1, <1>2 DEF EventInv, EventOrder, LastEvents

(* The application is told that the connection ended once, as the last     *)
(* event, and of an Error only right before; sessions and the HID remote   *)
(* are heard of only between AuthenticationSucceeded and the end.          *)
THEOREM EventsInOrder == Spec => []EventOrder
<1> DEFINE I == Types /\ StepInv /\ EventInv
<1>1. Init => I
  BY InitTypes, InitStepHid, InitEvents
<1>2. I /\ [Next]_vars => I'
  BY NextTypes, NextStepInv, NextEventInv
<1>3. I => EventOrder
  BY DEF EventInv
<1> HIDE DEF I
<1> QED
  BY <1>1, <1>2, <1>3, PTL DEF Spec

-----------------------------------------------------------------------------
(* The request of the External Accessory session                           *)

BothKinds == {"AuthenticationSucceeded", "IdentificationAccepted"}

LEMMA NoneDue == ASSUME todo' = <<>>, NEW kind PROVE ~ Due(kind)'
BY DEF Due

LEMMA OneDue ==
  ASSUME NEW k, NEW arg, NEW evs, todo' = <<Step(k, arg, evs)>>, NEW kind
  PROVE  Due(kind)' <=> kind = k
<1>1. Len(todo') = 1 /\ todo'[1].msg.kind = k
  BY DEF Step, Msg
<1> QED
  BY <1>1 DEF Due

(* The handlers that neither tell the application of an identification or  *)
(* an authentication nor request a session. *)
LEMMA OtherHandlers ==
  ASSUME Types, Handler \/ ReceiveFails,
         ~ AuthIdentification, ~ AuthSucceeded, ~ ControlIdentification
  PROVE  /\ UNCHANGED accepted
         /\ \A k \in BothKinds : HasEvent(k)' <=> HasEvent(k)
         /\ pc' \in {"top", "select"} => pc \in {"top", "select"} /\ ~ Due("EaRequest")'
         /\ pc' \notin {"top", "select"} => ~ Due("EaRequest")'
         /\ pc' = "auth" => pc \in {"negotiating", "auth"}
         /\ pc' # "negotiating"
<1> USE DEF Ready, Goes, GoesOn, modeVars, BothKinds
<1>0. 0 \in Nat
  OBVIOUS
<1>a. events \in Seq(Events)
  BY DEF Types
<1>b. UNCHANGED events => \A k \in BothKinds : HasEvent(k)' <=> HasEvent(k)
  BY DEF HasEvent
<1>c. ASSUME NEW k \in EventKinds \ BothKinds, Tells(k)
      PROVE  \A j \in BothKinds : HasEvent(j)' <=> HasEvent(j)
  BY <1>a, <1>c, TellsOne
<1>d. ~ Due("EaRequest")'
  <2>1. CASE Negotiated \/ ReceiveFails \/ AuthFailed \/ ControlOther \/ EaData
             \/ EaDataIgnored \/ Closed \/ Failed \/ Ended
    BY <2>1, NoneDue DEF Negotiated, ReceiveFails, AuthFailed, ControlOther, EaData,
       EaDataIgnored, Closed, Failed, Ended
  <2>2. CASE AuthCertificate \/ AuthChallenge
    BY <2>2, OneDue DEF AuthCertificate, AuthChallenge
  <2>3. CASE OutgoingData \/ AppLaunch \/ Timer
    BY <2>3, NoneDue, OneDue DEF OutgoingData, AppLaunch, Timer
  <2>4. CASE EaStop
    BY <2>4, NoneDue, OneDue DEF EaStop
  <2>5. CASE HidCommand
    <3>1. \A i \in 1 .. Len(todo') : Fits("top", "drop", todo'[i])
      BY <2>5, HandlerPlans DEF HidCommand, Plan, Handler, Branch
    <3> QED
      BY <3>1 DEF Fits, Due
  <2>6. CASE EaStart
    <3>1. CASE listening
      <4>1. todo' = EaStartSteps
        BY <2>6, <3>1 DEF EaStart, EaStartSteps
      <4> DEFINE a == Step("StartNowPlaying", 0, <<>>)
                 b == Step("StartHID", 0, <<Msg("HidRemoteStarted", 0)>>)
      <4>2. a.msg.kind # "EaRequest" /\ b.msg.kind # "EaRequest"
        BY DEF Step, Msg
      <4>3. todo' \in {<<>> \o <<>>, <<a>> \o <<>>, <<>> \o <<b>>, <<a>> \o <<b>>}
        BY <4>1 DEF EaStartSteps
      <4> HIDE DEF a, b
      <4>4. \A i \in 1 .. Len(todo') : todo'[i] \in {a, b}
        <5>1. CASE todo' = <<>> \o <<>>
          BY <5>1
        <5>2. CASE todo' = <<a>> \o <<>>
          BY <5>2
        <5>3. CASE todo' = <<>> \o <<b>>
          BY <5>3
        <5>4. CASE todo' = <<a>> \o <<b>>
          BY <5>4
        <5> QED
          BY <4>3, <5>1, <5>2, <5>3, <5>4
      <4> QED
        BY <4>2, <4>4 DEF Due
    <3>2. CASE ~ listening
      BY <2>6, <3>2, NoneDue DEF EaStart
    <3> QED
      BY <3>1, <3>2
  <2>7. CASE Top
    <3>1. CASE pc' = "select"
      BY <2>7, <3>1, NoneDue DEF Top
    <3>2. CASE pc' = "closing"
      <4>1. \A i \in 1 .. Len(todo') : Fits("closing", onError', todo'[i])
        BY <2>7, <3>2, HandlerPlans DEF Plan, Handler
      <4> QED
        BY <4>1 DEF Fits, Due
    <3> QED
      BY <2>7, <3>1, <3>2 DEF Top
  <2> QED
    BY <2>1, <2>2, <2>3, <2>4, <2>5, <2>6, <2>7 DEF Handler, Authentication, Branch
<1>1. CASE Negotiated \/ AuthCertificate \/ AuthFailed \/ Closed \/ ControlOther
  BY <1>0, <1>1, <1>c, <1>d DEF Negotiated, AuthCertificate, AuthFailed, Closed, ControlOther,
     Tells, EventKinds
<1>2. CASE Ended \/ ReceiveFails \/ Top \/ AuthChallenge \/ EaData
  BY <1>2, <1>b, <1>d DEF Ended, ReceiveFails, Top, AuthChallenge, EaData
<1>3. CASE EaDataIgnored \/ OutgoingData \/ HidCommand \/ AppLaunch \/ Timer
  BY <1>3, <1>b, <1>d DEF EaDataIgnored, OutgoingData, HidCommand, AppLaunch, Timer
<1>4. CASE Failed
  <2>1. ASSUME NEW k \in BothKinds PROVE HasEvent(k)' <=> HasEvent(k)
    <3> DEFINE a == Msg("Error", 0)
               b == Msg("Disconnected", 0)
    <3>1. a.kind # k /\ b.kind # k
      BY DEF Msg
    <3>2. events' = events \o <<a, b>>
      BY <1>4 DEF Failed, Emits, LastWords
    <3> HIDE DEF a, b
    <3>3. /\ Len(events) \in Nat
          /\ DOMAIN events = 1 .. Len(events) /\ DOMAIN events' = 1 .. Len(events) + 2
          /\ events'[Len(events) + 1] = a /\ events'[Len(events) + 2] = b
          /\ \A i \in 1 .. Len(events) : events'[i] = events[i]
      BY <1>a, <3>2
    <3>4. \A i : i \in 1 .. Len(events) + 2 <=>
                   i \in 1 .. Len(events) \/ i = Len(events) + 1 \/ i = Len(events) + 2
      BY <3>3
    <3> QED
      BY <3>1, <3>3, <3>4 DEF HasEvent
  <2> QED
    BY <1>4, <2>1, <1>d DEF Failed
<1>5. CASE EaStart \/ EaStop
  <2>1. \/ UNCHANGED events
        \/ \E k \in {"EaSessionStarted", "EaSessionStopped"} : Tells(k)
    <3>1. \A m \in Arrived : Takes(m) /\ m.kind \in {"EaStart", "EaStop"} => m.arg.sid \in Nat
      <4> SUFFICES ASSUME NEW m \in Arrived, Takes(m), m.kind \in {"EaStart", "EaStop"}
                   PROVE  m.arg.sid \in Nat
        OBVIOUS
      <4>1. m \in DevMessages
        BY DEF Takes, Types, ArrivingTypes
      <4> QED
        BY <4>1, ArgTypes, SidTypes
    <3> QED
      BY <1>5, <3>1 DEF EaStart, EaStop, Tells
  <2>2. \A k \in BothKinds : HasEvent(k)' <=> HasEvent(k)
    BY <2>1, <1>b, <1>c DEF EventKinds
  <2> QED
    BY <1>5, <2>2, <1>d DEF EaStart, EaStop
<1> QED
  BY <1>1, <1>2, <1>3, <1>4, <1>5 DEF Handler, Authentication, Branch

LEMMA NextEaRequestInv ==
  ASSUME Types, StepInv, EaRequestInv, [Next]_vars
  PROVE  EaRequestInv'
<1> USE DEF Both
<1>0. /\ \A i \in 1 .. Len(todo) : Fits(pc, onError, todo[i])
      /\ todo # <<>> => 1 \in 1 .. Len(todo)
      /\ events \in Seq(Events) /\ onError \in OnErrors
  BY DEF StepInv, TodoFits, Plan, Types, StepTypes
<1>1. CASE Writes
  <2>1. /\ 1 \in 1 .. Len(todo) /\ UNCHANGED <<todo, pc, accepted, events>>
        /\ told'.kinds = told.kinds \cup {todo[1].msg.kind}
    BY <1>0, <1>1 DEF Writes, Write, modeVars, Learns
  <2>2. \A k \in BothKinds : HasEvent(k)' = HasEvent(k)
    BY <2>1 DEF HasEvent
  <2>3. Due("EaRequest")' = Due("EaRequest")
    BY <2>1 DEF Due
  <2>4. /\ Wrote("EaRequest") => Wrote("EaRequest")'
        /\ Wrote("EaRequest")' => Wrote("EaRequest") \/ Due("EaRequest")
    BY <2>1 DEF Wrote, Due
  <2> QED
    BY <2>1, <2>2, <2>3, <2>4 DEF EaRequestInv, BothKinds
<1>2. CASE Answers
  <2>1. /\ todo # <<>> /\ written /\ todo' = Tail(todo)
        /\ UNCHANGED <<pc, accepted, told>> /\ SendOver
    BY <1>2 DEF Answers, SendOver, Types, StepTypes
  <2>2. ASSUME NEW k \in BothKinds PROVE HasEvent(k)' <=> HasEvent(k)
    <3>1. CASE UNCHANGED events
      BY <3>1 DEF HasEvent
    <3>2. CASE \E j \in {"HidRemoteStarted", "HidRemoteStopped"} : Tells(j)
      <4>1. {"HidRemoteStarted", "HidRemoteStopped"} \subseteq EventKinds
        BY DEF EventKinds
      <4> QED
        BY <1>0, <3>2, <4>1, TellsOne DEF BothKinds
    <3> QED
      BY <2>1, <3>1, <3>2, AckedEvents
  <2>3. Due("EaRequest")' => Due("EaRequest")
    BY <2>1, RestOfTodo DEF Due
  <2>4. Due("EaRequest") => Due("EaRequest")' \/ Wrote("EaRequest")
    BY <2>1, DueMoves DEF StepInv, WrittenIsTold
  <2> QED
    BY <2>1, <2>2, <2>3, <2>4 DEF EaRequestInv, BothKinds, Wrote
<1>3. CASE Runs \/ Loses
  <2>1. /\ todo = <<>> /\ ~ Due("EaRequest") /\ UNCHANGED told
        /\ (Handler \/ ReceiveFails) /\ (Wrote("EaRequest")' <=> Wrote("EaRequest"))
    <3>1. todo = <<>> /\ UNCHANGED told /\ (Handler \/ ReceiveFails)
      BY <1>3, HandlerPlans DEF Runs, Loses
    <3>2. ~ Due("EaRequest")
      BY <3>1 DEF Due
    <3>3. Wrote("EaRequest")' <=> Wrote("EaRequest")
      BY <3>1 DEF Wrote
    <3> QED
      BY <3>1, <3>2, <3>3
  <2>2. CASE AuthIdentification
    <3>1. PICK m \in Arrived :
            /\ m.kind \in Identifications
            /\ accepted' = AcceptedInAuth(m.kind)
            /\ IF m.kind = "StartIdentification"
               THEN /\ Goes("auth", <<Step("Identification", 0, <<>>)>>, "end")
                    /\ UNCHANGED events
               ELSE GoesOn("auth") /\ Emits(<<Msg(m.kind, 0)>>)
      BY <2>2 DEF AuthIdentification
    <3>2. pc = "auth" /\ pc' = "auth" /\ ~ Due("EaRequest")'
      BY <2>2, <3>1, NoneDue, OneDue DEF AuthIdentification, Ready, GoesOn, Goes
    <3>3. ~ HasEvent("AuthenticationSucceeded") /\ ~ Wrote("EaRequest")
      BY <3>2 DEF EaRequestInv
    <3>4. CASE m.kind = "StartIdentification"
      <4>1. UNCHANGED events /\ accepted' = accepted
        BY <3>1, <3>4 DEF AcceptedInAuth, Types, ModeTypes
      <4> QED
        BY <2>1, <3>2, <3>3, <4>1 DEF EaRequestInv, HasEvent
    <3>5. CASE m.kind # "StartIdentification"
      <4>1. m.kind \in {"IdentificationAccepted", "IdentificationRejected"} /\ Tells(m.kind)
        <5>1. 0 \in Nat
          OBVIOUS
        <5> QED
          BY <3>1, <3>5, <5>1 DEF Identifications, Tells
      <4>2. \A k \in BothKinds : HasEvent(k)' <=> HasEvent(k) \/ k = m.kind
        BY <1>0, <4>1, TellsOne DEF EventKinds
      <4> QED
        BY <2>1, <3>1, <3>2, <3>3, <4>1, <4>2 DEF EaRequestInv, BothKinds, AcceptedInAuth
    <3> QED
      BY <3>4, <3>5
  <2>3. CASE AuthSucceeded
    <3>1. pc = "auth" /\ pc' = "top" /\ accepted' = accepted
      BY <2>3 DEF AuthSucceeded, Ready, Goes, modeVars
    <3>2. Due("EaRequest")' <=> accepted
      BY <2>3, NoneDue, OneDue DEF AuthSucceeded, Goes
    <3>3. Tells("AuthenticationSucceeded")
      <4>1. 0 \in Nat
        OBVIOUS
      <4> QED
        BY <2>3, <4>1 DEF AuthSucceeded, Tells
    <3>4. \A k \in BothKinds : HasEvent(k)' <=> HasEvent(k) \/ k = "AuthenticationSucceeded"
      BY <1>0, <3>3, TellsOne DEF EventKinds
    <3> QED
      BY <2>1, <3>1, <3>2, <3>4 DEF EaRequestInv, BothKinds
  <2>4. CASE ControlIdentification
    <3>1. PICK m \in Arrived :
            /\ m.kind \in Identifications
            /\ IF m.kind = "StartIdentification"
               THEN /\ Goes("top", <<Step("Identification", 0, <<>>)>>, "end")
                    /\ UNCHANGED events
               ELSE /\ Goes("top", IF m.kind = "IdentificationAccepted"
                                   THEN <<Step("EaRequest", 0, <<>>)>> ELSE <<>>, "end")
                    /\ Emits(<<Msg(m.kind, 0)>>)
      BY <2>4 DEF ControlIdentification
    <3>2. pc = "select" /\ pc' = "top" /\ accepted' = accepted
      BY <2>4, <3>1 DEF ControlIdentification, Ready, Goes, modeVars
    <3>3. Due("EaRequest")' <=> m.kind = "IdentificationAccepted"
      BY <3>1, NoneDue, OneDue DEF Goes
    <3>4. CASE m.kind = "StartIdentification"
      BY <2>1, <3>1, <3>2, <3>3, <3>4 DEF EaRequestInv, HasEvent
    <3>5. CASE m.kind # "StartIdentification"
      <4>1. m.kind \in {"IdentificationAccepted", "IdentificationRejected"} /\ Tells(m.kind)
        <5>1. 0 \in Nat
          OBVIOUS
        <5> QED
          BY <3>1, <3>5, <5>1 DEF Identifications, Tells
      <4>2. \A k \in BothKinds : HasEvent(k)' <=> HasEvent(k) \/ k = m.kind
        BY <1>0, <4>1, TellsOne DEF EventKinds
      <4> QED
        BY <2>1, <3>2, <3>3, <4>1, <4>2 DEF EaRequestInv, BothKinds
    <3> QED
      BY <3>4, <3>5
  <2>5. ASSUME ~ AuthIdentification, ~ AuthSucceeded, ~ ControlIdentification
        PROVE  EaRequestInv'
    BY <2>1, <2>5, OtherHandlers DEF EaRequestInv, BothKinds
  <2> QED
    BY <2>2, <2>3, <2>4, <2>5
<1>4. CASE GivesUp
  <2>1. /\ todo # <<>> /\ UNCHANGED <<accepted, events, told>>
        /\ \/ onError = "end" /\ pc' = "failed" /\ todo' = <<>>
           \/ onError = "drop" /\ pc' = pc /\ todo' = <<>>
           \/ onError = "skip" /\ pc' = pc /\ todo' = Tail(todo)
    BY <1>0, <1>4 DEF GivesUp, StepFails, GoesOn, Goes, OnErrors, modeVars
  <2>2. /\ \A k \in BothKinds : HasEvent(k)' = HasEvent(k)
        /\ Wrote("EaRequest")' = Wrote("EaRequest")
    BY <2>1 DEF HasEvent, Wrote
  <2>3. Due("EaRequest")' => Due("EaRequest")
    BY <2>1, NoneDue, RestOfTodo DEF Due
  <2>4. pc' \in {"top", "select"} => ~ Due("EaRequest")
    <3>1. pc' \in {"top", "select"} => pc = pc' /\ onError # "end"
      <4>1. onError = "skip" => pc = "closing"
        BY DEF StepInv, TodoFits, Plan
      <4> QED
        BY <2>1, <4>1
    <3> QED
      BY <1>0, <3>1 DEF Fits, Due
  <2> QED
    BY <2>1, <2>2, <2>3, <2>4 DEF EaRequestInv, BothKinds
<1>5. CASE Quiet
  BY <1>5 DEF Quiet, stepVars, modeVars, EaRequestInv, HasEvent, Wrote, Due
<1> QED
  BY <1>1, <1>2, <1>3, <1>4, <1>5, NextCases

LEMMA InitEaRequest == Init => EaRequestInv
<1> SUFFICES ASSUME Init PROVE EaRequestInv
  OBVIOUS
<1>1. /\ pc = "negotiating" /\ todo = <<>> /\ events = <<>> /\ accepted = FALSE
      /\ told.kinds = {}
  BY DEF Init, ConnectionInit, ToldNothing
<1> QED
  BY <1>1 DEF EaRequestInv, HasEvent, Wrote, Due

(* The External Accessory session is requested when the device has both    *)
(* authenticated the accessory and accepted its identification, in either  *)
(* order: never earlier, and without fail.                                 *)
THEOREM EaRequestFollowsBoth == Spec => []EaRequestedWhenBoth
<1> DEFINE I == Types /\ StepInv /\ EaRequestInv
<1>1. Init => I
  BY InitTypes, InitStepHid, InitEaRequest
<1>2. I /\ [Next]_vars => I'
  BY NextTypes, NextStepInv, NextEaRequestInv
<1>3. I => EaRequestedWhenBoth
  <2> SUFFICES ASSUME I PROVE EaRequestedWhenBoth
    OBVIOUS
  <2>1. pc = "select" => ~ Due("EaRequest")
    BY DEF StepInv, TodoFits, Plan, Fits, Due
  <2> QED
    BY <2>1 DEF EaRequestInv, Both, EaRequestedWhenBoth
<1> HIDE DEF I
<1> QED
  BY <1>1, <1>2, <1>3, PTL DEF Spec

-----------------------------------------------------------------------------
(* The responses                                                           *)

Alive == pc \notin {"failed", "ended", "done"}

(* The challenges taken: answered, or with their response still to write. *)
Given ==
  IF Due("Response") /\ ~ written THEN Append(told.responses, todo[1].msg.arg)
  ELSE told.responses

(* p: of which challenges these are the responses. *)
Placed(p, given, asks) ==
  /\ p \in [1 .. Len(given) -> 1 .. Len(asks)]
  /\ \A i, j \in 1 .. Len(given) : i < j => p[i] < p[j]
  /\ \A i \in 1 .. Len(given) : given[i] = asks[p[i]]
  /\ given # <<>> => p[1] = 1

IsChallenge(from, i) == i \in 1 .. Len(from) /\ from[i].kind = "Challenge"

(* q: where the challenges on their way are among those that were sent,    *)
(* all of them after those that have been taken.                           *)
Waits(q, from, asks, p, n) ==
  /\ q \in [1 .. Len(from) -> Nat]
  /\ \A i \in 1 .. Len(from) : IsChallenge(from, i) =>
       /\ q[i] \in 1 .. Len(asks) /\ from[i].arg = asks[q[i]]
       /\ \A k \in 1 .. n : p[k] < q[i]
  /\ \A i, j \in 1 .. Len(from) :
       IsChallenge(from, i) /\ IsChallenge(from, j) /\ i < j => q[i] < q[j]

(* The first challenge is answered, or on its way. *)
FirstComes(q, from, asks, given) ==
  given = <<>> /\ asks # <<>> => \E i \in 1 .. Len(from) : IsChallenge(from, i) /\ q[i] = 1

InTurn(from, asks, given) ==
  \E p \in [1 .. Len(given) -> 1 .. Len(asks)], q \in [1 .. Len(from) -> Nat] :
    /\ Placed(p, given, asks)
    /\ Waits(q, from, asks, p, Len(given))
    /\ FirstComes(q, from, asks, given)

LEMMA PlacedAnswers ==
  ASSUME NEW asks \in Seq(Challenges), NEW given \in Seq(Nat), NEW p, Placed(p, given, asks)
  PROVE  IsAnswering(given, asks)
<1>1. DOMAIN given = 1 .. Len(given) /\ DOMAIN asks = 1 .. Len(asks)
  OBVIOUS
<1> QED
  BY <1>1 DEF Placed, IsAnswering

LEMMA InTurnAnswers ==
  ASSUME NEW from, NEW asks \in Seq(Challenges), NEW given \in Seq(Nat),
         InTurn(from, asks, given)
  PROVE  IsAnswering(given, asks)
BY PlacedAnswers DEF InTurn

LEMMA AnsweringMore ==
  ASSUME NEW asks \in Seq(Challenges), NEW given \in Seq(Nat), NEW c \in Challenges,
         IsAnswering(given, asks)
  PROVE  IsAnswering(given, Append(asks, c))
<1> DEFINE as == Append(asks, c)
<1>1. /\ DOMAIN given = 1 .. Len(given) /\ DOMAIN asks = 1 .. Len(asks)
      /\ DOMAIN as = 1 .. Len(asks) + 1 /\ Len(asks) \in Nat
      /\ \A i \in 1 .. Len(asks) : as[i] = asks[i]
  OBVIOUS
<1>2. 1 .. Len(asks) \subseteq 1 .. Len(asks) + 1
  BY <1>1
<1>3. PICK f \in [DOMAIN given -> DOMAIN asks] :
        /\ \A i, j \in DOMAIN given : i < j => f[i] < f[j]
        /\ \A i \in DOMAIN given : given[i] = asks[f[i]]
        /\ given # <<>> => f[1] = 1
  BY DEF IsAnswering
<1>4. f \in [DOMAIN given -> DOMAIN as]
  BY <1>1, <1>2, <1>3
<1>5. \A i \in DOMAIN given : given[i] = as[f[i]]
  BY <1>1, <1>3
<1> HIDE DEF as
<1>6. IsAnswering(given, as)
  BY <1>3, <1>4, <1>5 DEF IsAnswering
<1> QED
  BY <1>6 DEF as

(* Where the messages are that stay when the one at position k goes. *)
Kept(k, i) == IF i < k THEN i ELSE i + 1

Shorter(to, from, k) ==
  /\ Len(to) = Len(from) - 1
  /\ \A i \in 1 .. Len(from) - 1 : to[i] = from[Kept(k, i)]

LEMMA KeptInOrder ==
  ASSUME NEW n \in Nat, NEW k \in 1 .. n
  PROVE  /\ \A i \in 1 .. n - 1 : Kept(k, i) \in 1 .. n /\ Kept(k, i) # k
         /\ \A i, j \in 1 .. n - 1 : i < j => Kept(k, i) < Kept(k, j)
         /\ \A i \in 1 .. n : i # k => \E j \in 1 .. n - 1 : i = Kept(k, j)
<1>1. ASSUME NEW i \in 1 .. n, i # k PROVE \E j \in 1 .. n - 1 : i = Kept(k, j)
  <2>1. CASE i < k
    <3>1. i \in 1 .. n - 1 /\ i = Kept(k, i)
      BY <2>1 DEF Kept
    <3> QED
      BY <3>1
  <2>2. CASE i > k
    <3>1. i - 1 \in 1 .. n - 1 /\ i = Kept(k, i - 1)
      BY <2>2 DEF Kept
    <3> QED
      BY <3>1
  <2> QED
    BY <1>1, <2>1, <2>2
<1> QED
  BY <1>1 DEF Kept

LEMMA WaitsWithout ==
  ASSUME NEW from \in Seq(DevMessages), NEW to \in Seq(DevMessages), NEW asks, NEW p, NEW n,
         NEW k \in 1 .. Len(from), Shorter(to, from, k), NEW q, Waits(q, from, asks, p, n)
  PROVE  Waits([i \in 1 .. Len(to) |-> q[Kept(k, i)]], to, asks, p, n)
<1> DEFINE g == [i \in 1 .. Len(to) |-> q[Kept(k, i)]]
<1>1. /\ Len(from) \in Nat /\ Len(to) = Len(from) - 1
      /\ \A i \in 1 .. Len(to) : to[i] = from[Kept(k, i)]
  BY DEF Shorter
<1>2. /\ \A i \in 1 .. Len(to) : Kept(k, i) \in 1 .. Len(from)
      /\ \A i, j \in 1 .. Len(to) : i < j => Kept(k, i) < Kept(k, j)
  BY <1>1, KeptInOrder
<1>3. \A i \in 1 .. Len(to) : g[i] = q[Kept(k, i)]
  OBVIOUS
<1>4. g \in [1 .. Len(to) -> Nat]
  BY <1>2 DEF Waits
<1>5. \A i \in 1 .. Len(to) : IsChallenge(to, i) => IsChallenge(from, Kept(k, i))
  BY <1>1, <1>2 DEF IsChallenge
<1> HIDE DEF g
<1>6. ASSUME NEW i \in 1 .. Len(to), IsChallenge(to, i)
      PROVE  /\ g[i] \in 1 .. Len(asks) /\ to[i].arg = asks[g[i]]
             /\ \A j \in 1 .. n : p[j] < g[i]
  <2>1. Kept(k, i) \in 1 .. Len(from) /\ IsChallenge(from, Kept(k, i))
    BY <1>2, <1>5, <1>6
  <2> QED
    BY <1>1, <1>3, <2>1 DEF Waits
<1>7. ASSUME NEW i \in 1 .. Len(to), NEW j \in 1 .. Len(to), IsChallenge(to, i),
             IsChallenge(to, j), i < j
      PROVE  g[i] < g[j]
  <2>1. /\ Kept(k, i) \in 1 .. Len(from) /\ Kept(k, j) \in 1 .. Len(from)
        /\ IsChallenge(from, Kept(k, i)) /\ IsChallenge(from, Kept(k, j))
        /\ Kept(k, i) < Kept(k, j)
    BY <1>2, <1>5, <1>7
  <2> QED
    BY <1>3, <2>1 DEF Waits
<1> QED
  BY <1>4, <1>6, <1>7 DEF Waits, g

(* A message that is no challenge is taken, or a challenge is dropped      *)
(* after an earlier one was taken.                                         *)
LEMMA InTurnWithout ==
  ASSUME NEW from \in Seq(DevMessages), NEW to \in Seq(DevMessages),
         NEW asks \in Seq(Challenges), NEW given \in Seq(Nat), InTurn(from, asks, given),
         NEW k \in 1 .. Len(from), Shorter(to, from, k),
         ~ IsChallenge(from, k) \/ given # <<>>
  PROVE  InTurn(to, asks, given)
<1>1. PICK p \in [1 .. Len(given) -> 1 .. Len(asks)], q \in [1 .. Len(from) -> Nat] :
        /\ Placed(p, given, asks)
        /\ Waits(q, from, asks, p, Len(given))
        /\ FirstComes(q, from, asks, given)
  BY DEF InTurn
<1> DEFINE g == [i \in 1 .. Len(to) |-> q[Kept(k, i)]]
<1>2. Waits(g, to, asks, p, Len(given))
  BY <1>1, WaitsWithout
<1>3. FirstComes(g, to, asks, given)
  <2> SUFFICES ASSUME given = <<>>, asks # <<>>
               PROVE  \E i \in 1 .. Len(to) : IsChallenge(to, i) /\ g[i] = 1
    BY DEF FirstComes
  <2>1. PICK i \in 1 .. Len(from) : IsChallenge(from, i) /\ q[i] = 1
    BY <1>1 DEF FirstComes
  <2>2. i # k /\ Len(from) \in Nat /\ Len(to) = Len(from) - 1
    BY <2>1 DEF Shorter
  <2>3. PICK j \in 1 .. Len(from) - 1 : i = Kept(k, j)
    BY <2>2, KeptInOrder
  <2>4. j \in 1 .. Len(to) /\ to[j] = from[i] /\ g[j] = q[i]
    BY <2>2, <2>3 DEF Shorter
  <2> HIDE DEF g
  <2> QED
    BY <2>1, <2>4 DEF IsChallenge
<1>4. g \in [1 .. Len(to) -> Nat]
  BY <1>2 DEF Waits
<1> HIDE DEF g
<1> QED
  BY <1>1, <1>2, <1>3, <1>4 DEF InTurn

(* A challenge is taken, to be answered. *)
LEMMA InTurnTaken ==
  ASSUME NEW from \in Seq(DevMessages), NEW to \in Seq(DevMessages),
         NEW asks \in Seq(Challenges), NEW given \in Seq(Nat), InTurn(from, asks, given),
         from # <<>>, Shorter(to, from, 1), IsChallenge(from, 1), from[1].arg \in Nat
  PROVE  InTurn(to, asks, Append(given, from[1].arg))
<1>1. PICK p \in [1 .. Len(given) -> 1 .. Len(asks)], q \in [1 .. Len(from) -> Nat] :
        /\ Placed(p, given, asks)
        /\ Waits(q, from, asks, p, Len(given))
        /\ FirstComes(q, from, asks, given)
  BY DEF InTurn
<1> DEFINE n == Len(given)
           more == Append(given, from[1].arg)
           r == [i \in 1 .. n + 1 |-> IF i = n + 1 THEN q[1] ELSE p[i]]
           g == [i \in 1 .. Len(to) |-> q[Kept(1, i)]]
<1>2. /\ n \in Nat /\ Len(from) \in Nat /\ 1 \in 1 .. Len(from) /\ Len(asks) \in Nat
      /\ more \in Seq(Nat) /\ Len(more) = n + 1 /\ more[n + 1] = from[1].arg
      /\ \A i \in 1 .. n : more[i] = given[i]
      /\ more # <<>>
  OBVIOUS
<1>3. /\ q[1] \in 1 .. Len(asks) /\ from[1].arg = asks[q[1]]
      /\ \A k \in 1 .. n : p[k] < q[1]
  BY <1>1, <1>2 DEF Waits
<1>a. /\ r[n + 1] = q[1] /\ \A i \in 1 .. n : r[i] = p[i] /\ r[i] \in 1 .. Len(asks)
      /\ \A i \in 1 .. n + 1 : i \in 1 .. n \/ i = n + 1
  <2>1. \A i \in 1 .. n : i \in 1 .. n + 1 /\ i # n + 1 /\ p[i] \in 1 .. Len(asks)
    BY <1>1, <1>2
  <2>2. n + 1 \in 1 .. n + 1 /\ \A i \in 1 .. n + 1 : i \in 1 .. n \/ i = n + 1
    BY <1>2
  <2> HIDE DEF n
  <2> QED
    BY <2>1, <2>2
<1>4. r \in [1 .. n + 1 -> 1 .. Len(asks)]
  BY <1>3, <1>a
<1>b. n = 0 => q[1] = 1
  <2> SUFFICES ASSUME n = 0 PROVE q[1] = 1
    OBVIOUS
  <2>1. given = <<>> /\ asks # <<>>
    BY <1>2, <1>3
  <2>2. PICK i \in 1 .. Len(from) : IsChallenge(from, i) /\ q[i] = 1
    BY <1>1, <2>1 DEF FirstComes
  <2>3. 1 < i => q[1] < q[i]
    BY <1>1, <1>2, <2>2 DEF Waits
  <2>4. i = 1 \/ 1 < i
    BY <1>2
  <2> QED
    BY <1>2, <1>3, <2>2, <2>3, <2>4
<1>5. Placed(r, more, asks)
  <2> HIDE DEF r, more
  <2>1. ASSUME NEW i \in 1 .. n + 1, NEW j \in 1 .. n + 1, i < j PROVE r[i] < r[j]
    <3>1. i \in 1 .. n
      BY <1>2, <2>1
    <3>2. CASE j \in 1 .. n
      BY <1>1, <1>a, <2>1, <3>1, <3>2 DEF Placed
    <3>3. CASE j = n + 1
      BY <1>3, <1>a, <3>1, <3>3
    <3> QED
      BY <1>a, <3>2, <3>3
  <2>2. \A i \in 1 .. n + 1 : more[i] = asks[r[i]]
    BY <1>1, <1>2, <1>3, <1>a DEF Placed
  <2>3. r[1] = 1
    <3>1. CASE n = 0
      BY <1>a, <1>b, <3>1
    <3>2. CASE n # 0
      <4>1. 1 \in 1 .. n /\ given # <<>>
        BY <1>2, <3>2
      <4> QED
        BY <1>1, <1>a, <4>1 DEF Placed
    <3> QED
      BY <3>1, <3>2
  <2> HIDE DEF n
  <2> QED
    BY <1>2, <1>4, <2>1, <2>2, <2>3 DEF Placed
<1>6. Waits(g, to, asks, r, n + 1)
  <2>1. Waits(g, to, asks, p, n)
    BY <1>1, <1>2, WaitsWithout
  <2>2. ASSUME NEW i \in 1 .. Len(to), IsChallenge(to, i), NEW k \in 1 .. n + 1
        PROVE  r[k] < g[i]
    <3>1. CASE k \in 1 .. n
      <4> HIDE DEF g, r, n
      <4> QED
        BY <1>a, <2>1, <2>2, <3>1 DEF Waits
    <3>2. CASE k = n + 1
      <4>a. Kept(1, i) = i + 1 /\ 1 < i + 1
        BY DEF Kept
      <4>b. i \in 1 .. Len(from) - 1 /\ i + 1 \in 1 .. Len(from)
        BY <1>2 DEF Shorter
      <4>1. /\ Kept(1, i) = i + 1 /\ i + 1 \in 1 .. Len(from) /\ to[i] = from[i + 1]
            /\ 1 < i + 1
        BY <4>a, <4>b DEF Shorter
      <4>2. g[i] = q[i + 1]
        BY <4>1
      <4>3. IsChallenge(from, i + 1)
        BY <2>2, <4>1 DEF IsChallenge
      <4>4. q[1] < q[i + 1]
        BY <1>1, <1>2, <4>1, <4>3 DEF Waits
      <4> QED
        BY <1>a, <3>2, <4>2, <4>4
    <3> QED
      BY <1>a, <3>1, <3>2
  <2> HIDE DEF g, r, n
  <2> QED
    BY <2>1, <2>2 DEF Waits
<1>7. FirstComes(g, to, asks, more)
  BY <1>2 DEF FirstComes
<1>8. g \in [1 .. Len(to) -> Nat]
  BY <1>6 DEF Waits
<1> HIDE DEF g, r, more, n
<1> QED
  BY <1>2, <1>4, <1>5, <1>6, <1>7, <1>8 DEF InTurn, more

(* A message is sent, which may be a challenge. *)
LEMMA InTurnSent ==
  ASSUME NEW from \in Seq(DevMessages), NEW asks \in Seq(Challenges), NEW given \in Seq(Nat),
         InTurn(from, asks, given), NEW m \in DevMessages, NEW as \in Seq(Challenges),
         IF m.kind = "Challenge" THEN m.arg \in Challenges /\ as = Append(asks, m.arg)
         ELSE as = asks
  PROVE  InTurn(Append(from, m), as, given)
<1>1. PICK p \in [1 .. Len(given) -> 1 .. Len(asks)], q \in [1 .. Len(from) -> Nat] :
        /\ Placed(p, given, asks)
        /\ Waits(q, from, asks, p, Len(given))
        /\ FirstComes(q, from, asks, given)
  BY DEF InTurn
<1> DEFINE k == Len(from)
           to == Append(from, m)
           g == [i \in 1 .. k + 1 |-> IF i = k + 1 THEN Len(as) ELSE q[i]]
<1>2. /\ k \in Nat /\ Len(to) = k + 1 /\ to[k + 1] = m /\ Len(asks) \in Nat
      /\ \A i \in 1 .. k : to[i] = from[i]
      /\ \A i \in 1 .. k + 1 : i \in 1 .. k \/ i = k + 1
      /\ k + 1 \in 1 .. k + 1 /\ \A i \in 1 .. k : i \in 1 .. k + 1 /\ i # k + 1
  OBVIOUS
<1>3. /\ Len(as) \in Nat /\ Len(asks) <= Len(as)
      /\ m.kind = "Challenge" => Len(as) = Len(asks) + 1 /\ m.arg = as[Len(as)]
      /\ \A i \in 1 .. Len(asks) : as[i] = asks[i] /\ i \in 1 .. Len(as)
  <2>1. CASE m.kind = "Challenge"
    <3>1. as = Append(asks, m.arg) /\ m.arg \in Challenges
      BY <2>1
    <3>2. /\ Len(as) = Len(asks) + 1 /\ as[Len(asks) + 1] = m.arg
          /\ \A i \in 1 .. Len(asks) : as[i] = asks[i]
      BY <3>1
    <3>3. Len(as) \in Nat /\ Len(asks) <= Len(as) /\ m.arg = as[Len(as)]
      BY <1>2, <3>2
    <3>4. \A i \in 1 .. Len(asks) : i \in 1 .. Len(as)
      BY <1>2, <3>2
    <3> QED
      BY <3>2, <3>3, <3>4
  <2>2. CASE m.kind # "Challenge"
    <3>1. as = asks
      BY <2>2
    <3> QED
      BY <1>2, <2>2, <3>1
  <2> QED
    BY <2>1, <2>2
<1>4. g[k + 1] = Len(as) /\ \A i \in 1 .. k : g[i] = q[i] /\ q[i] \in Nat
  BY <1>1, <1>2
<1>5. g \in [1 .. k + 1 -> Nat]
  BY <1>2, <1>3, <1>4
<1>6. /\ \A i \in 1 .. k : IsChallenge(to, i) <=> IsChallenge(from, i)
      /\ IsChallenge(to, k + 1) <=> m.kind = "Challenge"
  BY <1>2 DEF IsChallenge
<1> HIDE DEF g, to, k
<1>7. p \in [1 .. Len(given) -> 1 .. Len(as)] /\ Placed(p, given, as)
  BY <1>1, <1>3 DEF Placed
<1>8. \A i \in 1 .. k : IsChallenge(from, i) =>
        /\ q[i] \in 1 .. Len(asks) /\ from[i].arg = asks[q[i]]
        /\ \A h \in 1 .. Len(given) : p[h] < q[i]
  BY <1>1 DEF Waits, k
<1>9. Waits(g, to, as, p, Len(given))
  <2>1. ASSUME NEW i \in 1 .. k + 1, IsChallenge(to, i)
        PROVE  /\ g[i] \in 1 .. Len(as) /\ to[i].arg = as[g[i]]
               /\ \A h \in 1 .. Len(given) : p[h] < g[i]
    <3>1. CASE i \in 1 .. k
      BY <1>2, <1>3, <1>4, <1>6, <1>8, <2>1, <3>1
    <3>2. CASE i = k + 1
      <4>1. m.kind = "Challenge" /\ g[i] = Len(asks) + 1 /\ to[i] = m
        <5>1. m.kind = "Challenge" /\ to[i] = m /\ g[i] = Len(as)
          BY <1>2, <1>4, <1>6, <2>1, <3>2
        <5> QED
          BY <1>3, <5>1
      <4>2. \A h \in 1 .. Len(given) : p[h] < Len(asks) + 1
        <5>1. \A h \in 1 .. Len(given) : p[h] \in 1 .. Len(asks)
          BY <1>1
        <5> QED
          BY <1>2, <5>1
      <4>3. Len(as) = Len(asks) + 1 /\ m.arg = as[Len(as)]
        BY <1>3, <4>1
      <4>4. g[i] \in 1 .. Len(as) /\ to[i].arg = as[g[i]]
        BY <1>2, <4>1, <4>3
      <4> QED
        BY <4>1, <4>2, <4>4
    <3> QED
      BY <1>2, <3>1, <3>2
  <2>2. ASSUME NEW i \in 1 .. k + 1, NEW j \in 1 .. k + 1, IsChallenge(to, i),
               IsChallenge(to, j), i < j
        PROVE  g[i] < g[j]
    <3>1. i \in 1 .. k
      BY <1>2, <2>2
    <3>2. CASE j \in 1 .. k
      BY <1>1, <1>4, <1>6, <2>2, <3>1, <3>2 DEF Waits, k
    <3>3. CASE j = k + 1
      <4>1. q[i] \in 1 .. Len(asks) /\ Len(as) = Len(asks) + 1
        BY <1>3, <1>6, <1>8, <2>2, <3>1, <3>3
      <4> QED
        BY <1>2, <1>4, <3>1, <3>3, <4>1
    <3> QED
      BY <1>2, <3>2, <3>3
  <2> QED
    BY <1>2, <1>5, <2>1, <2>2 DEF Waits
<1>10. FirstComes(g, to, as, given)
  <2> SUFFICES ASSUME given = <<>>, as # <<>>
               PROVE  \E i \in 1 .. k + 1 : IsChallenge(to, i) /\ g[i] = 1
    BY <1>2 DEF FirstComes
  <2>1. CASE asks # <<>>
    <3>1. PICK i \in 1 .. k : IsChallenge(from, i) /\ q[i] = 1
      BY <1>1, <2>1 DEF FirstComes, k
    <3> QED
      BY <1>2, <1>4, <1>6, <3>1
  <2>2. CASE asks = <<>>
    <3>1. m.kind = "Challenge" /\ Len(as) = 1
      <4>1. m.kind = "Challenge" /\ Len(asks) = 0
        BY <2>2
      <4> QED
        BY <1>3, <4>1
    <3> QED
      BY <1>2, <1>4, <1>6, <3>1
  <2> QED
    BY <2>1, <2>2
<1>11. g \in [1 .. Len(to) -> Nat]
  BY <1>2, <1>5
<1> QED
  BY <1>7, <1>9, <1>10, <1>11 DEF InTurn, to

ResponseInv ==
  /\ ResponsesFit
  /\ answered.challenge = answered.response
  /\ Wrote("Response") => told.responses # <<>>
  /\ Alive =>
       /\ InTurn(fromDev, asked, Given)
       /\ Due("Response") => Len(todo) = 1

LEMMA TailIsShorter ==
  ASSUME NEW from \in Seq(DevMessages), from # <<>>
  PROVE  /\ Tail(from) \in Seq(DevMessages) /\ Shorter(Tail(from), from, 1)
         /\ 1 \in 1 .. Len(from) /\ Head(from) = from[1]
BY DEF Shorter, Kept

LEMMA DroppedIsShorter ==
  ASSUME NEW from \in Seq(DevMessages), NEW k \in 1 .. Len(from)
  PROVE  Without(from, k) \in Seq(DevMessages) /\ Shorter(Without(from, k), from, k)
BY WithoutOne DEF Shorter, Kept

(* Every message but a challenge is taken by a handler that leaves no      *)
(* response to write. *)
LEMMA HandlerTakes ==
  ASSUME Types, Handler \/ ReceiveFails, ~ AuthChallenge
  PROVE  /\ UNCHANGED answered /\ ~ Due("Response")'
         /\ \/ UNCHANGED fromDev
            \/ fromDev # <<>> /\ fromDev' = Tail(fromDev) /\ Head(fromDev).kind # "Challenge"
<1> USE DEF Ready, Goes, GoesOn, modeVars
<1>0. /\ todo = <<>> /\ \A i \in 1 .. Len(todo') : Fits(pc', onError', todo'[i])
  BY HandlerPlans DEF Plan
<1>1. ASSUME pc' # "auth" PROVE ~ Due("Response")'
  BY <1>0, <1>1 DEF Fits, Due
<1>2. CASE Negotiated \/ Closed \/ Failed \/ Ended \/ ReceiveFails \/ Top
  BY <1>1, <1>2, NoneDue DEF Negotiated, Closed, Failed, Ended, ReceiveFails, Top
<1>3. CASE AuthIdentification
  BY <1>3, NoneDue, OneDue DEF AuthIdentification, Takes, Identifications
<1>4. CASE AuthCertificate
  BY <1>4, OneDue DEF AuthCertificate, Takes
<1>5. CASE AuthSucceeded \/ AuthFailed
  BY <1>1, <1>5 DEF AuthSucceeded, AuthFailed, Takes
<1>6. CASE ControlIdentification
  BY <1>1, <1>6 DEF ControlIdentification, Takes, Identifications
<1>7. CASE ControlOther \/ EaDataIgnored
  BY <1>1, <1>7 DEF ControlOther, EaDataIgnored, Takes
<1>8. CASE EaStart
  BY <1>1, <1>8 DEF EaStart, Takes
<1>9. CASE EaStop
  BY <1>1, <1>9 DEF EaStop, Takes
<1>10. CASE EaData
  BY <1>1, <1>10 DEF EaData, Takes
<1>11. CASE OutgoingData \/ HidCommand \/ AppLaunch \/ Timer
  BY <1>1, <1>11 DEF OutgoingData, HidCommand, AppLaunch, Timer
<1> QED
  BY <1>2, <1>3, <1>4, <1>5, <1>6, <1>7, <1>8, <1>9, <1>10, <1>11
     DEF Handler, Authentication, Branch

LEMMA NextResponseInv ==
  ASSUME Types, StepInv, ResponseInv, [Next]_vars
  PROVE  ResponseInv'
<1>0. /\ \A i \in 1 .. Len(todo) : Fits(pc, onError, todo[i])
      /\ todo # <<>> => 1 \in 1 .. Len(todo)
      /\ onError \in OnErrors /\ fromDev \in Seq(DevMessages) /\ asked \in Seq(Challenges)
      /\ told.responses \in Seq(Nat)
  BY DEF StepInv, TodoFits, Plan, Types, StepTypes, ArrivingTypes, DeviceTypes, HistoryTypes
<1>a. /\ Due("Response") /\ Alive => todo[1].msg.kind = "Response" /\ Len(todo) = 1
      /\ Due("Response") => pc = "auth" /\ onError = "end"
  <2>1. Due("Response") => pc = "auth" /\ onError = "end"
    BY <1>0 DEF Due, Fits
  <2>2. ASSUME Due("Response"), Alive PROVE todo[1].msg.kind = "Response" /\ Len(todo) = 1
    <3>1. PICK i \in 1 .. Len(todo) : todo[i].msg.kind = "Response"
      BY <2>2 DEF Due
    <3>2. Len(todo) = 1
      BY <2>2 DEF ResponseInv
    <3> QED
      BY <3>1, <3>2
  <2> QED
    BY <2>1, <2>2
<1>1. CASE Writes
  <2>1. /\ 1 \in 1 .. Len(todo) /\ todo # <<>> /\ ~ written /\ written'
        /\ UNCHANGED <<todo, pc, answered, fromDev, asked>>
        /\ told'.kinds = told.kinds \cup {todo[1].msg.kind}
        /\ told'.responses = IF todo[1].msg.kind = "Response"
                             THEN Append(told.responses, todo[1].msg.arg)
                             ELSE told.responses
    BY <1>0, <1>1 DEF Writes, Write, modeVars, device, Learns
  <2>2. Given' = told'.responses
    BY <2>1 DEF Given
  <2>3. CASE todo[1].msg.kind = "Response"
    <3>1. pc = "auth" /\ Alive /\ Due("Response")
      BY <1>0, <2>1, <2>3 DEF Fits, Alive, Due
    <3>2. Given = told'.responses
      BY <2>1, <2>3, <3>1 DEF Given
    <3>3. todo[1].msg.arg \in Nat
      <4>1. todo[1] \in Steps
        BY <2>1, RestOfTodo DEF Types, StepTypes
      <4>2. todo[1].msg \in OutMessages
        BY <4>1 DEF Steps
      <4> QED
        BY <2>3, <4>2 DEF OutMessages
    <3>4. told'.responses \in Seq(Nat) /\ told'.responses # <<>>
      <4> DEFINE more == Append(told.responses, todo[1].msg.arg)
      <4>1. told'.responses = more
        BY <2>1, <2>3
      <4>2. more \in Seq(Nat) /\ more # <<>>
        <5>1. \A q \in Seq(Nat), n \in Nat : Append(q, n) \in Seq(Nat) /\ Append(q, n) # <<>>
          BY AppendProperties
        <5> QED
          BY <1>0, <3>3, <5>1
      <4> HIDE DEF more
      <4> QED
        BY <4>1, <4>2
    <3>5. InTurn(fromDev, asked, told'.responses)
      BY <3>1, <3>2 DEF ResponseInv
    <3>6. ResponsesFit'
      BY <1>0, <2>1, <3>4, <3>5, InTurnAnswers DEF ResponsesFit
    <3>7. Len(todo) = 1
      BY <1>a, <3>1
    <3> QED
      BY <2>1, <2>2, <3>4, <3>5, <3>6, <3>7 DEF ResponseInv
  <2>4. CASE todo[1].msg.kind # "Response"
    <3>1. UNCHANGED <<told.responses>> /\ (ResponsesFit <=> ResponsesFit')
      BY <2>1, <2>4 DEF ResponsesFit
    <3>2. Alive => ~ Due("Response") /\ ~ Due("Response")'
      BY <1>a, <2>1, <2>4 DEF Due
    <3>3. Alive => Given' = Given
      BY <2>2, <3>1, <3>2 DEF Given
    <3>4. Wrote("Response")' => Wrote("Response")
      BY <2>1, <2>4 DEF Wrote
    <3> QED
      BY <2>1, <3>1, <3>2, <3>3, <3>4 DEF ResponseInv, Alive
  <2> QED
    BY <2>3, <2>4
<1>2. CASE Answers
  <2>1. /\ todo # <<>> /\ written /\ ~ written' /\ todo' = Tail(todo)
        /\ UNCHANGED <<pc, answered, fromDev, asked, told>>
    BY <1>2 DEF Answers, SendOver, Types, StepTypes, device
  <2>2. Alive => ~ Due("Response")'
    <3> SUFFICES ASSUME Alive PROVE ~ Due("Response")'
      OBVIOUS
    <3>1. CASE Due("Response")
      <4>1. Len(todo) = 1
        BY <1>a, <3>1
      <4>2. Len(todo') = 0
        BY <2>1, <4>1, RestOfTodo
      <4> QED
        BY <4>2 DEF Due
    <3>2. CASE ~ Due("Response")
      BY <2>1, <3>2, RestOfTodo DEF Due
    <3> QED
      BY <3>1, <3>2
  <2>3. Alive => Given' = Given
    BY <2>1, <2>2 DEF Given
  <2> QED
    BY <2>1, <2>2, <2>3 DEF ResponseInv, ResponsesFit, Alive, Wrote
<1>3. CASE Runs \/ Loses
  <2>1. /\ todo = <<>> /\ UNCHANGED <<told, asked>> /\ ~ written' /\ (Handler \/ ReceiveFails)
        /\ ~ Due("Response")
    <3>1. /\ todo = <<>> /\ UNCHANGED <<told, asked>> /\ ~ written'
          /\ (Handler \/ ReceiveFails)
      BY <1>3, HandlerPlans DEF Runs, Loses, device
    <3> QED
      BY <3>1 DEF Due
  <2>2. /\ Given = told.responses /\ ResponsesFit'
        /\ (Wrote("Response") => told.responses # <<>>)'
    BY <2>1 DEF Given, ResponseInv, ResponsesFit, Wrote
  <2>3. CASE AuthChallenge
    <3>1. PICK m \in Arrived :
            /\ Takes(m) /\ m.kind = "Challenge"
            /\ answered' = [challenge |-> m.arg, response |-> ResponseTo(m.arg)]
            /\ Goes("auth", <<Step("Response", ResponseTo(m.arg), <<>>)>>, "end")
      BY <2>3 DEF AuthChallenge
    <3>2. ResponseTo(m.arg) = m.arg
      BY DEF ResponseTo, ResponseInv
    <3>3. pc = "auth" /\ Alive
      BY <2>3 DEF AuthChallenge, Ready, Alive
    <3>4. fromDev # <<>> /\ m = Head(fromDev) /\ fromDev' = Tail(fromDev)
      BY <3>1 DEF Takes
    <3>5. /\ fromDev' \in Seq(DevMessages) /\ Shorter(fromDev', fromDev, 1)
          /\ 1 \in 1 .. Len(fromDev) /\ m = fromDev[1]
      BY <1>0, <3>4, TailIsShorter
    <3>6. IsChallenge(fromDev, 1) /\ m \in DevMessages
      BY <1>0, <3>1, <3>5 DEF IsChallenge
    <3>7. fromDev[1].arg \in Nat
      BY <3>1, <3>5, <3>6, ArgTypes, ConnectionAssumption
    <3>8. InTurn(fromDev, asked, told.responses)
      BY <2>2, <3>3 DEF ResponseInv
    <3>9. InTurn(fromDev', asked, Append(told.responses, fromDev[1].arg))
      BY <1>0, <3>4, <3>5, <3>6, <3>7, <3>8, InTurnTaken
    <3>10. Len(todo') = 1 /\ todo'[1].msg.arg = m.arg /\ todo'[1].msg.kind = "Response"
      BY <3>1, <3>2 DEF Goes, Step, Msg
    <3>11. Due("Response")'
      BY <3>10 DEF Due
    <3>12. Given' = Append(told.responses, fromDev[1].arg)
      BY <2>1, <3>5, <3>10, <3>11 DEF Given
    <3>13. answered'.challenge = answered'.response
      BY <3>1, <3>2
    <3> QED
      BY <2>1, <2>2, <3>9, <3>10, <3>12, <3>13 DEF ResponseInv
  <2>4. CASE ~ AuthChallenge
    <3>1. /\ UNCHANGED answered /\ ~ Due("Response")'
          /\ \/ UNCHANGED fromDev
             \/ fromDev # <<>> /\ fromDev' = Tail(fromDev) /\ Head(fromDev).kind # "Challenge"
      BY <2>1, <2>4, HandlerTakes
    <3>2. Alive' => Alive
      BY <2>1 DEF Handler, Negotiated, Authentication, Top, Branch, Closed, Failed, Ended,
         ReceiveFails, AuthIdentification, AuthCertificate, AuthChallenge, AuthSucceeded,
         AuthFailed, ControlIdentification, ControlOther, EaStart, EaStop, EaData,
         EaDataIgnored, OutgoingData, HidCommand, AppLaunch, Timer, Ready, GoesOn, Goes, Alive
    <3>3. Given' = told.responses
      BY <2>1, <3>1 DEF Given
    <3>4. ASSUME Alive PROVE InTurn(fromDev', asked, told.responses)
      <4>1. InTurn(fromDev, asked, told.responses)
        BY <2>2, <3>4 DEF ResponseInv
      <4>2. CASE fromDev # <<>> /\ fromDev' = Tail(fromDev) /\ Head(fromDev).kind # "Challenge"
        <5>1. /\ fromDev' \in Seq(DevMessages) /\ Shorter(fromDev', fromDev, 1)
              /\ 1 \in 1 .. Len(fromDev) /\ ~ IsChallenge(fromDev, 1)
          BY <1>0, <4>2, TailIsShorter DEF IsChallenge
        <5> QED
          BY <1>0, <4>1, <5>1, InTurnWithout
      <4> QED
        BY <3>1, <4>1, <4>2
    <3> QED
      BY <2>1, <2>2, <3>1, <3>2, <3>3, <3>4 DEF ResponseInv
  <2> QED
    BY <2>3, <2>4
<1>4. CASE GivesUp
  <2>1. /\ todo # <<>> /\ UNCHANGED <<answered, fromDev, asked, told>> /\ ~ written'
        /\ \/ onError = "end" /\ pc' = "failed" /\ todo' = <<>>
           \/ onError = "drop" /\ pc' = pc /\ todo' = <<>>
           \/ onError = "skip" /\ pc' = pc /\ todo' = Tail(todo)
    BY <1>0, <1>4 DEF GivesUp, StepFails, GoesOn, Goes, OnErrors, modeVars, device
  <2>2. Alive' => Alive /\ ~ Due("Response")
    BY <1>a, <2>1 DEF Alive
  <2>3. ~ Due("Response") => ~ Due("Response")'
    BY <2>1, NoneDue, RestOfTodo DEF Due
  <2>4. Alive' => Given' = Given
    BY <2>1, <2>2, <2>3 DEF Given
  <2> QED
    BY <2>1, <2>2, <2>3, <2>4 DEF ResponseInv, ResponsesFit, Wrote
<1>5. CASE Quiet
  <2>1. UNCHANGED <<pc, todo, written, answered, told>> /\ Arrives
    BY <1>5 DEF Quiet, stepVars, modeVars
  <2>2. /\ Given' = Given /\ Alive' = Alive /\ Wrote("Response")' = Wrote("Response")
        /\ Due("Response")' = Due("Response")
    <3>1. Due("Response")' = Due("Response")
      BY <2>1 DEF Due
    <3> QED
      BY <2>1, <3>1 DEF Given, Alive, Wrote
  <2>3. ASSUME Alive PROVE Given \in Seq(Nat) /\ InTurn(fromDev, asked, Given)
    <3>1. CASE Due("Response")
      <4>a. Len(todo) = 1
        BY <1>a, <2>3, <3>1
      <4>1. todo \in Seq(Steps) /\ 1 \in 1 .. Len(todo)
        BY <4>a DEF Types, StepTypes
      <4>b. todo[1] \in Steps
        BY <4>1
      <4>2. todo[1].msg \in OutMessages
        BY <4>b DEF Steps
      <4>3. todo[1].msg.arg \in Nat
        BY <1>a, <2>3, <3>1, <4>2 DEF OutMessages
      <4> QED
        BY <1>0, <2>3, <4>3 DEF Given, ResponseInv
    <3>2. CASE ~ Due("Response")
      BY <1>0, <2>3, <3>2 DEF Given, ResponseInv
    <3> QED
      BY <3>1, <3>2
  <2>4. CASE UNCHANGED <<fromDev, asked>>
    BY <2>1, <2>2, <2>4 DEF ResponseInv, ResponsesFit
  <2>5. ASSUME Responding, Incoming({"Challenge"}), UNCHANGED asked,
               fromDev' = Without(fromDev, queued + 1)
        PROVE  ResponseInv'
    <3>1. todo # <<>> /\ Wrote("Response") /\ Given = told.responses
      <4>1. written /\ Head(todo).msg.kind = "Response"
        BY <2>5 DEF Responding
      <4>2. todo # <<>> /\ Head(todo) = todo[1]
        BY <4>1 DEF Types, StepTypes
      <4> QED
        BY <4>1, <4>2 DEF StepInv, WrittenIsTold, Given
    <3>2. Given # <<>>
      BY <3>1 DEF ResponseInv
    <3> DEFINE k == queued + 1
    <3>3. k \in 1 .. Len(fromDev) /\ fromDev' = Without(fromDev, k)
      BY <2>5 DEF Incoming, Types, ArrivingTypes
    <3> HIDE DEF k
    <3>4. fromDev' \in Seq(DevMessages) /\ Shorter(fromDev', fromDev, k)
      BY <1>0, <3>3, DroppedIsShorter
    <3>5. Alive => InTurn(fromDev', asked, Given)
      BY <1>0, <2>3, <3>2, <3>3, <3>4, InTurnWithout
    <3> QED
      BY <2>1, <2>2, <2>5, <3>5 DEF ResponseInv, ResponsesFit
  <2>6. ASSUME NEW m \in DevMessages, fromDev' = Append(fromDev, m),
               IF m.kind = "Challenge"
               THEN m.arg \in Challenges /\ asked' = Append(asked, m.arg)
               ELSE UNCHANGED asked
        PROVE  ResponseInv'
    <3>1. asked' \in Seq(Challenges)
      <4>1. asked' = asked \/ (m.arg \in Challenges /\ asked' = Append(asked, m.arg))
        BY <2>6
      <4> QED
        BY <1>0, <4>1
    <3>2. Alive => InTurn(Append(fromDev, m), asked', Given)
      BY <1>0, <2>3, <2>6, <3>1, InTurnSent
    <3>3. ResponsesFit'
      <4>1. IsAnswering(told.responses, asked')
        BY <1>0, <2>6, AnsweringMore DEF ResponseInv, ResponsesFit
      <4> QED
        BY <2>1, <4>1 DEF ResponsesFit
    <3> QED
      BY <2>1, <2>2, <2>6, <3>2, <3>3 DEF ResponseInv
  <2> QED
    BY <2>1, <2>4, <2>5, <2>6 DEF Arrives
<1> QED
  BY <1>1, <1>2, <1>3, <1>4, <1>5, NextCases

LEMMA InitResponses == Init => ResponseInv
<1> SUFFICES ASSUME Init PROVE ResponseInv
  OBVIOUS
<1>1. /\ todo = <<>> /\ fromDev = <<>> /\ asked = <<>> /\ told.responses = <<>>
      /\ answered.challenge = answered.response /\ ~ Wrote("Response")
  BY DEF Init, ConnectionInit, ToldNothing, Wrote
<1>2. Given = <<>> /\ ~ Due("Response")
  BY <1>1 DEF Given, Due
<1>3. InTurn(<<>>, <<>>, <<>>)
  <2> DEFINE p == [i \in 1 .. Len(<<>>) |-> 0]
  <2>1. p \in [1 .. Len(<<>>) -> 1 .. Len(<<>>)] /\ p \in [1 .. Len(<<>>) -> Nat]
    OBVIOUS
  <2> HIDE DEF p
  <2>2. Placed(p, <<>>, <<>>) /\ Waits(p, <<>>, <<>>, p, Len(<<>>)) /\ FirstComes(p, <<>>, <<>>, <<>>)
    BY <2>1 DEF Placed, Waits, FirstComes
  <2> QED
    BY <2>1, <2>2 DEF InTurn
<1>4. ResponsesFit
  <2>1. <<>> \in Seq(Challenges) /\ <<>> \in Seq(Nat)
    OBVIOUS
  <2> QED
    BY <1>1, <1>3, <2>1, InTurnAnswers DEF ResponsesFit
<1> QED
  BY <1>1, <1>2, <1>3, <1>4 DEF ResponseInv

(* Every response is to a challenge of its own, in the order in which they *)
(* were sent, those from the cache too, with the first one answered: also  *)
(* when the link drops challenges that come while a response is sent.      *)
THEOREM ResponsesInOrder == Spec => []ResponsesFit
<1> DEFINE I == Types /\ StepInv /\ ResponseInv
<1>1. Init => I
  BY InitTypes, InitStepHid, InitResponses
<1>2. I /\ [Next]_vars => I'
  BY NextTypes, NextStepInv, NextResponseInv
<1>3. I => ResponsesFit
  BY DEF ResponseInv
<1> HIDE DEF I
<1> QED
  BY <1>1, <1>2, <1>3, PTL DEF Spec
=============================================================================
