--------------------------- MODULE ControlMessage ---------------------------
(***************************************************************************)
(* The bytes of control messages: those the accessory sends, as            *)
(* src/src/session/control.rs, src/src/session/hid.rs and src/src/auth.rs  *)
(* build them from the configuration, and how src/src/connection.rs,       *)
(* src/src/link.rs and src/src/auth.rs read the device's.  A text is a     *)
(* sequence of bytes.                                                      *)
(***************************************************************************)
EXTENDS Parameters, FiniteSets

CONSTANT ChallengeSize  \* bytes of a challenge: 32

-----------------------------------------------------------------------------
(* The part of Iap2Config that messages are built from, the answer to the  *)
(* challenge, and the button an application presses                        *)

(* None, or Some. *)
Optionals == {o \in SUBSET Seq(Byte) : \A x, y \in o : x = y}

HidFunction ==
  [kind : {"None", "MediaPlaybackRemote"}] \cup [kind : {"Custom"}, value : Byte]

Components == [id : Word, name : Seq(Byte), function : HidFunction, extra : Optionals]

Bit ==
  [Play |-> 0, Pause |-> 1, PlayPause |-> 0, Next |-> 2, Previous |-> 3,
   Shuffle |-> 4, Repeat |-> 5, VolumeUp |-> 6, VolumeDown |-> 7]

(* rawParams are the parameters of raw, an identification the application  *)
(* writes itself; texts are name, model, manufacturer and the versions.    *)
Configurations ==
  [raw : Seq(Byte), rawParams : Seq(Byte), texts : [1 .. 6 -> Seq(Byte)],
   messagesSent : Seq(Word), messagesReceived : Seq(Word),
   powerSource : Byte, maxCurrent : Word, protocolName : Seq(Byte), protocolId : Byte,
   bundleSeed : Optionals, language : Seq(Byte), languages : Seq(Seq(Byte)),
   components : Seq(Components), mediaAttributes : Seq(Word),
   playbackAttributes : Seq(Word), bundle : Seq(Byte),
   certificate : Seq(Byte), response : Seq(Byte),
   hidComponent : Word, vendor : Word, product : Word, descriptor : Seq(Byte),
   command : DOMAIN Bit]

(* The length counts the whole message; what follows starts with its id. *)
Message(id, params) ==
  LET body == U16(id) \o params
  IN  <<64, 64>> \o U16(2 + 2 + Len(body)) \o body

-----------------------------------------------------------------------------
(* ControlSession                                                          *)

Numbers(id, list) == IF list = <<>> THEN <<>> ELSE Parameter(id, Written(U16, list))

(* SupportedExternalAccessoryProtocol: a number that is always 0, the      *)
(* name, and the match action.                                             *)
Protocol(name) ==
  Sized(4 + (4 + 1) + (4 + Len(Text(name))) + (4 + 1), 10,
        Parameter(0, <<0>>) \o Parameter(1, Text(name)) \o Parameter(2, <<1>>))

(* HidFunction *)
FunctionBytes(f) ==
  CASE f.kind = "None" -> <<>>
    [] f.kind = "MediaPlaybackRemote" -> <<1>>
    [] f.kind = "Custom" -> <<f.value>>

(* Mutant: the extra data is not counted. *)
HidLengthBare(c) ==
  4 + (4 + 2) + (4 + Len(Text(c.name))) + 4 + Len(FunctionBytes(c.function))

HidLength(c) ==
  4 + (4 + 2) + (4 + Len(Text(c.name)))
    + (IF c.extra = {} THEN 0 ELSE 4 + Len(CHOOSE d \in c.extra : TRUE))
    + 4 + Len(FunctionBytes(c.function))

Optional(Bytes(_), option) ==
  IF option = {} THEN <<>> ELSE Bytes(CHOOSE x \in option : TRUE)

HidComponent(c, id) ==
  Sized(HidLength(c), id,
        Parameter(0, U16(c.id)) \o Parameter(1, Text(c.name))
          \o Parameter(2, FunctionBytes(c.function))
          \o Optional(LAMBDA d : Parameter(3, d), c.extra))

(* The parameters of IdentificationInformation. *)
Described(c) ==
  FlattenSeq([i \in DOMAIN c.texts |-> Parameter(i - 1, Text(c.texts[i]))])
    \o Numbers(6, c.messagesSent) \o Numbers(7, c.messagesReceived)
    \o Parameter(8, <<c.powerSource>>) \o Parameter(9, U16(c.maxCurrent))
    \o Protocol(c.protocolName)
    \o Optional(LAMBDA b : Parameter(11, Text(b)), c.bundleSeed)
    \o Parameter(12, Text(c.language))
    \o Written(LAMBDA l : Parameter(13, Text(l)), c.languages)
    \o FlattenSeq([i \in DOMAIN c.components |->
                     HidComponent(c.components[i], IF i = 1 THEN 17 ELSE 18)])

StartsWith(d, bytes) == Len(d) >= Len(bytes) /\ SubSeq(d, 1, Len(bytes)) = bytes

Identification == 7425  \* 1D01

(* What follows the message id. *)
RawBody(raw) ==
  IF StartsWith(raw, U16(Identification)) THEN SubSeq(raw, 3, Len(raw)) ELSE raw

(* raw_identification_control_payload: a whole message, or its body with   *)
(* or without the message id.                                              *)
RawMessage(raw) ==
  IF Len(raw) >= 6 /\ StartsWith(raw, <<64, 64>>) THEN raw
  ELSE Message(Identification, RawBody(raw))

IdentificationMessage(c) ==
  IF c.raw # <<>> THEN RawMessage(c.raw) ELSE Message(Identification, Described(c))

EaSessionRequest(c, session) ==
  Message(59906, Parameter(0, <<c.protocolId>>) \o Parameter(1, <<session>>))

AppLaunchRequest(bundle) ==
  Message(59906, Parameter(0, Text(bundle)) \o Parameter(1, <<1>>))

(* A group of attributes, each a parameter without a payload; none if      *)
(* there are no attributes.                                                *)
Attributes(id, list) ==
  IF list = <<>> THEN <<>> ELSE Parameter(id, Written(LAMBDA a : Parameter(a, <<>>), list))

StartNowPlaying(c) ==
  Message(20480, Attributes(0, c.mediaAttributes) \o Attributes(1, c.playbackAttributes))

StopNowPlaying == Message(20482, <<>>)

RequestStatusUpdate == Message(16727, <<>>)

-----------------------------------------------------------------------------
(* HidRemote and Iap2Auth                                                  *)

StartHid(c) ==
  Message(26624, Parameter(0, U16(c.hidComponent)) \o Parameter(1, U16(c.vendor))
                   \o Parameter(2, U16(c.product)) \o Parameter(4, c.descriptor))

StopHid(c) == Message(26627, Parameter(0, U16(c.hidComponent)))

HidReport(c, report) ==
  Message(26626, Parameter(0, U16(c.hidComponent)) \o Parameter(1, report))

(* 1 << bit *)
Shifted(bit) ==
  LET one[i \in 0 .. 8] == IF i = 0 THEN 1 ELSE 2 * one[i - 1]
  IN  one[bit]

(* Mutant: bits are counted from one. *)
PressedNext(command) == <<Shifted(Bit[command] + 1)>>

Pressed(command) == <<Shifted(Bit[command])>>

CertificateMessage(certificate) == Message(43521, Parameter(0, certificate))

ResponseMessage(response) == Message(43523, Parameter(0, response))

-----------------------------------------------------------------------------
(* Reading                                                                 *)

(* Mutant: the length is compared with what was received only. *)
IsControlAny(d) == Len(d) >= 6 /\ StartsWith(d, <<64, 64>>) /\ U16At(d, 3) <= Len(d)

(* The checks of handle_authentication and of handle_control_message. *)
IsControl(d) == Len(d) >= 6 /\ StartsWith(d, <<64, 64>>) /\ U16At(d, 3) \in 6 .. Len(d)

MessageId(d) == U16At(d, 5)

Contents(d) == SubSeq(d, 7, U16At(d, 3))

(* control_message_id of the link, which does not look at the length. *)
LinkMessageId(d) ==
  IF Len(d) >= 6 /\ StartsWith(d, <<64, 64>>) THEN {U16At(d, 5)} ELSE {}

(* EA00: the session's id, if the first parameter is number 0. *)
StartedSession(d) ==
  LET params == Contents(d)
  IN  IF Len(params) >= 5 /\ U16At(params, 3) = 0 THEN {params[5]} ELSE {}

(* EA01: the byte where the id is if it comes first. *)
StoppedSession(d) == IF Len(d) >= 11 THEN {d[11]} ELSE {}

(* handle_challenge_request, up to the MFi provider. *)
ChallengeIn(d) ==
  LET payload == Contents(d)
      challenge == SubSeq(payload, 5, 4 + ChallengeSize)
  IN  IF \/ Len(payload) < 4 + ChallengeSize
         \/ U16At(payload, 1) > Len(payload)
         \/ \A i \in DOMAIN challenge : challenge[i] = 0
      THEN {} ELSE {challenge}
=============================================================================
