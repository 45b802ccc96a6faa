--------------------------- MODULE ControlExchange ---------------------------
(***************************************************************************)
(* Control messages as bytes, both ways: the accessory sends what          *)
(* ControlMessage builds from its configuration, and reads with            *)
(* ControlMessage and NowPlaying what a device sends.  Connection says     *)
(* when which message is sent; here any is, at any time.                   *)
(*                                                                         *)
(* The device is not in the repository.  It reads a message as the code    *)
(* reads one, into the payloads of its parameters by number, and writes    *)
(* its own as the code's comments say they look; it may add parameters of  *)
(* its own or a broken one behind those read, or bytes behind the message. *)
(* An update has the attributes that changed.  The application lays what   *)
(* it gets over what it shows.                                             *)
(***************************************************************************)
EXTENDS ControlMessage, NowPlaying, TLC

CONSTANTS
  Scenarios,  \* configurations, and bounds: messages sent each way
  Sessions,   \* ids of External Accessory sessions the device uses
  Secrets,    \* its challenges
  Changes,    \* what may change in what it plays: values by attribute
  Tails,      \* what it may add behind the parameters read
  Junk        \* payloads that are no messages

ASSUME ControlExchangeAssumption ==
  /\ ChallengeSize \in Nat /\ 1 <= ChallengeSize /\ ChallengeSize <= 60000
  /\ Sessions \subseteq Byte
  /\ \A c \in Secrets :
       c \in Seq(Byte) /\ Len(c) = ChallengeSize /\ \E i \in DOMAIN c : c[i] # 0
  /\ \A s \in Scenarios :
       s.config \in Configurations /\ s.toDev \in Nat /\ s.toAcc \in Nat

(* What is configured fits in a message.  An application writes the        *)
(* parameters of its identification alone, behind the message's id, or as  *)
(* a message: which it is, is known by how it begins.                      *)
ASSUME ConfigurationAssumption ==
  \A s \in Scenarios :
    LET c == s.config
    IN  /\ \A d \in {Described(c), c.rawParams, c.bundle, c.certificate, c.response,
                     c.descriptor, Attributes(0, c.mediaAttributes),
                     Attributes(1, c.playbackAttributes)} : Len(d) <= 30000
        /\ c.raw \in {<<>>, c.rawParams, U16(Identification) \o c.rawParams,
                      Message(Identification, c.rawParams)}
        /\ ~ StartsWith(c.rawParams, <<64, 64>>)
        /\ ~ StartsWith(c.rawParams, U16(Identification))

VARIABLES
  config,  \* the part of Iap2Config that messages are built from
  left,    \* by direction: messages that may still be sent
  toDev,   \* the message on its way to the device, if any
  learned, \* by message: what the device has read in the last one of it
  toAcc,   \* the payload on its way to the accessory, if any
  told,    \* what the device has said, oldest first
  heard,   \* what the accessory has understood, oldest first
  playing, \* by attribute: what the device plays
  shown    \* by attribute: what the application shows

accessory == <<config, left, toDev, learned>>
device == <<toAcc, told, heard, playing, shown>>
vars == <<accessory, device>>

Init ==
  /\ \E s \in Scenarios :
       config = s.config /\ left = [toDev |-> s.toDev, toAcc |-> s.toAcc]
  /\ toDev = {} /\ learned = <<>>
  /\ toAcc = {} /\ told = <<>> /\ heard = <<>>
  /\ playing = Nothing /\ shown = Nothing

-----------------------------------------------------------------------------
(* The accessory sends, the device reads                                   *)

Sends(topic, bytes) ==
  /\ left.toDev > 0 /\ toDev = {}
  /\ left' = [left EXCEPT !.toDev = @ - 1]
  /\ toDev' = {[topic |-> topic, bytes |-> bytes]}
  /\ UNCHANGED <<config, learned, device>>

SendIdentification == Sends("identification", IdentificationMessage(config))
SendEaSessionRequest == Sends("ea", EaSessionRequest(config, 0))
SendStartNowPlayingUpdates == Sends("nowPlaying", StartNowPlaying(config))
SendStopNowPlayingUpdates == Sends("noPlaying", StopNowPlaying)
SendKeepalive == Sends("keepalive", RequestStatusUpdate)
SendAppLaunchRequest == Sends("launch", AppLaunchRequest(config.bundle))
SendCertificate == Sends("certificate", CertificateMessage(config.certificate))
SendResponse == Sends("response", ResponseMessage(config.response))
SendStart == Sends("hid", StartHid(config))
SendStop == Sends("noHid", StopHid(config))
SendReport == \E b \in {Pressed(config.command), <<0>>} : Sends("report", HidReport(config, b))

AccessorySends ==
  \/ SendIdentification \/ SendEaSessionRequest \/ SendStartNowPlayingUpdates
  \/ SendStopNowPlayingUpdates \/ SendKeepalive \/ SendAppLaunchRequest
  \/ SendCertificate \/ SendResponse \/ SendStart \/ SendStop \/ SendReport

(* By number: the payloads of the parameters. *)
ByNumber(d) ==
  [id \in {p.id : p \in Range(ParseParameters(d))} |-> Payloads(d, id)]

DevReads ==
  /\ \E m \in toDev :
       /\ learned' = Overlay(learned,
            [t \in {m.topic} |-> [id |-> MessageId(m.bytes),
                                  params |-> ByNumber(Contents(m.bytes))]])
  /\ toDev' = {}
  /\ UNCHANGED <<config, left, device>>

-----------------------------------------------------------------------------
(* The device speaks, the accessory reads                                  *)

Says(kind, arg, bytes) ==
  /\ left.toAcc > 0 /\ toAcc = {}
  /\ left' = [left EXCEPT !.toAcc = @ - 1]
  /\ toAcc' = {bytes}
  /\ told' = Append(told, [kind |-> kind, arg |-> arg])
  /\ UNCHANGED <<config, toDev, learned, heard, shown>>

Behind == Tails \X BOOLEAN

(* What it adds does not have the number of a parameter that is read.      *)
ASSUME TailsAssumption ==
  \A t \in Tails :
    /\ t \in Seq(Byte) /\ Len(t) <= 5000
    /\ \A p \in Range(ParseParameters(t)) : p.id \notin {0, 1}

(* A message with something behind its parameters, or behind itself. *)
Dressed(id, params, behind) ==
  Message(id, params \o behind[1]) \o IF behind[2] THEN <<64, 64, 0, 6>> ELSE <<>>

DevStartsSession ==
  /\ \E s \in Sessions, b \in Behind :
       Says("EaSessionStarted", s, Dressed(59904, Parameter(0, <<s>>), b))
  /\ UNCHANGED playing

DevStopsSession ==
  /\ \E s \in Sessions, b \in Behind :
       Says("EaSessionStopped", s, Dressed(59905, Parameter(0, <<s>>), b))
  /\ UNCHANGED playing

DevChallenges ==
  /\ \E c \in Secrets, b \in Behind :
       Says("Challenge", c, Dressed(43522, Parameter(0, c), b))
  /\ UNCHANGED playing

PositionIn(names, v) == CHOOSE i \in DOMAIN names : names[i] = v

(* The bytes of a value. *)
BytesOf(a, v) ==
  CASE a = "status" -> <<PositionIn(Status, v) - 1>>
    [] a = "shuffle" -> <<PositionIn(Shuffle, v) - 1>>
    [] a = "repeat" -> <<PositionIn(Repeat, v) - 1>>
    [] a \in {"duration", "elapsed"} -> v
    [] OTHER -> Text(v)

(* A group of an update. *)
GroupOf(id, group, change) ==
  LET members == {i \in DOMAIN group : group[i][1] \in DOMAIN change}
      order == SetToSeq(members)
      value(i) == Parameter(i, BytesOf(group[i][1], change[group[i][1]]))
  IN  IF members = {} THEN <<>>
      ELSE Parameter(id, FlattenSeq([k \in DOMAIN order |-> value(order[k])]))

(* A text is blank when it has nothing in it, only white space, or nothing *)
(* that can be read.                                                       *)
Blank(v) == \E b \in {Whitespace, {255}} : \A i \in DOMAIN v : v[i] \in b

HasValue(a, v) == a \in {"title", "artist", "album", "app"} => ~ Blank(v)

Heard(change) ==
  [a \in {x \in DOMAIN change : HasValue(x, change[x])} |-> change[a]]

DevPlays ==
  \E change \in Changes, b \in Behind :
    /\ playing' = Overlay(playing, change)
    /\ Says("NowPlayingUpdate", change,
            Dressed(20481, GroupOf(0, MediaGroup, change)
                             \o GroupOf(1, PlaybackGroup, change), b))

(* The values of an attribute.  A text can be read, or none of it can be.  *)
Values ==
  [text |-> Seq(1 .. 127) \cup Seq({255}), u32 |-> [1 .. 4 -> Byte],
   status |-> Range(Status), shuffle |-> Range(Shuffle), repeat |-> Range(Repeat)]

(* Changes have values of the attributes there are, and are not too long   *)
(* for a message.                                                          *)
ASSUME ChangesAssumption ==
  \A change \in Changes :
    /\ \A a \in DOMAIN change :
         \E group \in {MediaGroup, PlaybackGroup} :
           \E i \in DOMAIN group : group[i][1] = a /\ change[a] \in Values[group[i][2]]
    /\ Len(GroupOf(0, MediaGroup, change)) + Len(GroupOf(1, PlaybackGroup, change)) <= 60000

(* Too short, without the sync bytes, or with a length that is too small   *)
(* or too large.                                                           *)
NoMessage(j) ==
  \/ Len(j) < 6 \/ j[1] # 64 \/ j[2] # 64
  \/ U16At(j, 3) < 6 \/ U16At(j, 3) > Len(j)

(* With another id, or without the parameter that is read. *)
Unread(j) ==
  \/ MessageId(j) \notin {59904, 59905, 43522, 20481}
  \/ MessageId(j) \in {59904, 59905} /\ Len(j) < 11
  \/ MessageId(j) = 59904 /\ U16At(j, 9) # 0
  \/ /\ MessageId(j) = 20481
     /\ \A p \in Range(ParseParameters(Contents(j))) : p.id \notin {0, 1}

ASSUME JunkAssumption == \A j \in Junk : j \in Seq(Byte) /\ (NoMessage(j) \/ Unread(j))

(* What is not a message, or is one nobody reads. *)
DevSendsJunk ==
  /\ left.toAcc > 0 /\ toAcc = {}
  /\ left' = [left EXCEPT !.toAcc = @ - 1]
  /\ toAcc' \in {{j} : j \in Junk}
  /\ UNCHANGED <<config, toDev, learned, told, heard, playing, shown>>

DeviceSpeaks ==
  \/ DevStartsSession \/ DevStopsSession \/ DevChallenges \/ DevPlays
  \/ DevSendsJunk

(* What handle_control_message and handle_authentication make of a         *)
(* payload: nothing, or one thing.                                         *)
Understood(d) ==
  IF ~ IsControl(d) THEN {}
  ELSE LET kind(k, args) == {[kind |-> k, arg |-> a] : a \in args}
           update == ParseUpdate(Contents(d))
       IN  CASE MessageId(d) = 59904 -> kind("EaSessionStarted", StartedSession(d))
             [] MessageId(d) = 59905 -> kind("EaSessionStopped", StoppedSession(d))
             [] MessageId(d) = 43522 -> kind("Challenge", ChallengeIn(d))
             [] MessageId(d) = 20481 -> kind("NowPlayingUpdate",
                                             IF DOMAIN update = {} THEN {} ELSE {update})
             [] OTHER -> {}

AccReads ==
  /\ \E d \in toAcc :
       \/ Understood(d) = {} /\ UNCHANGED <<heard, shown>>
       \/ \E t \in Understood(d) :
            /\ heard' = Append(heard, t)
            /\ shown' = IF t.kind = "NowPlayingUpdate" THEN Overlay(shown, t.arg)
                        ELSE shown
  /\ toAcc' = {}
  /\ UNCHANGED <<accessory, told, playing>>

Next == AccessorySends \/ DevReads \/ DeviceSpeaks \/ AccReads

Spec == Init /\ [][Next]_vars

-----------------------------------------------------------------------------
(* Properties                                                              *)

(* Messages are bytes, and those of the accessory are well framed: one     *)
(* takes all of its packet, and is found there by either reader of the     *)
(* code, connection.rs and, in the middle of a send, link.rs.              *)
TypeOK ==
  /\ \A m \in toDev :
       /\ m.bytes \in Seq(0 .. 255)
       /\ IsControl(m.bytes) /\ U16At(m.bytes, 3) = Len(m.bytes)
       /\ LinkMessageId(m.bytes) = {MessageId(m.bytes)}
  /\ \A d \in toAcc : d \in Seq(0 .. 255)
  /\ Cardinality(toDev) <= 1 /\ Cardinality(toAcc) <= 1
  /\ DOMAIN shown \subseteq DOMAIN playing

At(params, id) == IF id \in DOMAIN params THEN params[id] ELSE <<>>

Texts(list) == [i \in DOMAIN list |-> Text(list[i])]

Option(option) == SetToSeq(option)

(* What the device knows of the accessory is what was configured: what the *)
(* application wrote itself, or every text, list, option and component, of *)
(* whatever length, the ones in nested parameters too.                     *)
IdentityLearned(p) ==
  IF config.raw # <<>> THEN p = ByNumber(config.rawParams)
  ELSE
    /\ \A i \in DOMAIN config.texts : At(p, i - 1) = <<Text(config.texts[i])>>
    /\ FlattenSeq(At(p, 6)) = Written(U16, config.messagesSent)
    /\ FlattenSeq(At(p, 7)) = Written(U16, config.messagesReceived)
    /\ At(p, 8) = <<<<config.powerSource>>>> /\ At(p, 9) = <<U16(config.maxCurrent)>>
    /\ At(ByNumber(At(p, 10)[1]), 1) = <<Text(config.protocolName)>>
    /\ At(p, 11) = Texts(Option(config.bundleSeed))
    /\ At(p, 12) = <<Text(config.language)>>
    /\ At(p, 13) = Texts(config.languages)
    /\ LET known == At(p, 17) \o At(p, 18)
       IN  /\ Len(known) = Len(config.components)
           /\ \A i \in DOMAIN known :
                LET c == config.components[i]
                    q == ByNumber(known[i])
                IN  /\ At(q, 0) = <<U16(c.id)>> /\ At(q, 1) = <<Text(c.name)>>
                    /\ At(q, 2) = <<FunctionBytes(c.function)>>
                    /\ At(q, 3) = Option(c.extra)

(* The attributes a group asks for. *)
Asked(p, id) ==
  LET group == FlattenSeq(At(p, id))
      ps == ParseParameters(group)
  IN  [i \in DOMAIN ps |-> ps[i].id]

(* The device learns what is configured, from every message; a report and  *)
(* the end of the HID remote are about the component that was started.  No *)
(* two messages are read alike: a request for an External Accessory        *)
(* session and one to launch an application have the same id.              *)
LearnsConfig ==
  \A t \in DOMAIN learned :
    /\ \A u \in DOMAIN learned : learned[t] = learned[u] => t = u
    /\ LET p == learned[t].params
       IN  CASE t = "identification" -> IdentityLearned(p)
             [] t = "ea" -> /\ DOMAIN p = {0, 1}
                            /\ p[0] = <<<<config.protocolId>>>> /\ p[1] = <<<<0>>>>
             [] t = "launch" -> /\ DOMAIN p = {0, 1}
                                /\ p[0] = <<Text(config.bundle)>> /\ p[1] = <<<<1>>>>
             [] t = "nowPlaying" -> /\ Asked(p, 0) = config.mediaAttributes
                                    /\ Asked(p, 1) = config.playbackAttributes
             [] t = "certificate" -> DOMAIN p = {0} /\ p[0] = <<config.certificate>>
             [] t = "response" -> DOMAIN p = {0} /\ p[0] = <<config.response>>
             [] t = "hid" -> /\ At(p, 1) = <<U16(config.vendor)>>
                             /\ At(p, 2) = <<U16(config.product)>>
                             /\ At(p, 4) = <<config.descriptor>>
             [] t \in {"report", "noHid"} ->
                  "hid" \in DOMAIN learned => At(p, 0) = At(learned["hid"].params, 0)
             [] t \in {"noPlaying", "keepalive"} -> DOMAIN p = {}

(* What there is to be understood of a thing. *)
Meaning(t) ==
  CASE t.kind # "NowPlayingUpdate" -> <<t>>
    [] t.kind = "NowPlayingUpdate" /\ DOMAIN Heard(t.arg) # {} ->
         <<[t EXCEPT !.arg = Heard(@)]>>
    [] OTHER -> <<>>

(* Of what the device has said, the accessory has understood each thing    *)
(* once, in order, as it was meant, whatever came with it or in between:   *)
(* except that a text without anything in it is as if it was not there.    *)
HeardIsTold ==
  LET meant == FlattenSeq([i \in DOMAIN told |-> Meaning(told[i])])
  IN  IsPrefix(heard, meant) /\ (toAcc = {} => heard = meant)

(* The application shows what the device plays, once it has been told; a   *)
(* text that became blank goes on being shown as it was.                   *)
ShownIsCurrent ==
  toAcc = {} =>
    \A a \in DOMAIN playing :
      HasValue(a, playing[a]) => a \in DOMAIN shown /\ shown[a] = playing[a]
=============================================================================
