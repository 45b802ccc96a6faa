-------------------------- MODULE MCControlExchange --------------------------
(***************************************************************************)
(* Constant values for model checking ControlExchange.                     *)
(***************************************************************************)
EXTENDS ControlExchange

A == <<65>>
Long == [i \in 1 .. 260 |-> 66]

Component(id, name, function, extra) ==
  [id |-> id, name |-> name, function |-> function, extra |-> extra]

NoFunction == [kind |-> "None"]
Remote == [kind |-> "MediaPlaybackRemote"]
Custom(v) == [kind |-> "Custom", value |-> v]

Default ==
  [raw |-> <<>>, rawParams |-> <<>>,
   texts |-> <<A, <<66, 67>>, <<>>, A, A, A>>,
   messagesSent |-> <<59906, 59907>>, messagesReceived |-> <<59904>>,
   powerSource |-> 0, maxCurrent |-> 300, protocolName |-> <<65, 66>>,
   protocolId |-> 0, bundleSeed |-> {}, language |-> A, languages |-> <<A>>,
   components |-> <<>>, mediaAttributes |-> <<1, 12, 26>>,
   playbackAttributes |-> <<0, 5, 6, 7>>, bundle |-> <<66>>,
   certificate |-> <<48, 0, 255>>, response |-> <<1>>,
   hidComponent |-> 5353, vendor |-> 6353, product |-> 20006,
   descriptor |-> <<5, 12>>, command |-> "PlayPause"]

(* Everything there is a choice of in the identification. *)
Identities ==
  {[Default EXCEPT !.messagesSent = ms, !.bundleSeed = b, !.protocolName = n,
                   !.languages = ls, !.components = cs] :
     ms \in {<<>>, <<1>>}, b \in {{}, {A}}, n \in {<<>>, Long},
     ls \in {<<>>, <<A, <<>>>>},
     cs \in {<<>>, <<Component(1, A, NoFunction, {})>>,
             <<Component(300, <<>>, Remote, {<<7, 7>>}),
               Component(2, A, Custom(9), {<<>>}),
               Component(3, Long, NoFunction, {Long})>>}}

(* What an application may have written itself. *)
RawParams == Parameter(0, Text(A)) \o Parameter(10, Parameter(1, Text(A)))

Raws ==
  {[Default EXCEPT !.raw = r, !.rawParams = RawParams] :
     r \in {RawParams, U16(7425) \o RawParams, Message(7425, RawParams)}}

Others ==
  {Default,
   [Default EXCEPT !.mediaAttributes = <<>>, !.bundle = <<>>, !.certificate = <<>>,
                   !.response = Long, !.descriptor = <<>>, !.protocolId = 255,
                   !.command = "VolumeDown"],
   [Default EXCEPT !.playbackAttributes = <<>>, !.bundle = <<>>, !.certificate = Long,
                   !.descriptor = Long, !.hidComponent = 65535]}

Scenario(c, out, in) == [config |-> c, toDev |-> out, toAcc |-> in]

AllScenarios ==
  {Scenario(c, 1, 0) : c \in Identities} \cup {Scenario(c, 2, 0) : c \in Raws}
    \cup {Scenario(c, 3, 0) : c \in Others}
    \cup {Scenario(Default, 1, 1), Scenario(Default, 0, 3)}

DeviceChanges ==
  {[title |-> A, artist |-> <<66>>, album |-> <<67, 32>>],
   [title |-> <<68>>, duration |-> <<0, 3, 13, 64>>, status |-> "playing"],
   [artist |-> <<>>, status |-> "paused", shuffle |-> "albums", repeat |-> "one"],
   [elapsed |-> <<255, 255, 255, 255>>, repeat |-> "off", app |-> <<32>>],
   [album |-> <<9, 32, 10>>, app |-> <<13, 65>>],
   [app |-> <<65, 66>>],
   [title |-> <<255>>]}

DeviceTails == {<<>>, Parameter(200, <<7>>), <<0, 9, 0, 0, 1>>, <<0, 3>>}

DeviceChallenges == {<<1, 2>>, <<0, 9>>}

(* Too short, without its sync bytes, with a length too small or too       *)
(* large, or with an id nobody knows or reads.                             *)
NoMessages ==
  {<<64, 64, 0, 6, 234>>, <<64, 65, 0, 11, 234, 0, 0, 5, 0, 0, 3>>,
   <<64, 64, 0, 4, 234, 1, 0, 5, 0, 0, 3>>, <<64, 64, 0, 12, 234, 0, 0, 5, 0, 0, 3>>,
   Message(16728, <<>>), Message(59904, Parameter(1, <<3>>)),
   Message(20481, Parameter(2, A)), Message(59905, <<>>)}
=============================================================================
