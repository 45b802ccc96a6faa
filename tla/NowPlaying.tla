----------------------------- MODULE NowPlaying -----------------------------
(***************************************************************************)
(* NowPlayingParser of src/src/session/now_playing.rs.  An update is a     *)
(* function on the attributes it has a value for; the two groups of        *)
(* NowPlayingInfo have different attributes.  A number of 32 bits is its   *)
(* four bytes.  Texts are ASCII here, or contain the byte 255, which is    *)
(* never valid and which from_utf8_lossy replaces.                         *)
(***************************************************************************)
EXTENDS Parameters

Replacement == 65533

(* The white space there is in ASCII, which trim() takes away. *)
Whitespace == (9 .. 13) \cup {32}

Status == <<"stopped", "playing", "paused", "seekingForward", "seekingBackward">>
Shuffle == <<"off", "songs", "albums">>
Repeat == <<"off", "one", "all">>

(* Mutant: the names are counted from one. *)
NamedOneOff(names, value) == IF value \in DOMAIN names THEN names[value] ELSE names[1]

(* from_u8: an unknown value is the first one. *)
Named(names, value) == IF value + 1 \in DOMAIN names THEN names[value + 1] ELSE names[1]

(* The attributes of a group: name and type by parameter number. *)
MediaGroup ==
  [i \in {1, 4, 12, 26} |->
     CASE i = 1 -> <<"title", "text">> [] i = 4 -> <<"duration", "u32">>
       [] i = 12 -> <<"artist", "text">> [] OTHER -> <<"album", "text">>]

PlaybackGroup ==
  [i \in {0, 1, 5, 6, 7} |->
     CASE i = 0 -> <<"status", "status">> [] i = 1 -> <<"elapsed", "u32">>
       [] i = 5 -> <<"shuffle", "shuffle">> [] i = 6 -> <<"repeat", "repeat">>
       [] OTHER -> <<"app", "text">>]

(* parse_utf8: nothing if it is white space, or has only replaced characters. *)
TextIn(payload) ==
  LET nul == SelectInSeq(payload, LAMBDA b : b = 0)
      trimmed == IF nul = 0 THEN payload ELSE SubSeq(payload, 1, nul - 1)
      text == [i \in DOMAIN trimmed |-> IF trimmed[i] < 128 THEN trimmed[i] ELSE Replacement]
  IN  IF \E blank \in {Whitespace, {Replacement}} : \A i \in DOMAIN text : text[i] \in blank
      THEN {} ELSE {text}

FirstIn(payload, names) ==
  IF payload = <<>> THEN {} ELSE {Named(names, payload[1])}

(* The value of a payload, if it has one. *)
ValueIn(type, payload) ==
  CASE type = "text" -> TextIn(payload)
    [] type = "u32" -> IF Len(payload) < 4 THEN {} ELSE {SubSeq(payload, 1, 4)}
    [] type = "status" -> FirstIn(payload, Status)
    [] type = "shuffle" -> FirstIn(payload, Shuffle)
    [] type = "repeat" -> FirstIn(payload, Repeat)

(* The values of over, and those of under it has none for. *)
Overlay(under, over) ==
  [a \in DOMAIN under \cup DOMAIN over |-> IF a \in DOMAIN over THEN over[a] ELSE under[a]]

Nothing == <<>>

(* parse_media_item_group and parse_playback_group: of an attribute that   *)
(* comes twice the last value counts.                                      *)
ParseGroup(group, d) ==
  LET ps == ParseParameters(d)
      name(i) == group[ps[i].id][1]
      value(i) == ValueIn(group[ps[i].id][2], ps[i].payload)
      valued == {i \in DOMAIN ps : ps[i].id \in DOMAIN group /\ value(i) # {}}
      last(a) == Max({i \in valued : name(i) = a})
  IN  [a \in {name(i) : i \in valued} |-> CHOOSE v \in value(last(a)) : TRUE]

(* The last group of a kind that has a value in it. *)
LastGroup(group, payloads) ==
  LET valued == {i \in DOMAIN payloads : DOMAIN ParseGroup(group, payloads[i]) # {}}
  IN  IF valued = {} THEN Nothing ELSE ParseGroup(group, payloads[Max(valued)])

(* parse: the update, which is none if nothing has a value. *)
ParseUpdate(d) ==
  Overlay(LastGroup(MediaGroup, Payloads(d, 0)), LastGroup(PlaybackGroup, Payloads(d, 1)))
=============================================================================
