----------------------------- MODULE Parameters -----------------------------
(***************************************************************************)
(* The parameters control messages are made of: a length that counts       *)
(* itself and the number, a number, a payload, which may hold parameters   *)
(* again.  The accessory writes them one by one (src/src/session/          *)
(* control.rs, src/src/session/hid.rs, src/src/auth.rs) and reads them     *)
(* with parse_parameters of src/src/session/now_playing.rs.  A length is   *)
(* cut to 16 bits, without a check; the instances have none that long.     *)
(***************************************************************************)
EXTENDS Integers, Sequences, SequencesExt

Byte == 0 .. 255

Word == {n \in Nat : n <= 65535}

U16(n) == <<(n \div 256) % 256, n % 256>>

U16At(d, i) == 256 * d[i] + d[i + 1]

(* A parameter whose length the code computes on its own. *)
Sized(length, id, payload) == U16(length) \o U16(id) \o payload

Parameter(id, payload) == Sized(Len(payload) + 4, id, payload)

(* A text ends with a zero. *)
Text(s) == Append(s, 0)

(* The items of a list, written one behind the other. *)
Written(Bytes(_), list) == FlattenSeq([i \in DOMAIN list |-> Bytes(list[i])])

Fits(length, left) == length \in 4 .. left

(* parse_parameters: it stops at the first that does not fit. *)
ParseParameters(d) ==
  LET from[i \in 1 .. Len(d) + 1] ==
        IF i + 3 > Len(d) THEN <<>>
        ELSE LET length == U16At(d, i)
             IN  IF ~ Fits(length, Len(d) - i + 1) THEN <<>>
                 ELSE <<[id |-> U16At(d, i + 2),
                         payload |-> SubSeq(d, i + 4, i + length - 1)]>>
                        \o from[i + length]
  IN  from[1]

(* The payloads of the parameters with a number, in order. *)
Payloads(d, id) ==
  LET ps == ParseParameters(d)
  IN  FlattenSeq([i \in DOMAIN ps |->
                    IF ps[i].id = id THEN <<ps[i].payload>> ELSE <<>>])
=============================================================================
