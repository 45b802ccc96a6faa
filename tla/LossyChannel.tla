---------------------------- MODULE LossyChannel ----------------------------
(***************************************************************************)
(* A stream of packets seen from above: they are received as they were     *)
(* sent and in the order they were sent in, each once.  Packets may be     *)
(* missing, but only while the stream is lossy.                            *)
(***************************************************************************)
EXTENDS Naturals, Sequences

VARIABLES
  coming,    \* the packets that can still be received, in order
  got,       \* those received, oldest first
  lossy      \* packets may be lost

Init == got = <<>>

(* The k-th is received; those before it are lost. *)
Receive ==
  \E k \in DOMAIN coming :
    /\ k = 1 \/ lossy'
    /\ got' = Append(got, coming[k])
    /\ coming' = SubSeq(coming, k + 1, Len(coming))

Lose ==
  /\ lossy'
  /\ \E k \in DOMAIN coming : coming' = SubSeq(coming, k + 1, Len(coming))
  /\ UNCHANGED got

Next == Receive \/ Lose

Spec == Init /\ [][Next]_<<coming, got>>
=============================================================================
