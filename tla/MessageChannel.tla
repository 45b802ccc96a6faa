--------------------------- MODULE MessageChannel ---------------------------
(***************************************************************************)
(* What the link promises, seen from above: the messages one end sends,    *)
(* numbered in the order of sending, are received by the other end in that *)
(* order, each once, none before it was sent.                              *)
(***************************************************************************)
EXTENDS Naturals, Sequences

VARIABLES
  sent,      \* how many messages were sent
  received   \* the numbers of those received, oldest first

Init == sent = 0 /\ received = <<>>

Send == sent' = sent + 1 /\ UNCHANGED received

Receive ==
  /\ Len(received) < sent
  /\ received' = Append(received, Len(received) + 1)
  /\ UNCHANGED sent

Next == Send \/ Receive

Spec == Init /\ [][Next]_<<sent, received>>
=============================================================================
