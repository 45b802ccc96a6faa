------------------------------- MODULE SeqNum -------------------------------
(***************************************************************************)
(* The sequence numbers of the iAP2 link: the u8 arithmetic of             *)
(* src/src/link.rs.  M is the number of sequence numbers, 256 in the code; *)
(* TLC runs take a small M, so that a handful of packets wraps around.     *)
(***************************************************************************)
EXTENDS Integers

CONSTANT M

ASSUME MAssumption == M \in Nat /\ M >= 4 /\ M % 2 = 0

Seqs == 0 .. M - 1

(* Mutant: seq + 1 without wrapping. *)
SuccPlain(s) == s + 1

(* seq.wrapping_add(1) *)
Succ(s) == (s + 1) % M

(* a.wrapping_sub(b) *)
Diff(a, b) == (a - b) % M

(* is_seq_after: a lies in the half window that follows b. *)
IsAfter(a, b) == Diff(a, b) > 0 /\ Diff(a, b) < M \div 2
=============================================================================
