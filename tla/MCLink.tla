------------------------------- MODULE MCLink -------------------------------
(***************************************************************************)
(* Constant values for model checking LinkSystem.                          *)
(***************************************************************************)
EXTENDS LinkOrder

(* Messages in Ack packets, as iOS devices send them; all numberings. *)
AckConvs == [kind : {"Ack"}, seqLead : {0, 1}, ackLead : {0, 1}]

(* Messages in Data packets; bare packets repeat the last number. *)
DataConvs == [kind : {"Data"}, seqLead : {0}, ackLead : {0, 1}]

(* Single conventions, for the larger runs. *)
AckLast == [kind : {"Ack"}, seqLead : {0}, ackLead : {0}]
=============================================================================
