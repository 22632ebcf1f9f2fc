------------------------------ MODULE MCAggSender ------------------------------
(***************************************************************************)
(* Instances of AggSender for TLC.                                         *)
(***************************************************************************)
EXTENDS AggSender
=============================================================================
