----------------------------- MODULE MCEVMSync -----------------------------
(* EVMSync for TLC: the bounds are in the configurations. *)
EXTENDS EVMSync
=============================================================================
