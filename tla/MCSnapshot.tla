------------------------------ MODULE MCSnapshot ------------------------------
(* Snapshot for TLC. *)
EXTENDS Snapshot
=============================================================================
