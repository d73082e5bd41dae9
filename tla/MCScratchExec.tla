---------------------------- MODULE MCScratchExec ----------------------------
(* ScratchExec for TLC: execs and pollers are interchangeable. *)
EXTENDS ScratchExec, TLC

Interchangeable == Permutations(Execs) \cup Permutations(Pollers)

=============================================================================
