----------------------------- MODULE MCOutputSync -----------------------------
(* OutputSync for TLC: the callers of a kind are interchangeable. *)
EXTENDS OutputSync, TLC

CallerSymmetry ==
    Permutations(Getters) \cup Permutations(Waiters) \cup Permutations(Reapers)

=============================================================================
