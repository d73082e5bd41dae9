----------------------------- MODULE MCScratchVM -----------------------------
(* ScratchVM for TLC: two zones, the first one preferred. *)
EXTENDS ScratchVM, TLC

CONSTANTS near, far

BothZones == {near, far}
NearFirst == (near :> 1) @@ (far :> 2)
Interchangeable == Permutations(Scratches)

=============================================================================
