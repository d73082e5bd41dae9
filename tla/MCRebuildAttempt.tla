--------------------------- MODULE MCRebuildAttempt ---------------------------
(* RebuildAttempt for TLC: an extended run asked for twice, and one in process that *)
(* is repeated or is one of its own.                                                *)
EXTENDS RebuildAttempt, TLC

CONSTANTS x, again, fast, retry, r1, r2

TwoRuns == (x :> r1) @@ (again :> r1) @@ (fast :> r2) @@ (retry :> r2)
OneEach == (x :> r1) @@ (fast :> r2)

=============================================================================
