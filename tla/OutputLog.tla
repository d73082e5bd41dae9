-------------------------------- MODULE OutputLog --------------------------------
(***************************************************************************)
(* What the published output of an exec promises its readers: a log that   *)
(* always is a prefix of what the command has written, and that only grows *)
(* at its end. Bytes are named by their positions.                         *)
(***************************************************************************)
EXTENDS Integers, Sequences

VARIABLES
    written,    \* how many bytes the command has written
    published   \* the bytes readers see

Prefix(n) == [i \in 1 .. n |-> i]

Init == written = 0 /\ published = <<>>

Write ==
    /\ written' = written + 1
    /\ UNCHANGED published

Publish ==
    /\ \E n \in Len(published) .. written : published' = Prefix(n)
    /\ UNCHANGED written

Next == Write \/ Publish

Spec == Init /\ [][Next]_<<written, published>>

=============================================================================
