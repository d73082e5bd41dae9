-------------------------------- MODULE Replica --------------------------------
(***************************************************************************)
(* What the published database promises those who query it: a replica that *)
(* lags behind its source, but holds nothing that was never written, never *)
(* takes back a row, and has all that was written some time before the     *)
(* point it claims to be complete through.                                 *)
(***************************************************************************)
EXTENDS Naturals

CONSTANTS
    Names,  \* the rows
    Delay   \* the time a write may take to become visible

VARIABLES
    now,
    updates,    \* every update so far: [row, stamp]
    rows,       \* the stamp of the update each row is served at, 0 for none
    through     \* the point the replica claims to be complete through

vars == <<now, updates, rows, through>>

Init == now \in Nat /\ updates = {} /\ rows = [n \in Names |-> 0] /\ through = 0

Pass == now' = now + 1 /\ UNCHANGED <<updates, rows, through>>

Update(n) ==
    /\ updates' = updates \cup {[row |-> n, stamp |-> now]}
    /\ UNCHANGED <<now, rows, through>>

\* The stamps a row can be served at from here.
Ahead(n) == {rows[n]} \cup {u.stamp : u \in {v \in updates : v.row = n /\ v.stamp >= rows[n]}}

\* The claim may fall back: a segment that lands late has an older name than the base.
Serve ==
    /\ rows' \in [Names -> Nat] /\ \A n \in Names : rows'[n] \in Ahead(n)
    /\ through' \in 0 .. now
    /\ \A u \in updates : u.stamp + Delay < through' => rows'[u.row] >= u.stamp
    /\ UNCHANGED <<now, updates>>

Next == Pass \/ (\E n \in Names : Update(n)) \/ Serve

Spec == Init /\ [][Next]_vars
=============================================================================
