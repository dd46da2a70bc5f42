------------------------------ MODULE MCOrders ------------------------------
(* Small instances of Orders: one order whose rows are worked on by one request at a
   time, and one on which requests overlap freely, of two lines each. *)
EXTENDS Orders, TLC

CONSTANTS quiet, busy, a, b, c, d, r1, r2, r3, t1, t2

BothOrders  == {quiet, busy}
JustBusy    == {busy}
TwoEach     == (quiet :> {a, b}) @@ (busy :> {c, d})
BusyTwo     == (busy :> {c, d})
TwoReqs     == {r1, r2}
ThreeReqs   == {r1, r2, r3}
BothRefs    == {t1, t2}
OneTwo      == {1, 2}
One         == {1}

Symmetry == Permutations(Requests) \cup Permutations({a, b}) \cup Permutations({c, d}) \cup Permutations(Trackings)
=============================================================================
