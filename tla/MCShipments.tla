---------------------------- MODULE MCShipments ----------------------------
(* Small instances of Shipments: two shipments over two received lines. *)
EXTENDS Shipments, TLC

CONSTANTS a, b, box, crate, r1, r2, r3

JustA     == {a}
JustB     == {b}
BothLines == {a, b}
JustS     == {box}
BothShips == {box, crate}
NoOne     == {}
TwoReqs   == {r1, r2}
ThreeReqs == {r1, r2, r3}
One       == {1}
OneTwo    == {1, 2}

Symmetry == Permutations(Requests) \cup Permutations(Shipments)
=============================================================================
