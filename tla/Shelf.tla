-------------------------------- MODULE Shelf --------------------------------
(***************************************************************************)
(* What shipments promise about stock, with no requests, row locks or      *)
(* saved entities: goods on a shelf.  A shipment takes all its goods in    *)
(* one step, out of what is left, and brings all of them back or none.     *)
(***************************************************************************)
EXTENDS Integers

CONSTANTS Goods, Parcels

VARIABLES
  qty,      \* [Goods -> Nat], received
  shipped,  \* [Goods -> Nat], taken from the shelf
  out       \* [Parcels -> [Goods -> Nat]], what each parcel has taken

shelf == <<qty, shipped, out>>

Nothing == [g \in Goods |-> 0]

Stocked ==
  /\ qty \in [Goods -> Nat]
  /\ shipped = Nothing
  /\ out = [p \in Parcels |-> Nothing]

Others(p) == \A q \in Parcels \ {p} : out'[q] = out[q]

Dispatch(p) ==
  /\ out[p] = Nothing
  /\ Others(p)
  /\ shipped' = [g \in Goods |-> shipped[g] + out'[p][g]]
  /\ \A g \in Goods : shipped'[g] <= qty[g]

Recall(p) ==
  /\ out'[p] = Nothing
  /\ Others(p)
  /\ shipped' = [g \in Goods |-> shipped[g] - out[p][g]]

Spec == Stocked /\ [][(\E p \in Parcels : Dispatch(p) \/ Recall(p)) /\ qty' = qty]_shelf
=============================================================================
