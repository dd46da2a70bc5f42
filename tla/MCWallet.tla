------------------------------ MODULE MCWallet ------------------------------
(* Small instances of Wallet: a reseller owns a client's credit group, and (where
   OwnersOf says so) the client owns the reseller's, or a client their own. *)
EXTENDS Wallet, TLC

CONSTANTS ann, bob, order, parcel, r1, r2, r3, r4

BothUsers   == {ann, bob}
NoUsers     == {}
JustBob     == {bob}
OneOrder    == {order}
NoTargets   == {}
TwoTargets  == {order, parcel}
ThreeReqs   == {r1, r2, r3}
FourReqs    == {r1, r2, r3, r4}

AnnsOrder   == (order :> ann)
TheirTargets == (order :> ann) @@ (parcel :> bob)
NoClients   == <<>>

\* Who may own the group a client is in.
BobOwns     == (ann :> {bob}) @@ (bob :> {})
EachOther   == (ann :> {ann, bob}) @@ (bob :> {ann})

Free        == {0}
Funded      == (ann :> 3) @@ (bob :> 1)

ZeroTwo     == {0, 2}
OneTwo      == {1, 2}
One         == {1}
Minus       == {-2, 1}
=============================================================================
