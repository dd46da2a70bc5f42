------------------------------ MODULE MCAccess ------------------------------
(* A small instance of Access: ann's requests are served one at a time, bob's overlap; new
   and other are accounts still to be created, west and its group are still to be. *)
EXTENDS Access, TLC

CONSTANTS ann, bob, new, other, east, west, clerks, chiefs, read, r1, r2, r3, r4

FourUsers   == {ann, bob, new, other}
JustBob     == {bob}
Nobody      == {}
TwoOrgs     == {east, west}
TwoGroups   == {clerks, chiefs}
WhereGroups == (clerks :> east) @@ (chiefs :> west)
OnePermission == {read}
OneRoute    == {{read}}
Reqs4       == {r1, r2, r3, r4}
OneToThree  == 1 .. 3
OneToFour   == 1 .. 4
Perms       == Permutations(Reqs4) \cup Permutations({new, other})

AtStart ==
  [ life    |-> (east :> "live") @@ (west :> "unborn") @@ (clerks :> "live") @@ (chiefs :> "unborn"),
    account |-> [u \in Users |-> CASE u = ann -> [email |-> 1, code |-> 1]
                                   [] u = bob -> [email |-> 2, code |-> 2]
                                   [] OTHER -> None],
    member  |-> {<<ann, east>>, <<bob, east>>},
    role    |-> {<<ann, clerks>>},
    grant   |-> {<<clerks, read>>} ]
=============================================================================
