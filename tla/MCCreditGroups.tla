--------------------------- MODULE MCCreditGroups ----------------------------
(* A small instance of CreditGroups: two groups, a client and an owner, two handlers at a
   time. *)
EXTENDS CreditGroups, TLC

CONSTANTS gold, silver, ann, bob, r1, r2

TwoGroups   == {gold, silver}
TwoUsers    == {ann, bob}
TwoRequests == {r1, r2}
OneTwo      == {1, 2}

Symmetry == Permutations(Groups) \cup Permutations(Users) \cup Permutations(Requests)
=============================================================================
