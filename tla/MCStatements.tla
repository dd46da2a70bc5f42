---------------------------- MODULE MCStatements ----------------------------
(* Small instances of Statements: ann is served one request at a time and is in bob's
   credit group; bob's transactions overlap. *)
EXTENDS Statements, TLC

CONSTANTS ann, bob, east, west, r1, r2, r3, v1

Both     == {ann, bob}
JustBob  == {bob}
TwoOrgs  == {east, west}
Reqs     == {r1, r2, r3}
OneReader == {v1}
InOrgs   == (r1 :> east) @@ (r2 :> west) @@ (r3 :> east)
SixIds   == 1 .. 6

Simple(u, type, amount) ==
  [user |-> u, type |-> type, amount |-> amount, owner |-> None, markup |-> 0]

TheJobs ==
  { Simple(ann, "extra_fee", -2), Simple(bob, "adjustment", -2),
    [user |-> ann, type |-> "lock", amount |-> -3, owner |-> bob, markup |-> 1] }

OnTheBooks ==
  { [id |-> 2, at |-> 0, user |-> ann, org |-> east, type |-> "top_up", amount |-> 4, new |-> 4],
    [id |-> 4, at |-> 0, user |-> bob, org |-> east, type |-> "top_up", amount |-> 1, new |-> 1] }

TheScopes == { [Everything EXCEPT !.org = east],
               [Everything EXCEPT !.user = bob, !.types = {"top_up", "commission"}] }
=============================================================================
