--------------------------- MODULE MCNotifications ---------------------------
(* A small instance of Notifications: a reviewer locks a client's order, which writes
   two activities (the lock, and the commission of the group's owner), while another
   client places an order. *)
EXTENDS Notifications, TLC

CONSTANTS lock, paid, placed, w1, w2, s1, ann, bob

AllActivities == {lock, paid, placed}
BothWriters   == {w1, w2}
TheirRows     == (w1 :> {lock, paid}) @@ (w2 :> {placed})
TheirTimes    == (lock :> 1) @@ (paid :> 2) @@ (placed :> 3)
Actors        == (lock :> bob) @@ (paid :> bob) @@ (placed :> ann)
Subjects      == (lock :> ann) @@ (paid :> bob) @@ (placed :> None)
ForStaff      == {lock, placed}
AllUsers      == {ann, bob}
OneSweep      == {s1}
=============================================================================
