----------------------------- MODULE Lifecycle ------------------------------
(***************************************************************************)
(* The life of an order as its client and its reviewer see it: every       *)
(* operation happens at once, on the rows as they are at that moment.      *)
(* Orders implements it for the orders of which each row is worked on by   *)
(* one request at a time.                                                  *)
(*                                                                         *)
(* Header and parts may be in the hands of different requests, so what is  *)
(* done to a part is judged by the part; of the header only what cannot    *)
(* be taken back is left to rely on.                                       *)
(***************************************************************************)

CONSTANTS Orders, LinesOf, Trackings, Qtys, None, Gone

Parts == UNION {LinesOf[o] : o \in Orders}

VARIABLES
  header,  \* [Orders -> header \cup {None}]
  part     \* [Parts -> part \cup {None, Gone}]

vars == <<header, part>>

Announced == {[status |-> "IN_TRANSIT", locked |-> FALSE, tracking |-> t] : t \in Trackings}
Pending   == {[status |-> "PENDING", qty |-> q] : q \in Qtys}

Here(p) == part[p] \notin {None, Gone}

HeaderBecomes(o, h) == header' = [header EXCEPT ![o] = h] /\ UNCHANGED part
PartBecomes(p, d)   == part' = [part EXCEPT ![p] = d] /\ UNCHANGED header

Init ==
  /\ header \in [Orders -> Announced \cup {None}]
  /\ part \in [Parts -> Pending \cup {None}]
  /\ \A o \in Orders : header[o] # None <=> \E p \in LinesOf[o] : part[p] # None

-----------------------------------------------------------------------------
(* The header *)

Announce(o) ==
  \E h \in Announced, ps \in [LinesOf[o] -> Pending \cup {None}] :
    /\ header[o] = None
    /\ \E p \in LinesOf[o] : ps[p] # None
    /\ header' = [header EXCEPT ![o] = h]
    /\ part' = [p \in Parts |-> IF p \in LinesOf[o] THEN ps[p] ELSE part[p]]

\* The client's until it is locked, a reviewer's from then on; nobody's once cancelled.
Open(h) == h.status # "CANCELLED" /\ (h.locked \/ h.status = "IN_TRANSIT")

Retrack(o) ==
  \E t \in Trackings :
    /\ header[o] # None /\ Open(header[o])
    /\ HeaderBecomes(o, [header[o] EXCEPT !.tracking = t])

Lock(o) ==
  /\ header[o] # None /\ ~header[o].locked /\ header[o].status = "IN_TRANSIT"
  /\ HeaderBecomes(o, [header[o] EXCEPT !.locked = TRUE])

Cancel(o) ==
  /\ header[o] # None /\ Open(header[o])
  /\ HeaderBecomes(o, [header[o] EXCEPT !.status = "CANCELLED"])

\* With the header all that was still expected has arrived.
Arrive(o) ==
  /\ header[o] # None /\ header[o].locked /\ header[o].status = "IN_TRANSIT"
  /\ header' = [header EXCEPT ![o] = [@ EXCEPT !.status = "IN_WAREHOUSE"]]
  /\ part' = [p \in Parts |->
                IF p \in LinesOf[o] /\ Here(p) /\ part[p].status = "PENDING"
                THEN [part[p] EXCEPT !.status = "RECEIVED"] ELSE part[p]]

-----------------------------------------------------------------------------
(* The parts of an order that has been announced *)

Add(o, p) ==
  /\ header[o] # None /\ part[p] = None
  /\ \E d \in Pending : PartBecomes(p, d)

Amend(o, p) ==
  /\ header[o] # None /\ Here(p) /\ part[p].status # "CANCELLED"
  /\ \E q \in Qtys : PartBecomes(p, [part[p] EXCEPT !.qty = q])

\* The receipt of a part may be corrected, never taken back; only what is billed is handled.
Outcomes(status) ==
  CASE status = "PENDING"     -> {"RECEIVED", "NOT_ARRIVED", "CANCELLED"}
    [] status = "RECEIVED"    -> {"NOT_ARRIVED", "CANCELLED"}
    [] status = "NOT_ARRIVED" -> {"RECEIVED", "CANCELLED"}
    [] status = "CANCELLED"   -> {}

Settle(o, p) ==
  /\ header[o] # None /\ header[o].locked /\ Here(p)
  /\ \E s \in Outcomes(part[p].status) : PartBecomes(p, [part[p] EXCEPT !.status = s])

Remove(o, p) ==
  /\ header[o] # None /\ Here(p)
  /\ \E k \in LinesOf[o] : k # p /\ Here(k)
  /\ PartBecomes(p, Gone)

Next ==
  \E o \in Orders :
    \/ Announce(o) \/ Retrack(o) \/ Lock(o) \/ Cancel(o) \/ Arrive(o)
    \/ \E p \in LinesOf[o] : Add(o, p) \/ Amend(o, p) \/ Settle(o, p) \/ Remove(o, p)

Spec == Init /\ [][Next]_vars
=============================================================================
