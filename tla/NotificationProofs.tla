------------------------- MODULE NotificationProofs --------------------------
(***************************************************************************)
(* Theorems about Notifications, for every set of activities, writers,     *)
(* sweeps and users, any batch and any number of faults: whoever holds a   *)
(* claim delivers alone, the inboxes implement Mailbox, no claim is left   *)
(* behind undelivered, and the workers never all wait and never go round   *)
(* without having less to do.                                              *)
(***************************************************************************)
EXTENDS Notifications, FiniteSetTheorems, WellFoundedInduction, TLAPS

-----------------------------------------------------------------------------
(* Type correctness *)

\* The rows of a worker that is fanning out, or about to, have been committed, and so
\* have those of a transaction whose event is still to be emitted.
WrittenRows ==
  /\ \A k \in Workers : \A a \in work[k].rows : Written(a)
  /\ \A w \in Writers : writer[w] = "committed" => \A a \in RowsOf[w] : Written(a)

\* Nobody has an activity in their inbox that has not been told.
ToldOrEmpty == \A a \in Activities : a \notin notified => inbox[a] = {}

DeliveryInv == TypeOK /\ WrittenRows /\ ToldOrEmpty /\ ClaimsStand

LEMMA RestingTyping == Resting \in Work /\ Resting.rows = {} /\ Resting.current = None
  BY DEF Resting, Work

LEMMA FanningTyping ==
  ASSUME NEW rows \in SUBSET Activities
  PROVE  /\ Fanning(rows) \in Work
         /\ Fanning(rows).rows = rows /\ Fanning(rows).current = None
  BY DEF Fanning, Work

LEMMA InitDelivery == Init => DeliveryInv
  <1> SUFFICES ASSUME Init PROVE DeliveryInv
    OBVIOUS
  <1>1. TypeOK
    BY RestingTyping DEF Init, TypeOK
  <1>2. WrittenRows
    BY RestingTyping DEF Init, WrittenRows
  <1>3. ToldOrEmpty
    BY DEF Init, ToldOrEmpty
  <1>4. ClaimsStand
    BY RestingTyping DEF Init, ClaimsStand, ClaimStands
  <1>5. QED
    BY <1>1, <1>2, <1>3, <1>4 DEF DeliveryInv

\* What a worker's step has to show: its own record is typed, holds written rows only,
\* and its claim, if it has one, is its own.
LEMMA WorkerStep ==
  ASSUME DeliveryInv, NEW k \in Workers, NEW job \in Work,
         \A a \in job.rows : Written(a), job.current = None,
         work' = [work EXCEPT ![k] = job],
         UNCHANGED <<writer, log, notified, inbox, read, staff>>,
         claim' \in [Activities -> Workers \cup {None}],
         faults' \in Nat,
         \A a \in Activities : claim[a] # k => claim'[a] = claim[a]
  PROVE  DeliveryInv'
  <1> USE DEF DeliveryInv
  <1>1. /\ work' \in [Workers -> Work] /\ work'[k] = job
        /\ \A j \in Workers \ {k} : work'[j] = work[j]
    BY DEF TypeOK
  <1>2. TypeOK'
    BY <1>1 DEF TypeOK
  <1>3. WrittenRows'
    BY <1>1 DEF WrittenRows, Written
  <1>4. ToldOrEmpty'
    BY DEF ToldOrEmpty
  <1>5. ASSUME NEW j \in Workers
        PROVE  ClaimStands(j)'
    <2>1. CASE j = k
      BY <1>1, <2>1 DEF ClaimStands
    <2>2. CASE j # k
      <3>1. ClaimStands(j) /\ work'[j] = work[j] /\ work[j] \in Work
        BY <1>1, <2>2 DEF ClaimsStand, TypeOK
      <3>2. QED
        BY <2>2, <3>1 DEF ClaimStands, Pending, Written, Work
    <2>3. QED
      BY <2>1, <2>2
  <1>6. ClaimsStand'
    BY <1>5 DEF ClaimsStand
  <1>7. QED
    BY <1>2, <1>3, <1>4, <1>6

-----------------------------------------------------------------------------
(* Writers, time, readers and staff *)

\* The log only grows, and nothing that is claimed, told or delivered changes.
LEMMA LogStep ==
  ASSUME DeliveryInv, log' \in [Activities -> {"none", "young", "due"}],
         \A a \in Activities : Written(a) => Written(a)',
         UNCHANGED <<notified, inbox, claim>>
  PROVE  /\ ToldOrEmpty'
         /\ \A k \in Workers : work'[k].current = work[k].current => ClaimStands(k)'
  <1>1. ToldOrEmpty'
    BY DEF DeliveryInv, ToldOrEmpty
  <1>2. ASSUME NEW k \in Workers, work'[k].current = work[k].current
        PROVE  ClaimStands(k)'
    <2>1. ClaimStands(k) /\ work[k].current \in Activities \cup {None}
      BY DEF DeliveryInv, ClaimsStand, TypeOK, Work
    <2>2. QED
      BY <1>2, <2>1 DEF ClaimStands, Pending
  <1>3. QED
    BY <1>1, <1>2

LEMMA WriterDelivery ==
  ASSUME DeliveryInv, NEW w \in Writers, Commit(w) \/ RollBack(w) \/ Emit(w) \/ Listen(w)
  PROVE  DeliveryInv'
  <1> USE DEF DeliveryInv
  <1>1. w \in Workers /\ RowsOf[w] \in SUBSET Activities
    BY WritersAssumption DEF Workers
  <1>2. CASE Commit(w)
    <2>1. /\ log' \in [Activities -> {"none", "young", "due"}]
          /\ \A a \in Activities : Written(a) => Written(a)'
          /\ \A a \in RowsOf[w] : Written(a)'
      BY <1>1, <1>2 DEF Commit, TypeOK, Written
    <2>2. ToldOrEmpty' /\ ClaimsStand'
      BY <1>2, <2>1, LogStep DEF Commit, ClaimsStand
    <2>3. TypeOK'
      BY <1>2, <2>1 DEF Commit, TypeOK
    <2>4. WrittenRows'
      <3>1. \A v \in Writers : v # w => writer'[v] = writer[v]
        BY <1>2 DEF Commit, TypeOK
      <3>2. \A v \in Writers : RowsOf[v] \subseteq Activities
        BY WritersAssumption
      <3>3. \A k \in Workers : work'[k].rows \subseteq Activities
        BY <1>2 DEF Commit, TypeOK, Work
      <3>4. QED
        BY <1>2, <2>1, <3>1, <3>2, <3>3 DEF Commit, WrittenRows
    <2>5. QED
      BY <2>2, <2>3, <2>4
  <1>3. CASE RollBack(w)
    <2>1. TypeOK' /\ WrittenRows'
      BY <1>3 DEF RollBack, TypeOK, WrittenRows, Written
    <2>2. ToldOrEmpty' /\ ClaimsStand'
      BY <1>3, LogStep DEF RollBack, ClaimsStand, TypeOK, Written
    <2>3. QED
      BY <2>1, <2>2
  <1>4. CASE Emit(w)
    <2> DEFINE job == [at |-> "event", rows |-> RowsOf[w], current |-> None]
    <2>1. job \in Work /\ (\A a \in RowsOf[w] : Written(a))
      BY <1>1, <1>4 DEF Emit, Work, WrittenRows
    <2>2. /\ work' \in [Workers -> Work] /\ work'[w] = job
          /\ \A j \in Workers \ {w} : work'[j] = work[j]
      BY <1>1, <1>4, <2>1 DEF Emit, TypeOK
    <2> HIDE DEF job
    <2>3. TypeOK'
      BY <1>4, <2>2 DEF Emit, TypeOK
    <2>4. job.rows = RowsOf[w] /\ job.current = None
      BY DEF job
    <2>5. WrittenRows'
      BY <1>4, <2>1, <2>2, <2>4 DEF Emit, WrittenRows, Written, TypeOK
    <2>6. ToldOrEmpty'
      BY <1>4 DEF Emit, ToldOrEmpty
    <2>7. ASSUME NEW j \in Workers
          PROVE  ClaimStands(j)'
      <3>1. CASE j = w
        BY <2>2, <2>4, <3>1 DEF ClaimStands
      <3>2. CASE j # w
        BY <1>4, <2>2, <3>2 DEF Emit, ClaimsStand, ClaimStands, Pending, Written
      <3>3. QED
        BY <3>1, <3>2
    <2>8. QED
      BY <2>3, <2>5, <2>6, <2>7 DEF ClaimsStand
  <1>5. CASE Listen(w)
    <2> DEFINE rows == {a \in work[w].rows : Pending(a)}
    <2>1. rows \in SUBSET Activities /\ \A a \in rows : Written(a)
      BY <1>1 DEF TypeOK, Work, Pending
    <2> HIDE DEF rows
    <2>2. work' = [work EXCEPT ![w] = Fanning(rows)]
      BY <1>5 DEF Listen, rows
    <2>3. UNCHANGED <<writer, log, notified, inbox, read, staff, claim, faults>>
      BY <1>5 DEF Listen
    <2>4. QED
      BY <1>1, <2>1, <2>2, <2>3, FanningTyping, WorkerStep DEF TypeOK
  <1>6. QED
    BY <1>2, <1>3, <1>4, <1>5

LEMMA WorldDelivery ==
  ASSUME DeliveryInv,
         \/ \E a \in Activities : BecomeDue(a)
         \/ \E u \in Users : Read(u)
         \/ Restaff
  PROVE  DeliveryInv'
  <1> USE DEF DeliveryInv
  <1>1. ASSUME NEW a \in Activities, BecomeDue(a)
        PROVE  DeliveryInv'
    <2>1. /\ log' \in [Activities -> {"none", "young", "due"}]
          /\ \A b \in Activities : Written(b) => Written(b)'
      BY <1>1 DEF BecomeDue, TypeOK, Written
    <2>2. ToldOrEmpty' /\ ClaimsStand'
      BY <1>1, <2>1, LogStep DEF BecomeDue, ClaimsStand
    <2>3. TypeOK'
      BY <1>1, <2>1 DEF BecomeDue, TypeOK
    <2>4. WrittenRows'
      <3>1. \A k \in Workers : work'[k].rows \subseteq Activities
        BY <1>1 DEF BecomeDue, TypeOK, Work
      <3>2. QED
        BY <1>1, <2>1, <3>1, WritersAssumption DEF BecomeDue, WrittenRows
    <2>5. QED
      BY <2>2, <2>3, <2>4
  <1>2. ASSUME NEW u \in Users, Read(u)
        PROVE  DeliveryInv'
    <2>1. UNCHANGED <<writer, log, notified, inbox, staff, claim, work, faults>>
      BY <1>2 DEF Read
    <2>2. read' \in [Activities -> SUBSET Users]
      BY <1>2 DEF Read, TypeOK
    <2>3. QED
      BY <2>1, <2>2 DEF TypeOK, WrittenRows, ToldOrEmpty, ClaimsStand, ClaimStands, Pending, Written
  <1>3. CASE Restaff
    <2>1. UNCHANGED <<writer, log, notified, inbox, read, claim, work>>
      BY <1>3 DEF Restaff
    <2>2. staff' \in SUBSET Users /\ faults' \in Nat
      BY <1>3 DEF Restaff, Fault, TypeOK
    <2>3. QED
      BY <2>1, <2>2 DEF TypeOK, WrittenRows, ToldOrEmpty, ClaimsStand, ClaimStands, Pending, Written
  <1>4. QED
    BY <1>1, <1>2, <1>3

-----------------------------------------------------------------------------
(* Fanning out *)

LEMMA SweepDelivery ==
  ASSUME DeliveryInv, NEW s \in Sweeps, Sweep(s)
  PROVE  DeliveryInv'
  <1> DEFINE rows == Oldest(Due, SweepBatch)
  <1>1. rows \in SUBSET Activities /\ \A a \in rows : Written(a)
    BY DEF Oldest, Due, Written
  <1>2. s \in Workers
    BY DEF Workers
  <1> HIDE DEF rows
  <1>3. work' = [work EXCEPT ![s] = Fanning(rows)]
        /\ UNCHANGED <<writer, log, notified, inbox, read, staff, claim, faults>>
    BY DEF Sweep, rows
  <1>4. QED
    BY <1>1, <1>2, <1>3, FanningTyping, WorkerStep DEF DeliveryInv, TypeOK

LEMMA ClaimDelivery ==
  ASSUME DeliveryInv, NEW k \in Workers, Claim(k)
  PROVE  DeliveryInv'
  <1> USE DEF DeliveryInv
  <1>1. PICK a \in work[k].rows :
          /\ Claimable(a)
          /\ claim' = [claim EXCEPT ![a] = k]
          /\ work' = [work EXCEPT ![k].current = a]
    BY DEF Claim
  <1>2. UNCHANGED <<writer, log, notified, inbox, read, staff, faults>>
    BY DEF Claim
  <1>3. work[k] \in Work /\ a \in Activities /\ Written(a)
    BY DEF TypeOK, Work, WrittenRows
  <1>4. /\ work' \in [Workers -> Work]
        /\ work'[k].current = a /\ work'[k].rows = work[k].rows
        /\ \A j \in Workers \ {k} : work'[j] = work[j]
    BY <1>1, <1>3 DEF TypeOK, Work
  <1>5. /\ claim' \in [Activities -> Workers \cup {None}]
        /\ claim'[a] = k /\ \A b \in Activities \ {a} : claim'[b] = claim[b]
    BY <1>1, <1>3 DEF TypeOK
  <1>6. TypeOK'
    BY <1>2, <1>4, <1>5 DEF TypeOK
  <1>7. WrittenRows'
    BY <1>2, <1>4 DEF WrittenRows, Written
  <1>8. ToldOrEmpty'
    BY <1>2 DEF ToldOrEmpty
  <1>9. ASSUME NEW j \in Workers
        PROVE  ClaimStands(j)'
    <2>1. CASE j = k
      <3>1. Pending(a) /\ inbox[a] = {}
        BY <1>1, <1>3 DEF Claimable, Pending, ToldOrEmpty
      <3>2. QED
        BY <1>2, <1>4, <1>5, <2>1, <3>1 DEF ClaimStands, Pending, Written
    <2>2. CASE j # k
      <3>1. ClaimStands(j) /\ work[j].current \in Activities \cup {None}
        BY DEF ClaimsStand, TypeOK, Work
      <3>2. work[j].current # a
        <4>1. claim[a] = None /\ j # None /\ a # None
          BY <1>1, <1>3, WritersAssumption DEF Claimable, Workers
        <4>2. QED
          BY <3>1, <4>1 DEF ClaimStands
      <3>3. QED
        BY <1>2, <1>4, <1>5, <2>2, <3>1, <3>2 DEF ClaimStands, Pending, Written
    <2>3. QED
      BY <2>1, <2>2
  <1>10. QED
    BY <1>6, <1>7, <1>8, <1>9 DEF ClaimsStand

LEMMA SkipDelivery ==
  ASSUME DeliveryInv, NEW k \in Workers, Skip(k)
  PROVE  DeliveryInv'
  <1> USE DEF DeliveryInv
  <1>1. PICK a \in work[k].rows : work' = [work EXCEPT ![k].rows = @ \ {a}]
    BY DEF Skip
  <1> DEFINE job == [work[k] EXCEPT !.rows = @ \ {a}]
  <1>2. work[k] \in Work /\ work[k].current = None
    BY DEF Skip, TypeOK
  <1>3. job \in Work /\ job.current = None /\ job.rows \subseteq work[k].rows
    BY <1>2 DEF Work
  <1>4. \A b \in job.rows : Written(b)
    BY <1>3 DEF WrittenRows
  <1>5. work' = [work EXCEPT ![k] = job]
        /\ UNCHANGED <<writer, log, notified, inbox, read, staff, claim, faults>>
    BY <1>1 DEF Skip
  <1> HIDE DEF job
  <1>6. QED
    BY <1>3, <1>4, <1>5, WorkerStep DEF TypeOK

\* What a delivery finds and leaves.
LEMMA DeliverStep ==
  ASSUME DeliveryInv, NEW k \in Workers, NEW a, a = work[k].current, Deliver(k)
  PROVE  /\ a \in Activities /\ claim[a] = k /\ Written(a) /\ a \notin notified /\ inbox[a] = {}
         /\ notified' = notified \cup {a}
         /\ inbox' = [inbox EXCEPT ![a] = Recipients(a)]
         /\ claim' = [claim EXCEPT ![a] = None]
         /\ work' = [work EXCEPT ![k] = Fanning(work[k].rows \ {a})]
         /\ UNCHANGED <<writer, log, read, staff, faults>>
  <1>1. a \in Activities /\ a # None
    BY DEF DeliveryInv, TypeOK, Work, Deliver
  <1>2. ClaimStands(k)
    BY DEF DeliveryInv, ClaimsStand
  <1>3. inbox[a] = {} /\ inbox' = [inbox EXCEPT ![a] = inbox[a] \cup Recipients(a)]
    BY <1>1, <1>2 DEF Deliver, ClaimStands
  <1>4. QED
    BY <1>1, <1>2, <1>3 DEF Deliver, ClaimStands, Pending

LEMMA RecipientsTyping ==
  ASSUME TypeOK, NEW a \in Activities
  PROVE  Recipients(a) \in SUBSET (Users \ {Actor[a]})
  BY ActivitiesAssumption DEF TypeOK, Recipients, StaffFor

LEMMA DeliverDelivery ==
  ASSUME DeliveryInv, NEW k \in Workers, Deliver(k)
  PROVE  DeliveryInv'
  <1> USE DEF DeliveryInv
  <1> DEFINE a == work[k].current
             rows == work[k].rows \ {a}
  <1>1. /\ a \in Activities /\ claim[a] = k /\ Written(a) /\ a \notin notified /\ inbox[a] = {}
        /\ notified' = notified \cup {a}
        /\ inbox' = [inbox EXCEPT ![a] = Recipients(a)]
        /\ claim' = [claim EXCEPT ![a] = None]
        /\ work' = [work EXCEPT ![k] = Fanning(rows)]
        /\ UNCHANGED <<writer, log, read, staff, faults>>
    BY DeliverStep
  <1>2. rows \in SUBSET Activities /\ \A b \in rows : Written(b)
    BY DEF TypeOK, Work, WrittenRows
  <1> HIDE DEF a, rows
  <1>3. /\ work' \in [Workers -> Work]
        /\ work'[k].rows = rows /\ work'[k].current = None
        /\ \A j \in Workers \ {k} : work'[j] = work[j]
    BY <1>1, <1>2, FanningTyping DEF TypeOK
  <1>4. /\ inbox' \in [Activities -> SUBSET Users]
        /\ \A b \in Activities \ {a} : inbox'[b] = inbox[b]
    BY <1>1, RecipientsTyping DEF TypeOK
  <1>5. /\ claim' \in [Activities -> Workers \cup {None}]
        /\ \A b \in Activities \ {a} : claim'[b] = claim[b]
    BY <1>1 DEF TypeOK
  <1>6. TypeOK'
    BY <1>1, <1>3, <1>4, <1>5 DEF TypeOK
  <1>7. WrittenRows'
    BY <1>1, <1>2, <1>3 DEF WrittenRows, Written
  <1>8. ToldOrEmpty'
    BY <1>1, <1>4 DEF ToldOrEmpty
  <1>9. ASSUME NEW j \in Workers
        PROVE  ClaimStands(j)'
    <2>1. CASE j = k
      BY <1>3, <2>1 DEF ClaimStands
    <2>2. CASE j # k
      <3>1. ClaimStands(j) /\ work[j].current \in Activities \cup {None}
        BY DEF ClaimsStand, TypeOK, Work
      <3>2. work[j].current # a
        BY <1>1, <2>2, <3>1, WritersAssumption DEF ClaimStands, Workers
      <3>3. QED
        BY <1>1, <1>3, <1>4, <1>5, <2>2, <3>1, <3>2 DEF ClaimStands, Pending, Written
    <2>3. QED
      BY <2>1, <2>2
  <1>10. QED
    BY <1>6, <1>7, <1>8, <1>9 DEF ClaimsStand

LEMMA FinishDelivery ==
  ASSUME DeliveryInv, NEW k \in Workers, Finish(k)
  PROVE  DeliveryInv'
  <1>1. work' = [work EXCEPT ![k] = Resting]
        /\ UNCHANGED <<writer, log, notified, inbox, read, staff, claim, faults>>
    BY DEF Finish
  <1>2. QED
    BY <1>1, RestingTyping, WorkerStep DEF DeliveryInv, TypeOK

LEMMA FailDelivery ==
  ASSUME DeliveryInv, NEW k \in Workers, Fail(k)
  PROVE  DeliveryInv'
  <1>1. work' = [work EXCEPT ![k] = Resting] /\ faults' \in Nat
        /\ UNCHANGED <<writer, log, notified, inbox, read, staff>>
    BY DEF Fail, Fault, DeliveryInv, TypeOK
  <1>2. /\ claim' \in [Activities -> Workers \cup {None}]
        /\ \A a \in Activities : claim[a] # k => claim'[a] = claim[a]
    BY DEF Fail, DeliveryInv, TypeOK
  <1>3. QED
    BY <1>1, <1>2, RestingTyping, WorkerStep

LEMMA RestartDelivery ==
  ASSUME DeliveryInv, Restart
  PROVE  DeliveryInv'
  <1> USE DEF DeliveryInv
  <1>1. /\ \A w \in Writers : writer'[w] = "closed"
        /\ \A k \in Workers : work'[k] = Resting
        /\ UNCHANGED <<log, notified, inbox, read, staff>>
    BY DEF Restart
  <1>2. TypeOK'
    BY RestingTyping DEF Restart, Fault, TypeOK
  <1>3. WrittenRows'
    BY <1>1, RestingTyping DEF WrittenRows, Written
  <1>4. ToldOrEmpty'
    BY <1>1 DEF ToldOrEmpty
  <1>5. ClaimsStand'
    BY <1>1, RestingTyping DEF ClaimsStand, ClaimStands
  <1>6. QED
    BY <1>2, <1>3, <1>4, <1>5

LEMMA DeliveryStep == DeliveryInv /\ [Next]_vars => DeliveryInv'
  <1> SUFFICES ASSUME DeliveryInv, [Next]_vars PROVE DeliveryInv'
    OBVIOUS
  <1>1. ASSUME NEW k \in Workers, FanOut(k) \/ Fail(k)
        PROVE  DeliveryInv'
    BY <1>1, ClaimDelivery, SkipDelivery, DeliverDelivery, FinishDelivery, FailDelivery DEF FanOut
  <1>2. CASE UNCHANGED vars
    BY <1>2 DEF vars, DeliveryInv, TypeOK, WrittenRows, ToldOrEmpty, ClaimsStand, ClaimStands,
                Pending, Written
  <1>3. QED
    BY <1>1, <1>2, WriterDelivery, WorldDelivery, SweepDelivery, RestartDelivery DEF Next

LEMMA DeliveryCorrect == Spec => []DeliveryInv
  BY InitDelivery, DeliveryStep, PTL DEF Spec

(* Rows, claims and workers keep their types, whatever fails in between. *)
THEOREM TypeCorrect == Spec => []TypeOK
  <1>1. DeliveryInv => TypeOK
    BY DEF DeliveryInv
  <1>2. QED
    BY <1>1, DeliveryCorrect, PTL

(* Of any number of listeners and sweeps only one delivers an activity, and it finds
   nothing of it delivered (notification.service.ts:87-101). *)
THEOREM OneDeliverer == Spec => []ClaimsStand
  <1>1. DeliveryInv => ClaimsStand
    BY DEF DeliveryInv
  <1>2. QED
    BY <1>1, DeliveryCorrect, PTL

-----------------------------------------------------------------------------
(* Claims.  A claim is always in the hand of a worker that is about to deliver the row:
   what a failure or a restart interrupts leaves none behind, so that an activity not yet
   told is free for the next sweep or being delivered. *)

InLoop(k) == work[k].current # None => work[k].at = "loop" /\ work[k].current \in work[k].rows

ClaimsInHand == \A a \in Activities : claim[a] # None => work[claim[a]].current = a

WritersRest == \A w \in Writers : writer[w] # "closed" => work[w].at = "idle"

HandInv == ClaimsInHand /\ WritersRest /\ \A k \in Workers : InLoop(k)

LEMMA NothingInHand ==
  ASSUME DeliveryInv, HandInv, NEW k \in Workers, work[k].current = None
  PROVE  \A a \in Activities : claim[a] # k
  BY WritersAssumption DEF HandInv, ClaimsInHand, Workers

\* Enough to show HandInv' of a step of k.
LEMMA HandStep ==
  ASSUME DeliveryInv, HandInv, NEW k \in Workers, NEW job \in Work,
         work' = [work EXCEPT ![k] = job],
         job.current # None => job.at = "loop" /\ job.current \in job.rows,
         \A a \in Activities : claim'[a] = k => job.current = a,
         \A a \in Activities : claim'[a] \in {None, k, claim[a]},
         \A w \in Writers : writer'[w] # "closed" => writer[w] # "closed",
         k \in Writers => writer'[k] = "closed"
  PROVE  HandInv'
  <1>1. work'[k] = job /\ \A j \in Workers \ {k} : work'[j] = work[j]
    BY DEF DeliveryInv, TypeOK
  <1>2. \A j \in Workers : InLoop(j)'
    BY <1>1 DEF HandInv, InLoop
  <1>3. WritersRest'
    BY <1>1 DEF HandInv, WritersRest, Workers
  <1>4. ASSUME NEW a \in Activities, claim'[a] # None
        PROVE  work'[claim'[a]].current = a
    <2>1. CASE claim'[a] = k
      BY <1>1, <2>1
    <2>2. CASE claim'[a] # k
      <3>1. claim'[a] = claim[a] /\ claim[a] \in Workers
        BY <1>4, <2>2 DEF DeliveryInv, TypeOK
      <3>2. work[claim[a]].current = a
        BY <1>4, <3>1 DEF HandInv, ClaimsInHand
      <3>3. QED
        BY <1>1, <2>2, <3>1, <3>2
    <2>3. QED
      BY <2>1, <2>2
  <1>5. QED
    BY <1>2, <1>3, <1>4 DEF HandInv, ClaimsInHand

\* What is left to fan out only gets less: a claim, one row less, or the end.
Onward(job, next) ==
  \/ next.at = "idle"
  \/ next.at = "loop" /\ next.rows \subseteq job.rows /\ next.rows # job.rows
  \/ next.at = "loop" /\ next.rows = job.rows /\ job.current = None /\ next.current # None

LEMMA FanOutHand ==
  ASSUME DeliveryInv, HandInv, NEW k \in Workers, FanOut(k) \/ Fail(k)
  PROVE  HandInv' /\ Onward(work[k], work'[k])
  <1> USE DEF DeliveryInv
  <1>1. work[k] \in Work /\ (k \in Writers => writer[k] = "closed")
    BY DEF HandInv, WritersRest, TypeOK, FanOut, Claim, Skip, Deliver, Finish, Fanning, Fail
  <1>2. writer' = writer
    BY DEF FanOut, Claim, Skip, Deliver, Finish, Fail
  <1>3. CASE Claim(k)
    <2>1. PICK a \in work[k].rows :
            /\ claim' = [claim EXCEPT ![a] = k]
            /\ work' = [work EXCEPT ![k].current = a]
      BY <1>3 DEF Claim
    <2>2. a \in Activities /\ a # None /\ work[k].at = "loop" /\ work[k].current = None
      BY <1>1, <1>3, WritersAssumption DEF Claim, Work
    <2> DEFINE job == [work[k] EXCEPT !.current = a]
    <2>3. job \in Work /\ job.at = "loop" /\ job.current = a /\ job.rows = work[k].rows
      BY <1>1, <2>2 DEF Work
    <2>4. work' = [work EXCEPT ![k] = job]
      BY <2>1 DEF TypeOK
    <2> HIDE DEF job
    <2>5. \A b \in Activities : claim'[b] = IF b = a THEN k ELSE claim[b]
      BY <2>1, <2>2 DEF TypeOK
    <2>6. \A b \in Activities : claim[b] # k
      BY <2>2, NothingInHand
    <2>7. HandInv'
      <3>1. \A b \in Activities : claim'[b] = k => job.current = b
        BY <2>3, <2>5, <2>6
      <3>2. \A b \in Activities : claim'[b] \in {None, k, claim[b]}
        BY <2>5
      <3>3. job.at = "loop" /\ job.current \in job.rows
        BY <2>1, <2>3
      <3>4. \A w \in Writers : writer'[w] # "closed" => writer[w] # "closed"
        BY <1>2
      <3>5. k \in Writers => writer'[k] = "closed"
        BY <1>1, <1>2
      <3>6. QED
        BY <2>3, <2>4, <3>1, <3>2, <3>3, <3>4, <3>5, HandStep
    <2>8. work'[k] = job
      BY <2>4 DEF TypeOK
    <2>9. QED
      BY <2>2, <2>3, <2>7, <2>8 DEF Onward
  <1>4. CASE Skip(k)
    <2>1. PICK a \in work[k].rows : work' = [work EXCEPT ![k].rows = @ \ {a}]
      BY <1>4 DEF Skip
    <2>2. work[k].at = "loop" /\ work[k].current = None /\ claim' = claim
      BY <1>4 DEF Skip
    <2> DEFINE job == [work[k] EXCEPT !.rows = @ \ {a}]
    <2>3. job \in Work /\ job.at = "loop" /\ job.current = None /\ job.rows = work[k].rows \ {a}
      BY <1>1, <2>2 DEF Work
    <2>4. work' = [work EXCEPT ![k] = job]
      BY <2>1 DEF TypeOK
    <2> HIDE DEF job
    <2>5. HandInv'
      BY <1>1, <1>2, <2>2, <2>3, <2>4, NothingInHand, HandStep
    <2>6. work'[k] = job
      BY <2>4 DEF TypeOK
    <2>7. QED
      BY <2>3, <2>5, <2>6 DEF Onward
  <1>5. CASE Deliver(k)
    <2>1. PICK a : a = work[k].current
      OBVIOUS
    <2>2. /\ a \in Activities /\ claim' = [claim EXCEPT ![a] = None]
          /\ work' = [work EXCEPT ![k] = Fanning(work[k].rows \ {a})]
      BY <1>5, <2>1, DeliverStep
    <2>3. a \in work[k].rows
      BY <1>5, <2>1 DEF Deliver, HandInv, InLoop
    <2>4. \A b \in Activities : claim'[b] # k
      BY <2>1, <2>2, WritersAssumption DEF HandInv, ClaimsInHand, TypeOK, Workers
    <2>5. \A b \in Activities : claim'[b] \in {None, claim[b]}
      BY <2>2 DEF TypeOK
    <2>6. PICK job \in Work : /\ job = Fanning(work[k].rows \ {a}) /\ job.current = None
                              /\ job.at = "loop" /\ job.rows = work[k].rows \ {a}
      <3>1. work[k].rows \ {a} \in SUBSET Activities
        BY <1>1 DEF Work
      <3>2. Fanning(work[k].rows \ {a}).at = "loop"
        BY DEF Fanning
      <3>3. QED
        BY <3>1, <3>2, FanningTyping
    <2>7. work' = [work EXCEPT ![k] = job]
      BY <2>2, <2>6
    <2>8. HandInv'
      BY <1>1, <1>2, <2>4, <2>5, <2>6, <2>7, HandStep
    <2>9. work'[k] = job
      BY <2>7 DEF TypeOK
    <2>10. QED
      BY <2>3, <2>6, <2>8, <2>9 DEF Onward
  <1>6. CASE Finish(k) \/ Fail(k)
    <2>1. work' = [work EXCEPT ![k] = Resting] /\ Resting.at = "idle"
      BY <1>6 DEF Finish, Fail, Resting
    <2>2. \A a \in Activities : claim'[a] # k /\ claim'[a] \in {None, claim[a]}
      <3>1. CASE Finish(k)
        <4>1. work[k].current = None /\ claim' = claim
          BY <3>1 DEF Finish, Fanning
        <4>2. QED
          BY <4>1, NothingInHand
      <3>2. CASE Fail(k)
        BY <3>2, WritersAssumption DEF Fail, Workers
      <3>3. QED
        BY <1>6, <3>1, <3>2
    <2>3. HandInv'
      BY <1>1, <1>2, <2>1, <2>2, RestingTyping, HandStep
    <2>4. work'[k] = Resting
      BY <2>1 DEF TypeOK
    <2>5. QED
      BY <2>1, <2>3, <2>4 DEF Onward
  <1>7. QED
    BY <1>3, <1>4, <1>5, <1>6 DEF FanOut

\* A worker that takes up its work.
LEMMA TakeUpHand ==
  ASSUME DeliveryInv, HandInv, NEW k \in Workers,
         (k \in Writers /\ (Emit(k) \/ Listen(k))) \/ (k \in Sweeps /\ Sweep(k))
  PROVE  HandInv' /\ work[k].at # "loop" /\ \A j \in Workers \ {k} : work'[j] = work[j]
  <1> USE DEF DeliveryInv
  <1>1. work[k].at # "loop" /\ work[k].current = None /\ claim' = claim
    BY DEF Emit, Listen, Sweep, HandInv, InLoop, WritersRest
  <1>2. PICK job \in Work : work' = [work EXCEPT ![k] = job] /\ job.current = None
    <2>1. CASE k \in Writers /\ Emit(k)
      <3>1. [at |-> "event", rows |-> RowsOf[k], current |-> None] \in Work
        BY <2>1, WritersAssumption DEF Work
      <3>2. QED
        BY <2>1, <3>1 DEF Emit
    <2>2. CASE k \in Writers /\ Listen(k)
      <3>1. {a \in work[k].rows : Pending(a)} \in SUBSET Activities
        BY DEF TypeOK, Work
      <3>2. QED
        BY <2>2, <3>1, FanningTyping DEF Listen
    <2>3. CASE k \in Sweeps /\ Sweep(k)
      <3>1. Oldest(Due, SweepBatch) \in SUBSET Activities
        BY DEF Oldest, Due
      <3>2. QED
        BY <2>3, <3>1, FanningTyping DEF Sweep
    <2>4. QED
      BY <2>1, <2>2, <2>3
  <1>3. /\ \A w \in Writers : writer'[w] # "closed" => writer[w] # "closed"
        /\ k \in Writers => writer'[k] = "closed"
    <2>1. CASE k \in Writers /\ Emit(k)
      BY <2>1 DEF Emit, TypeOK
    <2>2. CASE k \in Writers /\ Listen(k)
      BY <2>2 DEF Listen, HandInv, WritersRest
    <2>3. CASE k \in Sweeps /\ Sweep(k)
      BY <2>3, WritersAssumption DEF Sweep
    <2>4. QED
      BY <2>1, <2>2, <2>3
  <1>4. HandInv'
    BY <1>1, <1>2, <1>3, NothingInHand, HandStep
  <1>5. QED
    BY <1>1, <1>2, <1>4 DEF TypeOK

WorkersMoveOn ==
  \A k \in Workers : work[k].at = "loop" /\ work'[k] # work[k] => Onward(work[k], work'[k])

LEMMA HandOfNext ==
  ASSUME DeliveryInv, HandInv, [Next]_vars
  PROVE  HandInv' /\ WorkersMoveOn
  <1> USE DEF DeliveryInv
  <1>1. ASSUME NEW k \in Workers, FanOut(k) \/ Fail(k)
        PROVE  HandInv' /\ WorkersMoveOn
    <2>1. \A j \in Workers \ {k} : work'[j] = work[j]
      BY <1>1 DEF FanOut, Claim, Skip, Deliver, Finish, Fail, TypeOK
    <2>2. QED
      BY <1>1, <2>1, FanOutHand DEF WorkersMoveOn
  <1>2. ASSUME NEW k \in Workers,
               (k \in Writers /\ (Emit(k) \/ Listen(k))) \/ (k \in Sweeps /\ Sweep(k))
        PROVE  HandInv' /\ WorkersMoveOn
    BY <1>2, TakeUpHand DEF WorkersMoveOn
  <1>3. ASSUME UNCHANGED <<work, claim>>,
               \A w \in Writers : writer'[w] # "closed" => writer[w] # "closed"
        PROVE  HandInv' /\ WorkersMoveOn
    BY <1>3 DEF HandInv, ClaimsInHand, WritersRest, InLoop, WorkersMoveOn
  <1>4. ASSUME NEW w \in Writers, Commit(w) \/ RollBack(w)
        PROVE  HandInv' /\ WorkersMoveOn
    <2>1. \A v \in Writers : writer'[v] # "closed" => writer[v] # "closed"
      BY <1>4 DEF Commit, RollBack, TypeOK
    <2>2. QED
      BY <1>3, <1>4, <2>1 DEF Commit, RollBack
  <1>5. ASSUME \/ \E a \in Activities : BecomeDue(a)
               \/ \E u \in Users : Read(u)
               \/ Restaff \/ UNCHANGED vars
        PROVE  HandInv' /\ WorkersMoveOn
    BY <1>3, <1>5 DEF BecomeDue, Read, Restaff, vars
  <1>6. CASE Restart
    <2>1. Resting.at = "idle" /\ \A k \in Workers : work'[k] = Resting
      BY <1>6 DEF Restart, Resting
    <2>2. \A a \in Activities : claim'[a] = None
      BY <1>6 DEF Restart
    <2>3. HandInv'
      BY <2>1, <2>2, RestingTyping DEF HandInv, ClaimsInHand, WritersRest, InLoop, Workers
    <2>4. QED
      BY <2>1, <2>3 DEF WorkersMoveOn, Onward
  <1>7. QED
    BY <1>1, <1>2, <1>4, <1>5, <1>6 DEF Next, Workers

LEMMA HandHolds == Spec => []HandInv
  <1>1. Init => HandInv
    BY RestingTyping DEF Init, HandInv, ClaimsInHand, WritersRest, InLoop, Resting, Workers
  <1>2. DeliveryInv /\ HandInv /\ [Next]_vars => HandInv'
    BY HandOfNext
  <1>3. QED
    BY <1>1, <1>2, DeliveryCorrect, PTL DEF Spec

(* A claim outlives neither the fan-out that failed nor the process that died: whoever
   holds it is at the row (notification.service.ts:87-101). *)
THEOREM NoClaimLeftBehind == Spec => []ClaimsInHand
  <1>1. HandInv => ClaimsInHand
    BY DEF HandInv
  <1>2. QED
    BY HandHolds, <1>1, PTL

\* The guards of FanOut(k).
Ready(k) ==
  /\ work[k].at = "loop"
  /\ \/ work[k].current # None
     \/ work[k].rows = {}
     \/ \E a \in work[k].rows : NextRow(k, a) /\ claim[a] = None

SomeoneReady == (\E k \in Workers : work[k].at = "loop") => \E k \in Workers : Ready(k)

LEMMA OldestExists ==
  ASSUME NEW rows \in SUBSET Activities, rows # {}
  PROVE  \E a \in rows : a \in Oldest(rows, 1)
  <1> DEFINE T == {CreatedAt[a] : a \in rows}
  <1>1. T \subseteq Nat /\ T # {}
    BY ActivitiesAssumption
  <1>2. PICK least \in T : \A n \in T : ~ (<<n, least>> \in OpToRel(<, Nat))
    <2> HIDE DEF T
    <2>1. QED
      BY <1>1, NatLessThanWellFounded, WFMin
  <1>3. PICK a \in rows : CreatedAt[a] = least
    OBVIOUS
  <1>4. ASSUME NEW b \in rows, CreatedAt[b] < CreatedAt[a] PROVE FALSE
    <2>1. CreatedAt[b] \in Nat /\ least \in Nat /\ CreatedAt[b] \in T
      BY ActivitiesAssumption
    <2>2. <<CreatedAt[b], least>> \in OpToRel(<, Nat)
      BY <1>3, <1>4, <2>1 DEF OpToRel
    <2>3. QED
      BY <1>2, <2>1, <2>2
  <1>5. {b \in rows : CreatedAt[b] < CreatedAt[a]} = {}
    BY <1>4
  <1>6. QED
    BY <1>5, FS_EmptySet DEF Oldest

LEMMA SomeoneIsReady == DeliveryInv /\ HandInv => SomeoneReady
  <1> SUFFICES ASSUME DeliveryInv, HandInv, NEW k \in Workers, work[k].at = "loop",
                      \A j \in Workers : ~Ready(j)
               PROVE  FALSE
    BY DEF SomeoneReady
  <1>1. work[k].current = None /\ work[k].rows # {} /\ work[k].rows \in SUBSET Activities
    BY DEF Ready, DeliveryInv, TypeOK, Work
  <1>2. PICK a \in work[k].rows : NextRow(k, a)
    BY <1>1, OldestExists DEF NextRow
  <1>3. a \in Activities /\ claim[a] # None
    BY <1>1, <1>2 DEF Ready
  <1>4. claim[a] \in Workers /\ work[claim[a]].current = a
    BY <1>3 DEF DeliveryInv, TypeOK, HandInv, ClaimsInHand
  <1>5. work[claim[a]].current # None /\ work[claim[a]].at = "loop"
    BY <1>3, <1>4, WritersAssumption DEF HandInv, InLoop
  <1>6. QED
    BY <1>4, <1>5 DEF Ready

(* Listeners and sweeps that meet on the same rows never all wait for one another's
   claims: while one is fanning out, one of them can go on
   (notification.service.ts:87-101). *)
THEOREM NeverAllWaiting == Spec => []SomeoneReady
  BY DeliveryCorrect, HandHolds, SomeoneIsReady, PTL

(* A worker that has begun to fan out is never set back: each step of it claims a row,
   leaves it one row less or ends it (notification.service.ts:79-101). *)
THEOREM EveryFanOutShrinks == Spec => [][WorkersMoveOn]_vars
  <1>1. DeliveryInv /\ HandInv /\ [Next]_vars => [WorkersMoveOn]_vars
    BY HandOfNext
  <1>2. QED
    BY <1>1, DeliveryCorrect, HandHolds, PTL DEF Spec

-----------------------------------------------------------------------------
(* The inboxes implement a mailbox: a commit sends, a delivery tells, a reader opens,
   and everything else changes nothing that a mailbox has. *)

LEMMA InitMail == Init => Mail!Empty
  BY DEF Init, Mail!Empty, Written

\* A step that commits nothing, delivers nothing and opens nothing.
LEMMA Stutter ==
  ASSUME TypeOK, log' \in [Activities -> {"none", "young", "due"}],
         \A a \in Activities : Written(a)' <=> Written(a),
         UNCHANGED <<notified, inbox, read>>
  PROVE  UNCHANGED Mail!mailbox
  BY DEF Mail!mailbox

LEMMA CommitSends ==
  ASSUME DeliveryInv, NEW w \in Writers, Commit(w)
  PROVE  Mail!Send
  <1>1. \A a \in Activities : Written(a) => Written(a)'
    BY DEF DeliveryInv, TypeOK, Commit, Written
  <1>2. UNCHANGED <<notified, inbox, read>>
    BY DEF Commit
  <1>3. QED
    BY <1>1, <1>2 DEF Mail!Send

LEMMA DeliverTells ==
  ASSUME DeliveryInv, NEW k \in Workers, Deliver(k)
  PROVE  \E a \in Activities : Mail!Tell(a)
  <1> DEFINE a == work[k].current
  <1>1. /\ a \in Activities /\ Written(a) /\ a \notin notified
        /\ notified' = notified \cup {a}
        /\ inbox' = [inbox EXCEPT ![a] = Recipients(a)]
        /\ UNCHANGED <<log, read>>
    BY DeliverStep
  <1> HIDE DEF a
  <1>2. Recipients(a) \in SUBSET (Users \ {Actor[a]})
    BY <1>1, RecipientsTyping DEF DeliveryInv
  <1>3. {b \in Activities : Written(b)}' = {b \in Activities : Written(b)}
    BY <1>1 DEF Written
  <1>4. Mail!Tell(a)
    BY <1>1, <1>2, <1>3 DEF Mail!Tell
  <1>5. QED
    BY <1>1, <1>4

LEMMA ReadOpens ==
  ASSUME DeliveryInv, NEW u \in Users, Read(u)
  PROVE  Mail!Open(u)
  <1>1. PICK rows \in SUBSET {a \in Activities : u \in inbox[a] \ read[a]} :
          read' = [a \in Activities |-> IF a \in rows THEN read[a] \cup {u} ELSE read[a]]
    BY DEF Read
  <1>2. UNCHANGED <<log, notified, inbox>>
    BY DEF Read
  <1>3. \A a \in Activities :
          read'[a] = read[a] \/ (u \in inbox[a] /\ read'[a] = read[a] \cup {u})
    BY <1>1
  <1>4. read' = [a \in Activities |-> read'[a]]
    BY <1>1
  <1>5. {a \in Activities : Written(a)}' = {a \in Activities : Written(a)}
    BY <1>2 DEF Written
  <1>6. QED
    BY <1>2, <1>3, <1>4, <1>5 DEF Mail!Open

LEMMA MailStep == DeliveryInv /\ [Next]_vars => [Mail!Next]_(Mail!mailbox)
  <1> SUFFICES ASSUME DeliveryInv, [Next]_vars
               PROVE  Mail!Next \/ UNCHANGED Mail!mailbox
    OBVIOUS
  <1>1. TypeOK
    BY DEF DeliveryInv
  <1>2. ASSUME UNCHANGED <<log, notified, inbox, read>>
        PROVE  UNCHANGED Mail!mailbox
    BY <1>1, <1>2, Stutter DEF TypeOK, Written
  <1>3. ASSUME NEW w \in Writers, RollBack(w) \/ Emit(w) \/ Listen(w)
        PROVE  UNCHANGED Mail!mailbox
    BY <1>2, <1>3 DEF RollBack, Emit, Listen
  <1>4. ASSUME NEW a \in Activities, BecomeDue(a)
        PROVE  UNCHANGED Mail!mailbox
    <2>1. /\ log' \in [Activities -> {"none", "young", "due"}]
          /\ \A b \in Activities : Written(b)' <=> Written(b)
          /\ UNCHANGED <<notified, inbox, read>>
      BY <1>1, <1>4 DEF BecomeDue, TypeOK, Written
    <2>2. QED
      BY <1>1, <2>1, Stutter
  <1>5. ASSUME NEW s \in Sweeps, Sweep(s)
        PROVE  UNCHANGED Mail!mailbox
    BY <1>2, <1>5 DEF Sweep
  <1>6. ASSUME NEW k \in Workers, Claim(k) \/ Skip(k) \/ Finish(k) \/ Fail(k)
        PROVE  UNCHANGED Mail!mailbox
    BY <1>2, <1>6 DEF Claim, Skip, Finish, Fail
  <1>7. CASE Restaff \/ Restart \/ UNCHANGED vars
    BY <1>2, <1>7 DEF Restaff, Restart, vars
  <1>8. QED
    BY <1>3, <1>4, <1>5, <1>6, <1>7, CommitSends, DeliverTells, ReadOpens
       DEF Next, FanOut, Mail!Next

(* The detailed specification implements the abstract one: each committed activity is
   told once, together, to its readers and not to its actor, by any number of listeners,
   sweeps and faults (notification.listener.ts:7-11, notification.entity.ts:12-17). *)
THEOREM DeliveryIsAMailbox == Spec => InboxIsAMailbox
  <1>1. Init => Mail!Empty
    BY InitMail
  <1>2. QED
    BY <1>1, MailStep, DeliveryCorrect, PTL DEF Spec, InboxIsAMailbox, Mail!Spec
=============================================================================
