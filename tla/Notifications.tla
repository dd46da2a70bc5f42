---------------------------- MODULE Notifications ----------------------------
(***************************************************************************)
(* From an audited change to its readers' inboxes.  A request writes its   *)
(* activity_log rows in its own transaction; after the COMMIT the          *)
(* subscriber emits an in-memory event, whose listener fans every row out  *)
(* into notifications; a sweep, started every minute, fans out whatever    *)
(* the listener missed.  Listeners and sweeps run concurrently and die     *)
(* with the process: only what is committed survives a restart.            *)
(***************************************************************************)
EXTENDS Integers, FiniteSets

CONSTANTS
  Activities,    \* activity_log rows that may get written
  Writers,       \* the transactions that write them
  RowsOf,        \* [Writers -> SUBSET Activities]
  CreatedAt,     \* [Activities -> Nat], created_at, which is not the order of the COMMITs
  Actor,         \* [Activities -> Users \cup {None}], who acted
  Subject,       \* [Activities -> Users \cup {None}], whose order, shipment or balance it was
  StaffHear,     \* the activities of STAFF_RECIPIENTS
  Users,
  Sweeps,        \* the sweeps that may run at a time
  SweepBatch,    \* SWEEP_BATCH
  MaxFaults,     \* bound: restarts, failed fan-outs and changes of the staff
  None           \* SQL NULL, nobody

ASSUME WritersAssumption ==
  /\ RowsOf \in [Writers -> SUBSET Activities]
  /\ Writers \cap Sweeps = {} /\ None \notin Writers \cup Sweeps \cup Activities
ASSUME ActivitiesAssumption ==
  /\ Actor \in [Activities -> Users \cup {None}]
  /\ Subject \in [Activities -> Users \cup {None}] /\ None \notin Users
  /\ CreatedAt \in [Activities -> Nat]

\* Who fans rows out: the listener of each writer's event, and the sweeps.
Workers == Writers \cup Sweeps

VARIABLES
  writer,    \* [Writers -> {"open", "committed", "closed"}], closed: rolled back or its event is out
  log,       \* [Activities -> {"none", "young", "due"}], the row; due: past SWEEP_GRACE_MS
  notified,  \* SUBSET Activities, notified_at IS NOT NULL
  inbox,     \* [Activities -> SUBSET Users], notifications rows
  read,      \* [Activities -> SUBSET Users], those with a read_at
  staff,     \* SUBSET Users, the members with the permission an action calls for
  claim,     \* [Activities -> Workers \cup {None}], the transaction that has stamped notified_at
  work,      \* [Workers -> Work], what each listener and sweep is at
  faults     \* restarts, failed fan-outs and changes of the staff so far

vars == <<writer, log, notified, inbox, read, staff, claim, work, faults>>

-----------------------------------------------------------------------------
\* An event still to be looked up, or rows being fanned out one by one, one of them in a
\* transaction that has claimed it.
Work == [at: {"idle", "event", "loop"}, rows: SUBSET Activities, current: Activities \cup {None}]

Resting == [at |-> "idle", rows |-> {}, current |-> None]

Fanning(rows) == [at |-> "loop", rows |-> rows, current |-> None]

Written(a) == log[a] # "none"
Pending(a) == Written(a) /\ a \notin notified

\* ORDER BY created_at ASC LIMIT n.
Oldest(rows, n) == {a \in rows : Cardinality({b \in rows : CreatedAt[b] < CreatedAt[a]}) < n}

\* The staff roles that hear of an activity, as they stand.
StaffFor(a) == IF a \in StaffHear THEN staff ELSE {}

(* resolveRecipients: the subject, if there is one, and the staff, never the actor;
   (mutants) with a missing subject; with the actor. *)
RecipientsOrNull(a) == ({Subject[a]} \cup StaffFor(a)) \ {Actor[a]}
RecipientsWithActor(a) == ({Subject[a]} \ {None}) \cup StaffFor(a)
Recipients(a) == (({Subject[a]} \ {None}) \cup StaffFor(a)) \ {Actor[a]}

-----------------------------------------------------------------------------
Init ==
  /\ writer = [w \in Writers |-> "open"]
  /\ log = [a \in Activities |-> "none"]
  /\ notified = {}
  /\ inbox = [a \in Activities |-> {}]
  /\ read = [a \in Activities |-> {}]
  /\ staff \in SUBSET Users
  /\ claim = [a \in Activities |-> None]
  /\ work = [k \in Workers |-> Resting]
  /\ faults = 0

(* recordActivity: the rows commit, or roll back, with the change they describe. *)
Commit(w) ==
  /\ writer[w] = "open"
  /\ writer' = [writer EXCEPT ![w] = "committed"]
  /\ log' = [a \in Activities |-> IF a \in RowsOf[w] /\ ~Written(a) THEN "young" ELSE log[a]]
  /\ UNCHANGED <<notified, inbox, read, staff, claim, work, faults>>

RollBack(w) ==
  /\ writer[w] = "open"
  /\ writer' = [writer EXCEPT ![w] = "closed"]
  /\ UNCHANGED <<log, notified, inbox, read, staff, claim, work, faults>>

\* afterTransactionCommit: the buffered rows leave as one event.
Emit(w) ==
  /\ writer[w] = "committed"
  /\ writer' = [writer EXCEPT ![w] = "closed"]
  /\ work' = [work EXCEPT ![w] = [at |-> "event", rows |-> RowsOf[w], current |-> None]]
  /\ UNCHANGED <<log, notified, inbox, read, staff, claim, faults>>

\* handleActivityRecorded -> notifyActivities: the rows of the event not yet notified.
Listen(w) ==
  /\ work[w].at = "event"
  /\ work' = [work EXCEPT ![w] = Fanning({a \in work[w].rows : Pending(a)})]
  /\ UNCHANGED <<writer, log, notified, inbox, read, staff, claim, faults>>

\* Thirty seconds later.
BecomeDue(a) ==
  /\ log[a] = "young"
  /\ log' = [log EXCEPT ![a] = "due"]
  /\ UNCHANGED <<writer, notified, inbox, read, staff, claim, work, faults>>

\* The rows of sweepPending; (mutant) MoreThan for LessThan.
DueWhileYoung == {a \in Activities : log[a] = "young" /\ a \notin notified}
Due == {a \in Activities : log[a] = "due" /\ a \notin notified}

Sweep(s) ==
  /\ work[s].at = "idle"
  /\ Due # {}
  /\ work' = [work EXCEPT ![s] = Fanning(Oldest(Due, SweepBatch))]
  /\ UNCHANGED <<writer, log, notified, inbox, read, staff, claim, faults>>

\* The row fanned out next: the oldest of a sweep, any of an event.
NextRow(k, a) == a \in IF k \in Sweeps THEN Oldest(work[k].rows, 1) ELSE work[k].rows

\* UPDATE ... SET notified_at WHERE notified_at IS NULL waits for a claim that has not
\* committed yet; (mutant) the WHERE without its second half.
ClaimableAgain(a) == claim[a] = None
Claimable(a) == claim[a] = None /\ a \notin notified

Claim(k) ==
  /\ work[k].at = "loop" /\ work[k].current = None
  /\ \E a \in work[k].rows :
       /\ NextRow(k, a)
       /\ Claimable(a)
       /\ claim' = [claim EXCEPT ![a] = k]
       /\ work' = [work EXCEPT ![k].current = a]
  /\ UNCHANGED <<writer, log, notified, inbox, read, staff, faults>>

\* ... and affects no row when somebody else's claim has committed.
Skip(k) ==
  /\ work[k].at = "loop" /\ work[k].current = None
  /\ \E a \in work[k].rows :
       /\ NextRow(k, a)
       /\ claim[a] = None /\ a \in notified
       /\ work' = [work EXCEPT ![k].rows = @ \ {a}]
  /\ UNCHANGED <<writer, log, notified, inbox, read, staff, claim, faults>>

\* The recipients are resolved, inserted (ON CONFLICT DO NOTHING) and the claim commits.
Deliver(k) ==
  LET a == work[k].current
  IN  /\ work[k].at = "loop" /\ a # None
      /\ inbox' = [inbox EXCEPT ![a] = @ \cup Recipients(a)]
      /\ notified' = notified \cup {a}
      /\ claim' = [claim EXCEPT ![a] = None]
      /\ work' = [work EXCEPT ![k] = Fanning(@.rows \ {a})]
      /\ UNCHANGED <<writer, log, read, staff, faults>>

Finish(k) ==
  /\ work[k] = Fanning({})
  /\ work' = [work EXCEPT ![k] = Resting]
  /\ UNCHANGED <<writer, log, notified, inbox, read, staff, claim, faults>>

\* markRead, markAllRead.
Read(u) ==
  \E rows \in SUBSET {a \in Activities : u \in inbox[a] \ read[a]} :
    /\ rows # {}
    /\ Cardinality(rows) = 1 \/ rows = {a \in Activities : u \in inbox[a] \ read[a]}
    /\ read' = [a \in Activities |-> IF a \in rows THEN read[a] \cup {u} ELSE read[a]]
    /\ UNCHANGED <<writer, log, notified, inbox, staff, claim, work, faults>>

-----------------------------------------------------------------------------
(* What may happen at any time, MaxFaults times in all *)

Fault == faults < MaxFaults /\ faults' = faults + 1

\* A member gains or loses the permission.
Restaff ==
  /\ Fault
  /\ staff' \in SUBSET Users \ {staff}
  /\ UNCHANGED <<writer, log, notified, inbox, read, claim, work>>

\* An error in one fan-out ends the loop over the others too: caught and logged.
Fail(k) ==
  /\ Fault
  /\ work[k].at # "idle"
  /\ work' = [work EXCEPT ![k] = Resting]
  /\ claim' = [a \in Activities |-> IF claim[a] = k THEN None ELSE claim[a]]
  /\ UNCHANGED <<writer, log, notified, inbox, read, staff>>

\* Events not yet emitted, listeners and sweeps are gone, open transactions roll back.
Restart ==
  /\ Fault
  /\ writer' = [w \in Writers |-> "closed"]
  /\ work' = [k \in Workers |-> Resting]
  /\ claim' = [a \in Activities |-> None]
  /\ UNCHANGED <<log, notified, inbox, read, staff>>

-----------------------------------------------------------------------------
FanOut(k) == Claim(k) \/ Skip(k) \/ Deliver(k) \/ Finish(k)

Next ==
  \/ \E w \in Writers : Commit(w) \/ RollBack(w) \/ Emit(w) \/ Listen(w)
  \/ \E a \in Activities : BecomeDue(a)
  \/ \E s \in Sweeps : Sweep(s)
  \/ \E k \in Workers : FanOut(k) \/ Fail(k)
  \/ \E u \in Users : Read(u)
  \/ Restaff \/ Restart

Spec == Init /\ [][Next]_vars

\* Time passes, the cron starts a sweep every minute, and what has started goes on.  A
\* listener need not ever run: its event may be lost.
Fairness ==
  /\ \A a \in Activities : WF_vars(BecomeDue(a))
  /\ \A s \in Sweeps : WF_vars(Sweep(s))
  /\ \A k \in Workers : WF_vars(FanOut(k))

FairSpec == Spec /\ Fairness

-----------------------------------------------------------------------------
(* Properties *)

(* Types of the rows, of the claims and of what each worker is at. *)
TypeOK ==
  /\ writer \in [Writers -> {"open", "committed", "closed"}]
  /\ log \in [Activities -> {"none", "young", "due"}]
  /\ notified \in SUBSET Activities
  /\ inbox \in [Activities -> SUBSET Users]
  /\ read \in [Activities -> SUBSET Users]
  /\ staff \in SUBSET Users
  /\ claim \in [Activities -> Workers \cup {None}]
  /\ work \in [Workers -> Work]
  /\ faults \in Nat

ClaimStands(k) ==
  LET a == work[k].current
  IN  a # None => claim[a] = k /\ Pending(a) /\ inbox[a] = {}

(* "So the listener and the sweep never both do the work": a worker that delivers a row
   is the only one, the row is committed, and nothing of it has been delivered before,
   whichever of its rivals failed halfway (notification.service.ts:87-101). *)
ClaimsStand == \A k \in Workers : ClaimStands(k)

Mail == INSTANCE Mailbox WITH
  Letters <- Activities, People <- Users, Sender <- Actor,
  sent <- {a \in Activities : Written(a)}, told <- notified, holders <- inbox, opened <- read

(* However the listeners and sweeps interleave, fail and restart, each committed activity
   is told once, to all its recipients together and never to the actor; one that rolled
   back is never told (notification.listener.ts:7-11,
   notification.entity.ts:12-17). *)
InboxIsAMailbox == Mail!Spec

(* "The sweep retries whatever it misses": every committed activity is delivered in the
   end, through lost events, failed fan-outs, restarts and a full batch of others
   (activity-log.subscriber.ts:52-53, notification.service.ts:68-77). *)
EveryActivityTold == \A a \in Activities : Written(a) ~> a \in notified
=============================================================================
