----------------------------- MODULE StoredFiles -----------------------------
(***************************************************************************)
(* The bill of a top-up and the label of a shipment: a row in Postgres     *)
(* that points at an object in the bucket.  No transaction spans the two,  *)
(* so uploads, removals and the nightly clean-ups order their steps so     *)
(* that a row never points at nothing; what they leave behind when they    *)
(* overlap, fail or die is an object without a row.                        *)
(***************************************************************************)
EXTENDS Integers, FiniteSets

CONSTANTS
  Bills,        \* top-ups, whose bill expires by age
  Labels,       \* shipments, whose label expires when they close
  Requests,     \* uploads and removals that may be made
  Overlapping,  \* the owners whose requests and clean-ups may overlap
  MaxMishaps,   \* bound: failed calls, lost deletes and restarts
  None          \* SQL NULL, no row

Owners == Bills \cup Labels

ASSUME OwnersAssumption == Bills \cap Labels = {} /\ Overlapping \subseteq Owners

VARIABLES
  row,      \* [Owners -> Row \cup {None}], credit_resources and shipment_labels (one per owner)
  bucket,   \* SUBSET Requests, the objects, each named for the upload that put it
  closed,   \* SUBSET Labels, DONE or CANCELLED
  request,  \* [Requests -> Request]
  job,      \* [Crons -> Job], the nightly clean-ups
  mishaps   \* failures so far

vars == <<row, bucket, closed, request, job, mishaps>>

-----------------------------------------------------------------------------
\* A row keeps its id and its created_at through a re-upload; old: past the TTL.
Row == [id: Requests, key: Requests, old: BOOLEAN]

\* Where a request is, the row of its owner it has read, and whether save() found it again.
Request == [at: {"idle", "set", "unset", "put", "find", "write", "remove", "drop", "done"},
            owner: Owners \cup {None}, seen: Row \cup {None}, found: BOOLEAN]

Crons == {"bills", "labels"}
Snapshot == [owner: Owners, id: Requests, key: Requests]
\* A pass over a list of rows, at the row or already at the object of the current one.
Job == [at: {"idle", "row", "object"}, todo: SUBSET Snapshot, current: Snapshot \cup {None}]
NoJob == [at |-> "idle", todo |-> {}, current |-> None]

ASSUME NullAssumption == None \notin Row \cup Snapshot

Active(r) == request[r].at \notin {"idle", "done"}
Busy(o) ==
  \/ \E r \in Requests : Active(r) /\ request[r].owner = o
  \/ \E c \in Crons : \E x \in job[c].todo \cup {job[c].current} : x # None /\ x.owner = o
MayTouch(o) == o \in Overlapping \/ ~Busy(o)

Goto(r, q) == request' = [request EXCEPT ![r] = q]

-----------------------------------------------------------------------------
Init ==
  /\ row = [o \in Owners |-> None]
  /\ bucket = {}
  /\ closed = {}
  /\ request = [r \in Requests |-> [at |-> "idle", owner |-> None, seen |-> None, found |-> FALSE]]
  /\ job = [c \in Crons |-> NoJob]
  /\ mishaps = 0

\* assertLabelEditable; a bill has no such state.
Editable(o) == o \notin closed

Ask(r) ==
  /\ request[r].at = "idle"
  /\ \E o \in Owners, task \in {"set", "unset"} :
       /\ MayTouch(o) /\ Editable(o)
       /\ Goto(r, [request[r] EXCEPT !.owner = o, !.at = task])
  /\ UNCHANGED <<row, bucket, closed, job, mishaps>>

\* The existing row: none is a 404 for a removal, a first upload otherwise.
Look(r) ==
  LET existing == row[request[r].owner]
      next == IF request[r].at = "set" THEN "put" ELSE IF existing = None THEN "done" ELSE "remove"
  IN  /\ request[r].at \in {"set", "unset"}
      /\ Goto(r, [request[r] EXCEPT !.seen = existing, !.at = next])
      /\ UNCHANGED <<row, bucket, closed, job, mishaps>>

\* put() to a fresh key (buildKey); (mutant) in place of the object there was.
PutInPlace(r) ==
  (bucket \cup {r}) \ IF request[r].seen = None THEN {} ELSE {request[r].seen.key}
WithUpload(r) == bucket \cup {r}

Put(r) ==
  /\ request[r].at = "put"
  /\ bucket' = WithUpload(r)
  /\ Goto(r, [request[r] EXCEPT !.at = IF request[r].seen = None THEN "write" ELSE "find"])
  /\ UNCHANGED <<row, closed, job, mishaps>>

\* save() of an entity with an id first looks whether the row is still there.
Find(r) ==
  /\ request[r].at = "find"
  /\ Goto(r, [request[r] EXCEPT !.at = "write", !.found =
                row[request[r].owner] # None /\ row[request[r].owner].id = request[r].seen.id])
  /\ UNCHANGED <<row, bucket, closed, job, mishaps>>

\* UPDATE ... WHERE id, which may affect nothing, or INSERT, which the unique index may refuse;
\* (mutant) with a null for the id of a first upload.
Updated(r) ==
  LET current == row[request[r].owner]
  IN  IF current # None /\ current.id = request[r].seen.id
      THEN [current EXCEPT !.key = r] ELSE current
InsertedWithNull(r) ==
  [id |-> IF request[r].seen = None THEN None ELSE request[r].seen.id, key |-> r, old |-> FALSE]
Inserted(r) ==
  [id |-> IF request[r].seen = None THEN r ELSE request[r].seen.id, key |-> r, old |-> FALSE]

\* The previous object goes once the new key is committed.
Write(r) ==
  LET o == request[r].owner
      refused == ~request[r].found /\ row[o] # None
  IN  /\ request[r].at = "write"
      /\ row' = IF refused THEN row
                ELSE [row EXCEPT ![o] = IF request[r].found THEN Updated(r) ELSE Inserted(r)]
      /\ Goto(r, [request[r] EXCEPT !.at =
                    IF refused \/ request[r].seen = None THEN "done" ELSE "drop"])
      /\ UNCHANGED <<bucket, closed, job, mishaps>>

\* DELETE ... WHERE id, which may affect nothing either.
RowsWithout(o, id) ==
  IF row[o] # None /\ row[o].id = id THEN [row EXCEPT ![o] = None] ELSE row

Remove(r) ==
  /\ request[r].at = "remove"
  /\ row' = RowsWithout(request[r].owner, request[r].seen.id)
  /\ Goto(r, [request[r] EXCEPT !.at = "drop"])
  /\ UNCHANGED <<bucket, closed, job, mishaps>>

\* storage.delete, which takes a missing key for done; (mutant) forgotten.
WithoutNothing(key) == bucket
WithoutObject(key) == bucket \ {key}

Drop(r) ==
  /\ request[r].at = "drop"
  /\ Goto(r, [request[r] EXCEPT !.at = "done"])
  /\ bucket' = WithoutObject(request[r].seen.key)
  /\ UNCHANGED <<row, closed, job, mishaps>>

-----------------------------------------------------------------------------
(* The shipments, the calendar and the nightly clean-ups *)

Close(o) ==
  /\ o \in Labels \ closed
  /\ closed' = closed \cup {o}
  /\ UNCHANGED <<row, bucket, request, job, mishaps>>

\* A request takes seconds, a bill's life is two weeks.
TwoWeeks ==
  /\ \A r \in Requests : ~Active(r)
  /\ \A c \in Crons : job[c].at = "idle"
  /\ row' = [o \in Owners |-> IF row[o] = None THEN None ELSE [row[o] EXCEPT !.old = TRUE]]
  /\ UNCHANGED <<bucket, closed, request, job, mishaps>>

Stale(o) == row[o] # None /\ IF o \in Bills THEN row[o].old ELSE o \in closed

\* What a clean-up lists; (mutant) labels by age, as bills are.
ListedByAge(c) == {o \in IF c = "bills" THEN Bills ELSE Labels : row[o] # None /\ row[o].old}
Listed(c) == {o \in IF c = "bills" THEN Bills ELSE Labels : Stale(o)}

StartCleanup(c) ==
  /\ job[c].at = "idle"
  /\ Listed(c) # {}
  /\ \A o \in Listed(c) : MayTouch(o)
  /\ job' = [job EXCEPT ![c] = [at |-> "row", current |-> None,
               todo |-> {[owner |-> o, id |-> row[o].id, key |-> row[o].key] : o \in Listed(c)}]]
  /\ UNCHANGED <<row, bucket, closed, request, mishaps>>

CleanRow(c) ==
  /\ job[c].at = "row"
  /\ \E x \in job[c].todo :
       /\ row' = RowsWithout(x.owner, x.id)
       /\ job' = [job EXCEPT ![c] = [at |-> "object", todo |-> @.todo \ {x}, current |-> x]]
  /\ UNCHANGED <<bucket, closed, request, mishaps>>

NextOf(j) == IF j.todo = {} THEN NoJob ELSE [j EXCEPT !.at = "row", !.current = None]

CleanObject(c) ==
  /\ job[c].at = "object"
  /\ bucket' = WithoutObject(job[c].current.key)
  /\ job' = [job EXCEPT ![c] = NextOf(@)]
  /\ UNCHANGED <<row, closed, request, mishaps>>

-----------------------------------------------------------------------------
(* What may go wrong, MaxMishaps times in all *)

Mishap == mishaps < MaxMishaps /\ mishaps' = mishaps + 1

\* An error of the database or of put() ends the request where it is; at its last step, a
\* delete the bucket refuses, which is logged only.
Fail(r) ==
  /\ Mishap
  /\ Active(r)
  /\ Goto(r, [request[r] EXCEPT !.at = "done"])
  /\ UNCHANGED <<row, bucket, closed, job>>

\* The bucket refuses a delete of a clean-up, which goes on.
LoseObject(c) ==
  /\ Mishap
  /\ job[c].at = "object"
  /\ job' = [job EXCEPT ![c] = NextOf(@)]
  /\ UNCHANGED <<row, bucket, closed, request>>

\* An error ends the pass: the rows it did not reach wait for the next night.
FailCleanup(c) ==
  /\ Mishap
  /\ job[c].at # "idle"
  /\ job' = [job EXCEPT ![c] = NoJob]
  /\ UNCHANGED <<row, bucket, closed, request>>

Restart ==
  /\ Mishap
  /\ request' = [r \in Requests |-> IF Active(r) THEN [request[r] EXCEPT !.at = "done"] ELSE request[r]]
  /\ job' = [c \in Crons |-> NoJob]
  /\ UNCHANGED <<row, bucket, closed>>

-----------------------------------------------------------------------------
Step(r) == Look(r) \/ Put(r) \/ Find(r) \/ Write(r) \/ Remove(r) \/ Drop(r)
Clean(c) == StartCleanup(c) \/ CleanRow(c) \/ CleanObject(c)

Next ==
  \/ \E r \in Requests : Ask(r) \/ Step(r) \/ Fail(r)
  \/ \E c \in Crons : Clean(c) \/ LoseObject(c) \/ FailCleanup(c)
  \/ \E o \in Labels : Close(o)
  \/ TwoWeeks \/ Restart

Spec == Init /\ [][Next]_vars

\* Requests run on, and a cron fires every night.
Fairness ==
  /\ \A r \in Requests : WF_vars(Step(r))
  /\ \A c \in Crons : WF_vars(Clean(c))

FairSpec == Spec /\ Fairness

-----------------------------------------------------------------------------
(* Properties *)

(* Types of the rows, the objects, the requests and the passes. *)
TypeOK ==
  /\ row \in [Owners -> Row \cup {None}]
  /\ bucket \in SUBSET Requests
  /\ closed \in SUBSET Labels
  /\ request \in [Requests -> Request]
  /\ job \in [Crons -> Job]
  /\ mishaps \in Nat

(* "A failed delete can never leave the row pointing at nothing": whatever overlaps, fails
   or dies, the object a row points at is in the bucket, so the URL issued for it opens
   (organization.service.ts:1157-1159, shipment.service.ts:851-853). *)
RowsHaveObjects == \A o \in Owners : row[o] # None => row[o].key \in bucket

\* The objects of an owner that a request or a clean-up has still to point a row at, or to drop.
InHand(o) ==
  {r \in Requests : request[r].owner = o /\ request[r].at \in {"find", "write"}}
  \cup {request[r].seen.key : r \in {q \in Requests : request[q].at = "drop"}}
  \cup {job[c].current.key : c \in {d \in Crons : job[d].at = "object"}}

(* "So storage and DB never drift": where nothing failed and nothing overlapped, every
   object is its owner's current one or about to be dropped
   (credit-bill-cleanup.service.ts:6-11, shipment-label-cleanup.service.ts:5-11). *)
NoDrift ==
  mishaps = 0 =>
    \A r \in bucket : LET o == request[r].owner IN
      o \in Overlapping \/ r \in InHand(o) \/ (row[o] # None /\ row[o].key = r)

(* "One bill per entry: a re-upload deletes the previous object"
   (organization.service.ts:1126-1127; of labels shipment.service.ts:822-823): the upload
   that takes the place of another goes on to drop the object of just that one. *)
ReuploadDropsPrevious ==
  [][ \A o \in Owners :
        (row[o] # None /\ row'[o] # None /\ row'[o].key # row[o].key) =>
          LET r == row'[o].key
          IN  request'[r].at = "drop" /\ request'[r].seen.key = row[o].key ]_vars

(* "A daily job that drops the object and clears the row in one pass, so storage and DB
   never drift" (credit-bill-cleanup.service.ts:6-11, shipment-label-cleanup.service.ts:5-11):
   a pass is not done with a row before its object is gone. *)
OnePassDropsBoth ==
  [][ \A c \in Crons : (job[c].at = "object" /\ job'[c] # job[c]) =>
        job[c].current.key \notin bucket' ]_vars

(* An old bill, or the label of a closed shipment, is gone in the end, through passes
   that fail and uploads that were under way when its shipment closed
   (organization.service.ts:1236-1254, shipment.service.ts:918-937). *)
StaleFilesGo == \A o \in Owners : Stale(o) ~> ~Stale(o)
=============================================================================
