-------------------------- MODULE StoredFileProofs ---------------------------
(***************************************************************************)
(* Theorems about StoredFiles, for every set of owners and requests and    *)
(* whichever overlap.  However often something fails, a row never points   *)
(* at nothing: no lock and no transaction guards this, it rests on every   *)
(* upload having a key of its own, so that a key that somebody is about to *)
(* drop has been written once, and is not written again.  And where        *)
(* nothing fails and nothing overlaps, no object is left behind.           *)
(***************************************************************************)
EXTENDS StoredFiles, TLAPS

-----------------------------------------------------------------------------
(* Type correctness *)

\* What a request knows at each point: its owner once it is made, the row it has read once
\* it has looked, and whether save() found that row once it is to write.
Asked ==
  \A r \in Requests :
    /\ request[r].at # "idle" => request[r].owner \in Owners
    /\ request[r].at \in {"idle", "set", "unset"} => request[r].seen = None
    /\ request[r].at \in {"find", "remove", "drop"} => request[r].seen # None
    /\ request[r].at \in {"idle", "set", "unset", "put", "find", "remove"} => ~request[r].found
    /\ request[r].found => request[r].seen # None

\* A pass that is at an object knows which.
Passing == \A c \in Crons : job[c].at = "object" => job[c].current # None

Typed == TypeOK /\ Asked /\ Passing

\* The records of a request and of a pass, by their fields.
LEMMA RequestFields ==
  ASSUME NEW q \in Request
  PROVE  /\ q.owner \in Owners \cup {None}
         /\ q.seen \in Row \cup {None}
         /\ q.found \in BOOLEAN
         /\ q.seen # None => q.seen.id \in Requests /\ q.seen.key \in Requests
  BY DEF Request, Row

LEMMA JobFields ==
  ASSUME NEW j \in Job
  PROVE  /\ \A x \in j.todo : x \in Snapshot
         /\ j.current # None => j.current \in Snapshot
  BY DEF Job

LEMMA NoJobIsJob == NoJob \in Job /\ NoJob.at = "idle" /\ NoJob.todo = {} /\ NoJob.current = None
  BY DEF NoJob, Job

LEMMA NextOfIsJob ==
  ASSUME NEW j \in Job
  PROVE  /\ NextOf(j) \in Job
         /\ NextOf(j).todo = j.todo
         /\ NextOf(j).current = None
         /\ NextOf(j).at \in {"idle", "row"}
<1>1. CASE j.todo = {}
  BY <1>1, NoJobIsJob DEF NextOf
<1>2. CASE j.todo # {}
  BY <1>2 DEF NextOf, Job
<1> QED
  BY <1>1, <1>2

\* A deletion by id takes the row or leaves it.
LEMMA RowsWithoutTyped ==
  ASSUME row \in [Owners -> Row \cup {None}], NEW o \in Owners, NEW id
  PROVE  /\ RowsWithout(o, id) \in [Owners -> Row \cup {None}]
         /\ \A p \in Owners : RowsWithout(o, id)[p] \in {row[p], None}
         /\ RowsWithout(o, id)[o] # None => row[o].id # id
  BY DEF RowsWithout

LEMMA TypedInit == Init => Typed
  BY NoJobIsJob DEF Init, Typed, TypeOK, Asked, Passing, Request

\* The step of one request leaves the records of the others.
LEMMA TypedStep ==
  ASSUME Typed, NEW r \in Requests, Ask(r) \/ Step(r) \/ Fail(r)
  PROVE  Typed'
<1>0. TypeOK /\ request[r] \in Request
  BY DEF Typed, TypeOK
<1>1. CASE Ask(r)
  <2>1. PICK o \in Owners, task \in {"set", "unset"} :
          Goto(r, [request[r] EXCEPT !.owner = o, !.at = task])
    BY <1>1 DEF Ask
  <2> DEFINE asking == [request[r] EXCEPT !.owner = o, !.at = task]
  <2>2. /\ asking \in Request /\ asking.owner = o /\ asking.at = task
        /\ asking.seen = None /\ ~asking.found
    BY <1>0, <1>1 DEF Request, Typed, Asked, Ask
  <2>3. request' = [request EXCEPT ![r] = asking]
    BY <2>1 DEF Goto
  <2> HIDE DEF asking
  <2>4. request' \in [Requests -> Request] /\ Asked'
    BY <1>0, <2>2, <2>3 DEF Typed, TypeOK, Asked
  <2> QED
    BY <1>0, <1>1, <2>4 DEF Typed, TypeOK, Passing, Ask
<1>2. CASE Look(r)
  <2>1. request[r].owner \in Owners /\ row[request[r].owner] \in Row \cup {None}
    BY <1>0, <1>2 DEF Typed, TypeOK, Asked, Look, Goto
  <2> QED
    BY <1>0, <1>2, <2>1 DEF Typed, TypeOK, Asked, Passing, Look, Goto, Request
<1>3. CASE Put(r)
  BY <1>0, <1>3 DEF Typed, TypeOK, Asked, Passing, Put, Goto, WithUpload, Request
<1>4. CASE Find(r)
  BY <1>0, <1>4 DEF Typed, TypeOK, Asked, Passing, Find, Goto, Request
<1>5. CASE Write(r)
  <2>1. request[r].owner \in Owners
    BY <1>5 DEF Typed, Asked, Write, Goto
  <2>2. Updated(r) \in Row \cup {None} /\ Inserted(r) \in Row
    BY <1>0, <2>1, RequestFields DEF TypeOK, Updated, Inserted, Row
  <2>3. row' \in [Owners -> Row \cup {None}]
    BY <1>0, <1>5, <2>1, <2>2 DEF TypeOK, Write, Goto
  <2>4. request' \in [Requests -> Request] /\ Asked'
    BY <1>0, <1>5 DEF Typed, TypeOK, Asked, Write, Goto, Request
  <2> QED
    BY <1>0, <1>5, <2>3, <2>4 DEF Typed, TypeOK, Passing, Write, Goto
<1>6. CASE Remove(r)
  <2>1. request[r].owner \in Owners
    BY <1>6 DEF Typed, Asked, Remove, Goto
  <2>2. row' \in [Owners -> Row \cup {None}]
    BY <1>0, <1>6, <2>1, RowsWithoutTyped DEF TypeOK, Remove, Goto
  <2>3. request' \in [Requests -> Request] /\ Asked'
    BY <1>0, <1>6 DEF Typed, TypeOK, Asked, Remove, Goto, Request
  <2> QED
    BY <1>0, <1>6, <2>2, <2>3 DEF Typed, TypeOK, Passing, Remove, Goto
<1>7. CASE Drop(r)
  BY <1>0, <1>7 DEF Typed, TypeOK, Asked, Passing, Drop, Goto, WithoutObject, Request
<1>8. CASE Fail(r)
  BY <1>0, <1>8 DEF Typed, TypeOK, Asked, Passing, Fail, Goto, Mishap, Active, Request
<1> QED
  BY <1>1, <1>2, <1>3, <1>4, <1>5, <1>6, <1>7, <1>8 DEF Step

LEMMA TypedClean ==
  ASSUME Typed, NEW c \in Crons, Clean(c) \/ LoseObject(c) \/ FailCleanup(c)
  PROVE  Typed'
<1>0. TypeOK /\ job[c] \in Job
  BY DEF Typed, TypeOK
<1>1. CASE StartCleanup(c)
  <2>1. \A o \in Listed(c) : o \in Owners /\ row[o] \in Row
    BY <1>0 DEF Listed, Stale, TypeOK, Owners
  <2>2. job'[c] \in Job /\ job'[c].at = "row"
    BY <1>0, <1>1, <2>1 DEF StartCleanup, Job, Snapshot, Row, TypeOK
  <2> QED
    BY <1>0, <1>1, <2>2 DEF Typed, TypeOK, Asked, Passing, StartCleanup
<1>2. CASE CleanRow(c)
  <2>1. PICK x \in job[c].todo :
          /\ row' = RowsWithout(x.owner, x.id)
          /\ job' = [job EXCEPT ![c] = [at |-> "object", todo |-> @.todo \ {x}, current |-> x]]
    BY <1>2 DEF CleanRow
  <2>2. x \in Snapshot /\ x.owner \in Owners /\ x # None
    BY <1>0, <2>1, JobFields, NullAssumption DEF Snapshot
  <2>3. row' \in [Owners -> Row \cup {None}]
    BY <1>0, <2>1, <2>2, RowsWithoutTyped DEF TypeOK
  <2> QED
    BY <1>0, <1>2, <2>1, <2>2, <2>3 DEF Typed, TypeOK, Asked, Passing, CleanRow, Job
<1>3. CASE CleanObject(c) \/ LoseObject(c)
  BY <1>0, <1>3, NextOfIsJob
     DEF Typed, TypeOK, Asked, Passing, CleanObject, LoseObject, WithoutObject, Mishap
<1>4. CASE FailCleanup(c)
  BY <1>0, <1>4, NoJobIsJob DEF Typed, TypeOK, Asked, Passing, FailCleanup, Mishap
<1> QED
  BY <1>1, <1>2, <1>3, <1>4 DEF Clean

LEMMA TypedNext == Typed /\ [Next]_vars => Typed'
<1> SUFFICES ASSUME Typed, [Next]_vars PROVE Typed'
  OBVIOUS
<1>1. CASE UNCHANGED vars
  BY <1>1 DEF vars, Typed, TypeOK, Asked, Passing
<1>2. ASSUME NEW r \in Requests, Ask(r) \/ Step(r) \/ Fail(r) PROVE Typed'
  BY <1>2, TypedStep
<1>3. ASSUME NEW c \in Crons, Clean(c) \/ LoseObject(c) \/ FailCleanup(c) PROVE Typed'
  BY <1>3, TypedClean
<1>4. ASSUME NEW o \in Labels, Close(o) PROVE Typed'
  BY <1>4 DEF Typed, TypeOK, Asked, Passing, Close
<1>5. CASE TwoWeeks
  BY <1>5 DEF Typed, TypeOK, Asked, Passing, TwoWeeks, Row
<1>6. CASE Restart
  BY <1>6, NoJobIsJob DEF Typed, TypeOK, Asked, Passing, Restart, Mishap, Active, Request
<1> QED
  BY <1>1, <1>2, <1>3, <1>4, <1>5, <1>6 DEF Next

(* Rows, objects, requests and passes keep their types (StoredFiles!TypeOK), for any owners
   and requests, whatever fails or restarts. *)
THEOREM TypeCorrect == Spec => []TypeOK
<1>1. Typed => TypeOK
  BY DEF Typed
<1> QED
  BY <1>1, TypedInit, TypedNext, PTL DEF Spec

-----------------------------------------------------------------------------
(* A row never points at nothing *)

\* The upload named k has written its row, or never will: a row gets the key k once.
Spent(k) == request[k].at \in {"drop", "done"}

\* x, which somebody has read of the row of o, names an upload for o that is over; and the row,
\* as long as it has that key, has the id of x: a deletion by id takes it.
Known(o, x) ==
  /\ Spent(x.key)
  /\ request[x.key].owner = o
  /\ row[o] # None /\ row[o].key = x.key => row[o].id = x.id

RowsKnown == \A o \in Owners : row[o] # None => Known(o, row[o])
SeenKnown == \A r \in Requests : request[r].seen # None => Known(request[r].owner, request[r].seen)
ListedKnown == \A c \in Crons : \A x \in job[c].todo : Known(x.owner, x)

\* No row has the key k, and none ever will.
Gone(k) == Spent(k) /\ \A o \in Owners : row[o] # None => row[o].key # k

DroppedAreGone ==
  /\ \A r \in Requests : request[r].at = "drop" => Gone(request[r].seen.key)
  /\ \A c \in Crons : job[c].at = "object" => Gone(job[c].current.key)

Uploaded == \A r \in Requests : request[r].at \in {"find", "write"} => r \in bucket

Kept == RowsHaveObjects /\ RowsKnown /\ SeenKnown /\ ListedKnown /\ DroppedAreGone /\ Uploaded

LEMMA KeptInit == Init => Kept
  BY DEF Init, Kept, RowsHaveObjects, RowsKnown, SeenKnown, ListedKnown, DroppedAreGone,
         Uploaded, NoJob

\* What every step leaves alone: a spent request stays spent, and a row that changes its key
\* takes one that was not spent.
Steady ==
  /\ \A k \in Requests : Spent(k) => Spent(k)' /\ request'[k].owner = request[k].owner
  /\ \A o \in Owners : row'[o] # None =>
       \/ row'[o].key \in Requests /\ ~Spent(row'[o].key)
       \/ row[o] # None /\ row'[o].key = row[o].key /\ row'[o].id = row[o].id

\* So what was known, or gone, is.
LEMMA SteadyKnown ==
  ASSUME Steady, NEW o \in Owners, NEW x, x.key \in Requests, Known(o, x)
  PROVE  Known(o, x)'
  BY DEF Steady, Known

LEMMA SteadyGone ==
  ASSUME Steady, NEW k \in Requests, Gone(k)
  PROVE  Gone(k)'
  BY DEF Steady, Gone

\* The keys that are held anywhere are names of uploads.
LEMMA KeysAreUploads ==
  ASSUME Typed
  PROVE  /\ \A o \in Owners : row[o] # None => row[o].key \in Requests /\ row[o].id \in Requests
         /\ \A r \in Requests : request[r].seen # None => request[r].seen.key \in Requests
         /\ \A c \in Crons : \A x \in job[c].todo :
              x \in Snapshot /\ x # None /\ x.key \in Requests /\ x.owner \in Owners
         /\ \A c \in Crons : job[c].at = "object" => job[c].current.key \in Requests
<1>1. TypeOK /\ Passing
  BY DEF Typed
<1>2. \A o \in Owners : row[o] # None => row[o].key \in Requests /\ row[o].id \in Requests
  BY <1>1 DEF TypeOK, Row
<1>3. \A r \in Requests : request[r].seen # None => request[r].seen.key \in Requests
  BY <1>1, RequestFields DEF TypeOK
<1>4. \A c \in Crons : job[c] \in Job
  BY <1>1 DEF TypeOK
<1>5. \A x \in Snapshot : x # None /\ x.key \in Requests /\ x.owner \in Owners
  BY NullAssumption DEF Snapshot
<1> QED
  BY <1>1, <1>2, <1>3, <1>4, <1>5, JobFields DEF Passing

\* A row that is as it was is known as it was.
LEMMA RowsStayKnown ==
  ASSUME Typed, RowsKnown, Steady,
         \A o \in Owners : row'[o] # None =>
           row[o] # None /\ row'[o].key = row[o].key /\ row'[o].id = row[o].id
  PROVE  RowsKnown'
  BY KeysAreUploads DEF RowsKnown, Known, Steady

\* A step of one request, or of none: what it has to show of itself.
LEMMA StepKept ==
  ASSUME Typed, Kept, Steady, RowsKnown', RowsHaveObjects', UNCHANGED job, NEW r \in Requests,
         \A q \in Requests \ {r} : request'[q] = request[q],
         \A q \in bucket : Spent(q) \/ q \in bucket',
         (request[r].seen # None => Known(request[r].owner, request[r].seen))',
         (request[r].at = "drop" => Gone(request[r].seen.key))',
         (request[r].at \in {"find", "write"} => r \in bucket)'
  PROVE  Kept'
<1>1. SeenKnown'
  <2> SUFFICES ASSUME NEW q \in Requests \ {r}, request[q].seen # None
               PROVE  Known(request[q].owner, request[q].seen)'
    BY DEF SeenKnown
  <2>1. Known(request[q].owner, request[q].seen) /\ request[q].seen.key \in Requests
    BY KeysAreUploads DEF Kept, SeenKnown
  <2>2. q \in Requests /\ request[q].owner \in Owners
    BY <2>1, RequestFields DEF Typed, TypeOK, Asked
  <2>3. request'[q] = request[q]
    OBVIOUS
  <2> QED
    BY <2>1, <2>2, <2>3 DEF Steady, Known, Spent
<1>2. ListedKnown'
  BY KeysAreUploads DEF Kept, ListedKnown, Steady, Known
<1>3. DroppedAreGone'
  BY KeysAreUploads, SteadyGone DEF Kept, DroppedAreGone, Steady, Gone, Typed, Asked
<1>4. Uploaded'
  BY DEF Kept, Uploaded, Spent
<1> QED
  BY <1>1, <1>2, <1>3, <1>4 DEF Kept

\* What the record of a request becomes, field by field.
LEMMA AskFields ==
  ASSUME Typed, NEW r \in Requests, Ask(r)
  PROVE  /\ request[r].at = "idle" /\ request'[r].at \in {"set", "unset"}
         /\ request'[r].seen = request[r].seen
<1>1. PICK o \in Owners, task \in {"set", "unset"} :
        Goto(r, [request[r] EXCEPT !.owner = o, !.at = task])
  BY DEF Ask
<1> DEFINE asking == [request[r] EXCEPT !.owner = o, !.at = task]
<1>2. asking.at = task /\ asking.seen = request[r].seen
  BY DEF Typed, TypeOK, Request
<1>3. request' = [request EXCEPT ![r] = asking]
  BY <1>1 DEF Goto
<1> HIDE DEF asking
<1> QED
  BY <1>2, <1>3 DEF Typed, TypeOK, Ask

LEMMA LookFields ==
  ASSUME Typed, NEW r \in Requests, Look(r)
  PROVE  /\ request[r].at \in {"set", "unset"} /\ request'[r].at \in {"put", "remove", "done"}
         /\ request'[r].owner = request[r].owner
         /\ request'[r].seen = row[request[r].owner]
  BY DEF Typed, TypeOK, Request, Look, Goto

LEMMA PutFields ==
  ASSUME Typed, NEW r \in Requests, Put(r)
  PROVE  /\ request[r].at = "put" /\ request'[r].at \in {"find", "write"}
         /\ request'[r].owner = request[r].owner
         /\ request'[r].seen = request[r].seen
  BY DEF Typed, TypeOK, Request, Put, Goto

LEMMA FindFields ==
  ASSUME Typed, NEW r \in Requests, Find(r)
  PROVE  /\ request[r].at = "find" /\ request'[r].at = "write"
         /\ request'[r].owner = request[r].owner
         /\ request'[r].seen = request[r].seen
  BY DEF Typed, TypeOK, Request, Find, Goto

LEMMA FailFields ==
  ASSUME Typed, NEW r \in Requests, Fail(r)
  PROVE  /\ request[r].at # "idle" /\ request'[r].at = "done"
         /\ request'[r].owner = request[r].owner
         /\ request'[r].seen = request[r].seen
  BY DEF Typed, TypeOK, Request, Fail, Active, Goto

\* The steps of a request that only read, put the object its row is to point at, or fail.
LEMMA ReadingKept ==
  ASSUME Typed, Typed', Kept, NEW r \in Requests,
         Ask(r) \/ Look(r) \/ Put(r) \/ Find(r) \/ Fail(r)
  PROVE  Kept'
<1>1. /\ UNCHANGED <<row, job>> /\ bucket \in SUBSET bucket'
      /\ \A q \in Requests \ {r} : request'[q] = request[q]
  BY DEF Typed, TypeOK, Ask, Look, Put, Find, Fail, Goto, WithUpload
<1>2. (Spent(r) => request'[r].at = "done")
      /\ (request[r].at # "idle" => request'[r].owner = request[r].owner)
  BY AskFields, LookFields, PutFields, FindFields, FailFields DEF Spent
<1>3. Steady
  BY <1>1, <1>2, KeysAreUploads DEF Steady, Spent
<1>4. RowsKnown'
  BY <1>1, <1>3, RowsStayKnown DEF Kept
<1>5. RowsHaveObjects'
  BY <1>1 DEF Kept, RowsHaveObjects
<1>6. (request[r].seen # None => Known(request[r].owner, request[r].seen))'
  <2>1. CASE Look(r)
    <3>1. request[r].owner \in Owners
      BY <2>1 DEF Typed, Asked, Look
    <3> QED
      BY <1>1, <1>4, <2>1, <3>1, LookFields DEF RowsKnown, Known
  <2>2. CASE ~Look(r)
    <3>1. request'[r].seen = request[r].seen
      BY <2>2, AskFields, PutFields, FindFields, FailFields
    <3>2. request[r].seen # None => request'[r].owner = request[r].owner
      BY <1>2 DEF Typed, Asked
    <3>3. request[r].seen # None => Known(request[r].owner, request[r].seen)
      BY DEF Kept, SeenKnown
    <3> QED
      BY <1>1, <1>3, <3>1, <3>2, <3>3, KeysAreUploads DEF Steady, Known, Spent
  <2> QED
    BY <2>1, <2>2
<1>7. request'[r].at # "drop"
  BY AskFields, LookFields, PutFields, FindFields, FailFields
<1>8. request'[r].at \in {"find", "write"} => r \in bucket'
  <2>1. CASE Put(r)
    BY <2>1 DEF Put, WithUpload
  <2>2. CASE Find(r)
    BY <1>1, <2>2 DEF Kept, Uploaded, Find
  <2> QED
    BY <2>1, <2>2, AskFields, LookFields, FailFields
<1> QED
  BY <1>1, <1>3, <1>4, <1>5, <1>6, <1>7, <1>8, StepKept

\* Deleting the row by the id one has read leaves no row with the key one has read.
LEMMA RemovedIsGone ==
  ASSUME Typed, RowsKnown, Steady, NEW o \in Owners, NEW x, x.key \in Requests, Known(o, x),
         row' = RowsWithout(o, x.id)
  PROVE  Gone(x.key)'
<1>1. Spent(x.key)' /\ request[x.key].owner = o
  BY DEF Known, Steady
<1>2. ASSUME NEW p \in Owners, row'[p] # None, row'[p].key = x.key PROVE FALSE
  <2>1. row[p] # None /\ row'[p] = row[p] /\ (p = o => row[p].id # x.id)
    BY <1>2, RowsWithoutTyped DEF Typed, TypeOK
  <2>2. request[x.key].owner = p
    BY <1>2, <2>1 DEF RowsKnown, Known
  <2> QED
    BY <1>1, <1>2, <2>1, <2>2 DEF Known
<1> QED
  BY <1>1, <1>2 DEF Gone

LEMMA RemoveKept ==
  ASSUME Typed, Typed', Kept, NEW r \in Requests, Remove(r)
  PROVE  Kept'
<1>1. /\ request[r].at = "remove" /\ request'[r].at = "drop"
      /\ request'[r].owner = request[r].owner /\ request'[r].seen = request[r].seen
      /\ \A q \in Requests \ {r} : request'[q] = request[q]
      /\ UNCHANGED <<bucket, job>>
  BY DEF Typed, TypeOK, Request, Remove, Goto
<1>2. /\ row' = RowsWithout(request[r].owner, request[r].seen.id)
      /\ request[r].owner \in Owners /\ request[r].seen # None
  BY DEF Remove, Typed, Asked
<1>3. \A o \in Owners : row'[o] # None => row[o] # None /\ row'[o] = row[o]
  BY <1>2, RowsWithoutTyped DEF Typed, TypeOK
<1>4. Steady
  BY <1>1, <1>3 DEF Steady, Spent
<1>5. RowsKnown'
  BY <1>3, <1>4, RowsStayKnown DEF Kept
<1>6. RowsHaveObjects'
  BY <1>1, <1>3 DEF Kept, RowsHaveObjects
<1>7. Known(request[r].owner, request[r].seen) /\ request[r].seen.key \in Requests
  BY <1>2, KeysAreUploads DEF Kept, SeenKnown
<1>8. Known(request[r].owner, request[r].seen)'
  BY <1>1, <1>2, <1>4, <1>7 DEF Steady, Known, Spent
<1>9. Gone(request[r].seen.key)'
  <2>1. PICK x : x = request[r].seen
    OBVIOUS
  <2>2. Gone(x.key)'
    BY <1>2, <1>4, <1>7, <2>1, RemovedIsGone DEF Kept
  <2> QED
    BY <1>1, <2>1, <2>2 DEF Gone, Spent
<1> QED
  BY <1>1, <1>4, <1>5, <1>6, <1>8, <1>9, StepKept

LEMMA DropKept ==
  ASSUME Typed, Typed', Kept, NEW r \in Requests, Drop(r)
  PROVE  Kept'
<1>1. /\ request[r].at = "drop" /\ request'[r].at = "done"
      /\ request'[r].owner = request[r].owner /\ request'[r].seen = request[r].seen
      /\ \A q \in Requests \ {r} : request'[q] = request[q]
      /\ UNCHANGED <<row, job>> /\ bucket' = bucket \ {request[r].seen.key}
  BY DEF Typed, TypeOK, Request, Drop, Goto, WithoutObject
<1>2. Gone(request[r].seen.key)
  BY <1>1 DEF Kept, DroppedAreGone
<1>3. Steady
  BY <1>1, KeysAreUploads DEF Steady, Spent
<1>4. RowsKnown'
  BY <1>1, <1>3, RowsStayKnown DEF Kept
<1>5. RowsHaveObjects'
  BY <1>1, <1>2 DEF Kept, RowsHaveObjects, Gone
<1>6. (request[r].seen # None => Known(request[r].owner, request[r].seen))'
  <2>1. request[r].owner \in Owners /\ request[r].seen # None /\ request[r].seen.key \in Requests
    BY <1>1, KeysAreUploads DEF Typed, Asked
  <2>2. Known(request[r].owner, request[r].seen)
    BY <2>1 DEF Kept, SeenKnown
  <2> QED
    BY <1>1, <1>3, <2>1, <2>2 DEF Steady, Known, Spent
<1>7. \A q \in bucket : Spent(q) \/ q \in bucket'
  BY <1>1, <1>2 DEF Gone
<1> QED
  BY <1>1, <1>3, <1>4, <1>5, <1>6, <1>7, StepKept

\* An upload gives the row a key that nobody has read, and the one it replaces is gone.
LEMMA WriteKept ==
  ASSUME Typed, Typed', Kept, NEW r \in Requests, Write(r)
  PROVE  Kept'
<1> DEFINE o == request[r].owner
<1>1. /\ request[r].at = "write" /\ request'[r].at \in {"drop", "done"}
      /\ request'[r].owner = o /\ request'[r].seen = request[r].seen
      /\ \A q \in Requests \ {r} : request'[q] = request[q]
      /\ UNCHANGED <<bucket, job>>
  BY DEF Typed, TypeOK, Request, Write, Goto
<1>2. o \in Owners /\ r \in bucket /\ ~Spent(r) /\ Spent(r)'
  BY <1>1 DEF Typed, Asked, Kept, Uploaded, Spent
<1>3. /\ \A p \in Owners \ {o} : row'[p] = row[p]
      /\ \/ row'[o] = row[o] /\ (request'[r].at = "drop" => row[o] = None \/ row[o].id # request[r].seen.id)
         \/ row'[o] # None /\ row'[o].key = r /\ (row[o] # None => row'[o].id = row[o].id)
  <2>1. CASE ~request[r].found /\ row[o] # None
    BY <1>2, <2>1 DEF Typed, TypeOK, Request, Write, Goto
  <2>2. CASE ~request[r].found /\ row[o] = None
    <3>1. Inserted(r) \in Row /\ Inserted(r).key = r
      BY RequestFields DEF Inserted, Row, Typed, TypeOK
    <3>2. row' = [row EXCEPT ![o] = Inserted(r)]
      BY <2>2 DEF Write
    <3> QED
      BY <1>2, <2>2, <3>1, <3>2, NullAssumption DEF Typed, TypeOK
  <2>3. CASE request[r].found
    <3>1. row' = [row EXCEPT ![o] = Updated(r)]
      BY <2>3 DEF Write
    <3>2. CASE row[o] # None /\ row[o].id = request[r].seen.id
      <4>1. Updated(r) \in Row /\ Updated(r).key = r /\ Updated(r).id = row[o].id
        BY <1>2, <3>2 DEF Updated, Row, Typed, TypeOK
      <4> QED
        BY <1>2, <3>1, <4>1, NullAssumption DEF Typed, TypeOK
    <3>3. CASE ~(row[o] # None /\ row[o].id = request[r].seen.id)
      <4>1. Updated(r) = row[o]
        BY <3>3 DEF Updated
      <4> QED
        BY <1>2, <3>1, <3>3, <4>1 DEF Typed, TypeOK
    <3> QED
      BY <3>2, <3>3
  <2> QED
    BY <2>1, <2>2, <2>3 DEF Typed, TypeOK
<1>4. Steady
  BY <1>1, <1>2, <1>3 DEF Steady, Spent
<1>5. RowsKnown'
  <2>1. ASSUME NEW p \in Owners, row'[p] # None PROVE Known(p, row[p])'
    <3>1. CASE p = o /\ row'[o].key = r
      BY <1>1, <1>2, <3>1 DEF Known
    <3>2. CASE row'[p] = row[p]
      BY <1>4, <2>1, <3>2, KeysAreUploads DEF Kept, RowsKnown, Known, Steady
    <3> QED
      BY <1>3, <3>1, <3>2
  <2> QED
    BY <2>1 DEF RowsKnown
<1>6. RowsHaveObjects'
  BY <1>1, <1>2, <1>3 DEF Kept, RowsHaveObjects
<1>7. request[r].seen # None =>
        Known(o, request[r].seen) /\ request[r].seen.key \in Requests /\ Spent(request[r].seen.key)
  BY KeysAreUploads DEF Kept, SeenKnown, Known
<1>8. (request[r].seen # None => Known(request[r].owner, request[r].seen))'
  BY <1>1, <1>2, <1>4, <1>7 DEF Steady, Known, Spent
<1>9. (request[r].at = "drop" => Gone(request[r].seen.key))'
  <2> SUFFICES ASSUME request'[r].at = "drop" PROVE Gone(request[r].seen.key)'
    OBVIOUS
  <2>1. request[r].seen # None
    BY <1>1 DEF Typed, Asked
  <2>2. ASSUME NEW p \in Owners, row'[p] # None, row'[p].key = request[r].seen.key PROVE FALSE
    <3>1. row'[p].key # r
      BY <1>2, <1>7, <2>1, <2>2
    <3>2. row'[p] = row[p]
      BY <1>3, <3>1
    <3>3. p = o
      BY <1>7, <2>1, <2>2, <3>2 DEF Kept, RowsKnown, Known
    <3> QED
      BY <1>3, <1>7, <2>1, <2>2, <3>1, <3>2, <3>3 DEF Known
  <2>3. Spent(request[r].seen.key)'
    BY <1>1, <1>4, <1>7, <2>1 DEF Steady, Spent
  <2> QED
    BY <1>1, <2>2, <2>3 DEF Gone, Spent
<1>10. request'[r].at \notin {"find", "write"}
  BY <1>1
<1> QED
  BY <1>1, <1>4, <1>5, <1>6, <1>8, <1>9, <1>10, StepKept

\* A step of a pass, or of nobody's: the requests do not get further, and no row gets a key.
LEMMA QuietKept ==
  ASSUME Typed, Kept,
         \A q \in Requests :
           /\ request'[q].owner = request[q].owner /\ request'[q].seen = request[q].seen
           /\ request'[q].at = request[q].at \/ (request[q].at # "idle" /\ request'[q].at = "done"),
         \A o \in Owners : row'[o] # None =>
           row[o] # None /\ row'[o].key = row[o].key /\ row'[o].id = row[o].id,
         \A q \in bucket : q \in bucket' \/ Gone(q)
  PROVE  Steady /\ RowsHaveObjects' /\ RowsKnown' /\ SeenKnown' /\ Uploaded'
         /\ \A r \in Requests : (request[r].at = "drop" => Gone(request[r].seen.key))'
<1>1. Steady
  BY DEF Steady, Spent
<1>2. RowsKnown'
  BY <1>1, RowsStayKnown DEF Kept
<1>3. RowsHaveObjects'
  BY DEF Kept, RowsHaveObjects, Gone
<1>4. SeenKnown'
  <2> SUFFICES ASSUME NEW q \in Requests, request[q].seen # None
               PROVE  Known(request[q].owner, request[q].seen)'
    BY DEF SeenKnown
  <2>1. Known(request[q].owner, request[q].seen) /\ request[q].seen.key \in Requests
    BY KeysAreUploads DEF Kept, SeenKnown
  <2>2. request[q].owner \in Owners
    BY RequestFields DEF Typed, TypeOK, Asked
  <2> QED
    BY <1>1, <2>1, <2>2 DEF Steady, Known, Spent
<1>5. Uploaded'
  BY DEF Kept, Uploaded, Gone, Spent
<1>6. ASSUME NEW r \in Requests, request'[r].at = "drop" PROVE Gone(request[r].seen.key)'
  <2>1. request[r].at = "drop" /\ request[r].seen # None /\ request[r].seen.key \in Requests
    BY <1>6, KeysAreUploads DEF Typed, Asked
  <2>2. Gone(request[r].seen.key)
    BY <2>1 DEF Kept, DroppedAreGone
  <2> QED
    BY <1>1, <2>1, <2>2 DEF Steady, Gone, Spent
<1> QED
  BY <1>1, <1>2, <1>3, <1>4, <1>5, <1>6

LEMMA CleanKept ==
  ASSUME Typed, Typed', Kept, NEW c \in Crons, Clean(c) \/ LoseObject(c) \/ FailCleanup(c)
  PROVE  Kept'
<1>1. request' = request /\ \A d \in Crons \ {c} : job'[d] = job[d]
  BY DEF Typed, TypeOK, Clean, StartCleanup, CleanRow, CleanObject, LoseObject, FailCleanup
<1>2. CASE StartCleanup(c)
  <2>1. row' = row /\ bucket' = bucket
    BY <1>2 DEF StartCleanup
  <2>2. Steady /\ RowsHaveObjects' /\ RowsKnown' /\ SeenKnown' /\ Uploaded'
        /\ \A r \in Requests : (request[r].at = "drop" => Gone(request[r].seen.key))'
    BY <1>1, <2>1, QuietKept
  <2>3. /\ job'[c].at = "row"
        /\ job'[c].todo = {[owner |-> o, id |-> row[o].id, key |-> row[o].key] : o \in Listed(c)}
    BY <1>2 DEF StartCleanup, Typed, TypeOK
  <2>4. \A o \in Listed(c) : o \in Owners /\ row[o] # None
    BY DEF Listed, Stale, Owners
  <2>5. ListedKnown'
    <3>1. ASSUME NEW x \in job'[c].todo PROVE Known(x.owner, x)'
      BY <1>1, <2>1, <2>3, <2>4, <3>1 DEF Kept, RowsKnown, Known, Spent
    <3>2. ASSUME NEW d \in Crons \ {c}, NEW x \in job'[d].todo PROVE Known(x.owner, x)'
      BY <1>1, <2>1, <3>2 DEF Kept, ListedKnown, Known, Spent
    <3> QED
      BY <3>1, <3>2 DEF ListedKnown
  <2>6. DroppedAreGone'
    BY <1>1, <2>1, <2>2, <2>3 DEF Kept, DroppedAreGone, Gone, Spent
  <2> QED
    BY <2>2, <2>5, <2>6 DEF Kept
<1>3. CASE CleanRow(c)
  <2>1. PICK x \in job[c].todo :
          /\ row' = RowsWithout(x.owner, x.id)
          /\ job' = [job EXCEPT ![c] = [at |-> "object", todo |-> @.todo \ {x}, current |-> x]]
    BY <1>3 DEF CleanRow
  <2>2. x.owner \in Owners /\ x.key \in Requests /\ Known(x.owner, x)
    BY KeysAreUploads DEF Kept, ListedKnown
  <2>3. /\ \A o \in Owners : row'[o] # None => row[o] # None /\ row'[o] = row[o]
        /\ bucket' = bucket
    BY <1>3, <2>1, <2>2, RowsWithoutTyped DEF Typed, TypeOK, CleanRow
  <2>4. Steady /\ RowsHaveObjects' /\ RowsKnown' /\ SeenKnown' /\ Uploaded'
        /\ \A r \in Requests : (request[r].at = "drop" => Gone(request[r].seen.key))'
    BY <1>1, <2>3, QuietKept
  <2>5. job'[c].at = "object" /\ job'[c].current = x /\ job'[c].todo = job[c].todo \ {x}
    BY <2>1 DEF Typed, TypeOK
  <2>6. Gone(x.key)'
    BY <2>1, <2>2, <2>4, RemovedIsGone DEF Kept
  <2>7. ListedKnown'
    <3> SUFFICES ASSUME NEW d \in Crons, NEW y \in job'[d].todo PROVE Known(y.owner, y)'
      BY DEF ListedKnown
    <3>1. y \in job[d].todo
      BY <1>1, <2>5
    <3> QED
      BY <2>4, <3>1, KeysAreUploads DEF Kept, ListedKnown, Known, Steady
  <2>8. DroppedAreGone'
    <3>1. ASSUME NEW d \in Crons, job'[d].at = "object" PROVE Gone(job[d].current.key)'
      <4>1. CASE d = c
        BY <2>5, <2>6, <4>1 DEF Gone, Spent
      <4>2. CASE d # c
        BY <1>1, <2>4, <3>1, <4>2, KeysAreUploads DEF Kept, DroppedAreGone, Gone, Steady, Spent
      <4> QED
        BY <4>1, <4>2
    <3> QED
      BY <2>4, <3>1 DEF DroppedAreGone
  <2> QED
    BY <2>4, <2>7, <2>8 DEF Kept
<1>4. CASE CleanObject(c) \/ LoseObject(c) \/ FailCleanup(c)
  <2>1. row' = row
    BY <1>4 DEF CleanObject, LoseObject, FailCleanup
  <2>2. \A q \in bucket : q \in bucket' \/ Gone(q)
    BY <1>4 DEF CleanObject, LoseObject, FailCleanup, WithoutObject, Kept, DroppedAreGone
  <2>3. Steady /\ RowsHaveObjects' /\ RowsKnown' /\ SeenKnown' /\ Uploaded'
        /\ \A r \in Requests : (request[r].at = "drop" => Gone(request[r].seen.key))'
    BY <1>1, <2>1, <2>2, QuietKept
  <2>4. job'[c].at # "object" /\ \A x \in job'[c].todo : x \in job[c].todo
    <3>1. CASE CleanObject(c) \/ LoseObject(c)
      BY <3>1, NextOfIsJob DEF CleanObject, LoseObject, Typed, TypeOK
    <3>2. CASE FailCleanup(c)
      BY <3>2, NoJobIsJob DEF FailCleanup, Typed, TypeOK
    <3> QED
      BY <1>4, <3>1, <3>2
  <2>5. ListedKnown'
    <3> SUFFICES ASSUME NEW d \in Crons, NEW y \in job'[d].todo PROVE Known(y.owner, y)'
      BY DEF ListedKnown
    <3>1. y \in job[d].todo
      BY <1>1, <2>4
    <3> QED
      BY <2>3, <3>1, KeysAreUploads DEF Kept, ListedKnown, Known, Steady
  <2>6. DroppedAreGone'
    BY <1>1, <2>1, <2>3, <2>4 DEF Kept, DroppedAreGone, Gone, Spent
  <2> QED
    BY <2>3, <2>5, <2>6 DEF Kept
<1> QED
  BY <1>2, <1>3, <1>4 DEF Clean

LEMMA CalendarKept ==
  ASSUME Typed, Typed', Kept, (\E o \in Labels : Close(o)) \/ TwoWeeks \/ Restart
  PROVE  Kept'
<1>1. \A q \in Requests :
        /\ request'[q].owner = request[q].owner /\ request'[q].seen = request[q].seen
        /\ request'[q].at = request[q].at \/ (request[q].at # "idle" /\ request'[q].at = "done")
  <2>1. CASE Restart
    BY <2>1 DEF Restart, Active, Typed, TypeOK, Request
  <2>2. CASE ~Restart
    BY <2>2 DEF Close, TwoWeeks
  <2> QED
    BY <2>1, <2>2
<1>2. \A o \in Owners : row'[o] # None =>
        row[o] # None /\ row'[o].key = row[o].key /\ row'[o].id = row[o].id
  BY DEF Close, TwoWeeks, Restart, Typed, TypeOK, Row
<1>3. bucket' = bucket
  BY DEF Close, TwoWeeks, Restart
<1>4. Steady /\ RowsHaveObjects' /\ RowsKnown' /\ SeenKnown' /\ Uploaded'
      /\ \A r \in Requests : (request[r].at = "drop" => Gone(request[r].seen.key))'
  BY <1>1, <1>2, <1>3, QuietKept
<1>5. \A c \in Crons : job'[c] \in {job[c], NoJob}
  BY DEF Close, TwoWeeks, Restart, Typed, TypeOK
<1>6. ListedKnown'
  BY <1>4, <1>5, NoJobIsJob, KeysAreUploads DEF Kept, ListedKnown, Known, Steady
<1>7. DroppedAreGone'
  BY <1>4, <1>5, NoJobIsJob, KeysAreUploads DEF Kept, DroppedAreGone, Gone, Steady
<1> QED
  BY <1>4, <1>6, <1>7 DEF Kept

LEMMA KeptNext == Typed /\ Typed' /\ Kept /\ [Next]_vars => Kept'
<1> SUFFICES ASSUME Typed, Typed', Kept, [Next]_vars PROVE Kept'
  OBVIOUS
<1>1. CASE UNCHANGED vars
  BY <1>1 DEF vars, Kept, RowsHaveObjects, RowsKnown, SeenKnown, ListedKnown, DroppedAreGone,
              Uploaded, Known, Gone, Spent
<1>2. ASSUME NEW r \in Requests, Ask(r) \/ Step(r) \/ Fail(r) PROVE Kept'
  BY <1>2, ReadingKept, WriteKept, RemoveKept, DropKept DEF Step
<1>3. ASSUME NEW c \in Crons, Clean(c) \/ LoseObject(c) \/ FailCleanup(c) PROVE Kept'
  BY <1>3, CleanKept
<1>4. CASE (\E o \in Labels : Close(o)) \/ TwoWeeks \/ Restart
  BY <1>4, CalendarKept
<1> QED
  BY <1>1, <1>2, <1>3, <1>4 DEF Next

(* "A failed delete can never leave the row pointing at nothing" (StoredFiles!RowsHaveObjects;
   organization.service.ts:1157-1159, shipment.service.ts:851-853), for any number of uploads,
   removals and clean-ups that overlap as they like, fail at any step and restart. *)
THEOREM RowsKeepObjects == Spec => []RowsHaveObjects
<1>1. Kept => RowsHaveObjects
  BY DEF Kept
<1> QED
  BY <1>1, TypedInit, TypedNext, KeptInit, KeptNext, PTL DEF Spec

-----------------------------------------------------------------------------
(* Nothing drifts where nothing overlaps and nothing fails.  Of an owner that is not
   Overlapping one request works, or one pass, and not both; so what it has read of the row
   is the row until it writes it, and the object it replaces or removes is in its hand. *)

Quiet == Owners \ Overlapping

\* The rows a pass has listed, the one it is at included.
Held(c) == job[c].todo \cup ({job[c].current} \ {None})

OneRequest ==
  \A p, q \in Requests : p # q /\ Active(p) /\ Active(q) /\ request[p].owner = request[q].owner =>
    request[p].owner \in Overlapping
RequestOrPass ==
  \A r \in Requests : Active(r) => \A c \in Crons : \A x \in Held(c) :
    x.owner = request[r].owner => x.owner \in Overlapping
OnePass ==
  \A c, d \in Crons : \A x \in Held(c), y \in Held(d) :
    x.owner = y.owner /\ (c # d \/ x # y) => x.owner \in Overlapping

Alone == OneRequest /\ RequestOrPass /\ OnePass

\* What a request has read of the row is the row, and save() finds it if there is one.
Reads(q) ==
  q.at \in {"put", "find", "write", "remove"} /\ q.owner \in Quiet =>
    /\ row[q.owner] = q.seen
    /\ q.at = "write" => (q.found <=> q.seen # None)
ReadStands == \A r \in Requests : Reads(request[r])

\* What a pass has listed is there.
Lists(x) == x.owner \in Quiet => row[x.owner] # None /\ row[x.owner].id = x.id /\ row[x.owner].key = x.key
ListStands == \A c \in Crons : \A x \in job[c].todo : Lists(x)

\* Objects are of uploads that have put them.
PutByUploads == \A k \in bucket : request[k].at \notin {"idle", "set", "unset", "put"}

\* The object k is in somebody's hand, or is its owner's current one.
Pending(k) ==
  \/ request[k].at \in {"find", "write"}
  \/ \E q \in Requests : request[q].at = "drop" /\ request[q].seen.key = k
  \/ \E c \in Crons : job[c].at = "object" /\ job[c].current.key = k
InPlace(k) == row[request[k].owner] # None /\ row[request[k].owner].key = k
Accounted(k) == request[k].owner \in Overlapping \/ Pending(k) \/ InPlace(k)

AllAccounted == mishaps = 0 => \A k \in bucket : Accounted(k)

DriftInv == Alone /\ ReadStands /\ ListStands /\ PutByUploads /\ AllAccounted

LEMMA DriftInit == Init => DriftInv
<1> SUFFICES ASSUME Init PROVE DriftInv
  OBVIOUS
<1>1. \A r \in Requests : request[r].at = "idle" /\ ~Active(r)
  BY DEF Init, Active
<1>2. \A c \in Crons : job[c].todo = {} /\ Held(c) = {}
  BY DEF Init, NoJob, Held
<1>3. Alone
  BY <1>1, <1>2 DEF Alone, OneRequest, RequestOrPass, OnePass
<1>4. ReadStands /\ ListStands
  BY <1>1, <1>2 DEF ReadStands, ListStands, Reads
<1>5. bucket = {}
  BY DEF Init
<1> QED
  BY <1>3, <1>4, <1>5 DEF DriftInv, PutByUploads, AllAccounted

\* Whatever is listed has an owner.
LEMMA HeldIs ==
  ASSUME Typed, NEW c \in Crons, NEW x \in Held(c)
  PROVE  x \in Snapshot /\ x.owner \in Owners
<1>1. job[c] \in Job
  BY DEF Typed, TypeOK
<1>2. x \in Snapshot
  BY <1>1, JobFields DEF Held
<1> QED
  BY <1>2 DEF Snapshot

\* The step of a request that is being served leaves it alone with its owner, ...
LEMMA ServedAlone ==
  ASSUME Alone, NEW r \in Requests, Active(r), request'[r].owner = request[r].owner,
         \A q \in Requests \ {r} : request'[q] = request[q], job' = job
  PROVE  Alone'
<1>1. \A q \in Requests : Active(q)' => Active(q) /\ request'[q].owner = request[q].owner
  BY DEF Active
<1>2. OneRequest'
  BY <1>1 DEF Alone, OneRequest
<1>3. RequestOrPass' /\ OnePass'
  BY <1>1 DEF Alone, RequestOrPass, OnePass, Held
<1> QED
  BY <1>2, <1>3 DEF Alone

\* ... and writes no row that another has read.
LEMMA ServedStands ==
  ASSUME Typed, Alone, ReadStands, ListStands, NEW r \in Requests, Active(r),
         \A q \in Requests \ {r} : request'[q] = request[q], job' = job,
         \A o \in Owners : o # request[r].owner => row'[o] = row[o],
         Reads(request[r])'
  PROVE  ReadStands' /\ ListStands'
<1>1. ASSUME NEW q \in Requests PROVE Reads(request[q])'
  <2>1. CASE q # r /\ request[q].at \in {"put", "find", "write", "remove"} /\ request[q].owner \in Quiet
    <3>1. Active(q) /\ request[q].owner \in Owners
      BY <2>1 DEF Active, Quiet
    <3>2. request[q].owner # request[r].owner
      BY <2>1, <3>1 DEF Alone, OneRequest, Quiet
    <3>3. row'[request[q].owner] = row[request[q].owner]
      BY <3>1, <3>2
    <3>4. request'[q] = request[q]
      BY <2>1
    <3> QED
      BY <2>1, <3>3, <3>4 DEF ReadStands, Reads
  <2>2. CASE q # r /\ ~(request[q].at \in {"put", "find", "write", "remove"} /\ request[q].owner \in Quiet)
    BY <2>2 DEF Reads
  <2>3. CASE q = r
    BY <2>3
  <2> QED
    BY <2>1, <2>2, <2>3
<1>2. ASSUME NEW c \in Crons, NEW x \in job[c].todo, x.owner \in Quiet PROVE Lists(x)'
  <2>1. x \in Held(c)
    BY <1>2, KeysAreUploads DEF Held
  <2>2. x.owner \in Owners /\ x.owner # request[r].owner
    BY <1>2, <2>1 DEF Alone, RequestOrPass, Quiet
  <2> QED
    BY <1>2, <2>2 DEF ListStands, Lists
<1>3. ListStands'
  BY <1>2 DEF ListStands, Lists
<1> QED
  BY <1>1, <1>3 DEF ReadStands

LEMMA AskDrift ==
  ASSUME Typed, Typed', DriftInv, NEW r \in Requests, Ask(r)
  PROVE  DriftInv'
<1>1. PICK o \in Owners, task \in {"set", "unset"} :
        MayTouch(o) /\ Goto(r, [request[r] EXCEPT !.owner = o, !.at = task])
  BY DEF Ask
<1> DEFINE asking == [request[r] EXCEPT !.owner = o, !.at = task]
<1>2. asking.at = task /\ asking.owner = o
  BY DEF Typed, TypeOK, Request
<1>3. request' = [request EXCEPT ![r] = asking] /\ UNCHANGED <<row, bucket, job, mishaps>>
  BY <1>1 DEF Goto, Ask
<1> HIDE DEF asking
<1>4. /\ request'[r].at \in {"set", "unset"} /\ request'[r].owner = o /\ request[r].at = "idle"
      /\ \A q \in Requests \ {r} : request'[q] = request[q]
  BY <1>2, <1>3 DEF Typed, TypeOK, Ask
<1>5. \A q \in Requests \ {r} : Active(q)' <=> Active(q)
  BY <1>4 DEF Active
<1>6. \A c \in Crons : Held(c)' = Held(c)
  BY <1>3 DEF Held
<1>7. o \in Overlapping \/
        /\ \A q \in Requests : Active(q) => request[q].owner # o
        /\ \A c \in Crons : \A x \in Held(c) : x.owner # o
  <2>1. \A c \in Crons : \A x \in Held(c) : x \in job[c].todo \cup {job[c].current} /\ x # None
    BY KeysAreUploads DEF Held
  <2> QED
    BY <1>1, <2>1 DEF MayTouch, Busy
<1>8. OneRequest'
  BY <1>4, <1>5, <1>7 DEF DriftInv, Alone, OneRequest
<1>9. RequestOrPass'
  BY <1>4, <1>5, <1>6, <1>7 DEF DriftInv, Alone, RequestOrPass
<1>10. OnePass'
  BY <1>6 DEF DriftInv, Alone, OnePass
<1>11. ReadStands'
  BY <1>3, <1>4 DEF DriftInv, ReadStands, Reads
<1>12. ListStands'
  BY <1>3 DEF DriftInv, ListStands, Lists
<1>13. r \notin bucket
  BY <1>4 DEF DriftInv, PutByUploads
<1>14. PutByUploads'
  BY <1>3, <1>4, <1>13 DEF DriftInv, PutByUploads, Typed, TypeOK
<1>15. AllAccounted'
  <2> SUFFICES ASSUME mishaps = 0, NEW k \in bucket PROVE Accounted(k)'
    BY <1>3 DEF AllAccounted
  <2>1. k \in Requests /\ k # r /\ Accounted(k)
    BY <1>13 DEF DriftInv, AllAccounted, Typed, TypeOK
  <2>2. request'[k] = request[k]
    BY <1>4, <2>1
  <2>3. Pending(k) => Pending(k)'
    BY <1>3, <1>4, <2>2 DEF Pending
  <2>4. InPlace(k) => InPlace(k)'
    BY <1>3, <2>2 DEF InPlace
  <2> QED
    BY <2>1, <2>2, <2>3, <2>4 DEF Accounted
<1> QED
  BY <1>8, <1>9, <1>10, <1>11, <1>12, <1>14, <1>15 DEF DriftInv, Alone

\* An object that somebody else accounts for is accounted for still.
LEMMA OthersAccounted ==
  ASSUME NEW r \in Requests, NEW k \in Requests \ {r}, Accounted(k),
         \A q \in Requests \ {r} : request'[q] = request[q], job' = job,
         InPlace(k) => InPlace(k)' \/ Pending(k)' \/ request[k].owner \in Overlapping,
         request[r].at = "drop" => request[r].seen.key # k
  PROVE  Accounted(k)'
<1>1. request'[k] = request[k]
  OBVIOUS
<1>2. Pending(k) => Pending(k)'
  BY <1>1 DEF Pending
<1> QED
  BY <1>1, <1>2 DEF Accounted

\* The steps of a request that write no row.
LEMMA ReadingDrift ==
  ASSUME Typed, Typed', DriftInv, NEW r \in Requests, Look(r) \/ Put(r) \/ Find(r)
  PROVE  DriftInv'
<1>1. /\ UNCHANGED <<row, job, mishaps>> /\ \A q \in Requests \ {r} : request'[q] = request[q]
      /\ bucket \subseteq bucket' /\ bucket' \subseteq bucket \cup {r}
  BY DEF Typed, TypeOK, Look, Put, Find, Goto, WithUpload
<1>2. request'[r].owner = request[r].owner /\ request[r].at \in {"set", "unset", "put", "find"}
  BY LookFields, PutFields, FindFields
<1>3. Active(r)
  BY <1>2 DEF Active
<1>4. Alone'
  BY <1>1, <1>2, <1>3, ServedAlone DEF DriftInv
<1>5. Reads(request[r])'
  <2>1. CASE Look(r)
    <3>1. request'[r].at # "write" /\ request'[r].seen = row[request[r].owner]
      BY <2>1, LookFields
    <3> QED
      BY <1>1, <1>2, <3>1 DEF Reads
  <2>2. CASE Put(r)
    <3>1. /\ request'[r].seen = request[r].seen /\ request[r].at = "put"
          /\ request'[r].at = IF request[r].seen = None THEN "write" ELSE "find"
          /\ request'[r].found = request[r].found /\ ~request[r].found
      BY <2>2 DEF Typed, TypeOK, Asked, Request, Put, Goto
    <3> QED
      BY <1>1, <1>2, <3>1 DEF DriftInv, ReadStands, Reads
  <2>3. CASE Find(r)
    <3>1. /\ request'[r].seen = request[r].seen /\ request[r].at = "find" /\ request[r].seen # None
          /\ request'[r].found =
               (row[request[r].owner] # None /\ row[request[r].owner].id = request[r].seen.id)
      <4>1. request[r].at = "find" /\ request'[r].seen = request[r].seen /\ request[r].seen # None
        BY <2>3, FindFields DEF Typed, Asked
      <4>2. request[r] \in Request
        BY DEF Typed, TypeOK
      <4>3. request' = [request EXCEPT ![r] = [request[r] EXCEPT !.at = "write", !.found =
                row[request[r].owner] # None /\ row[request[r].owner].id = request[r].seen.id]]
        BY <2>3 DEF Find, Goto
      <4>4. DOMAIN request = Requests
        BY DEF Typed, TypeOK
      <4> QED
        BY <4>1, <4>2, <4>3, <4>4 DEF Request
    <3> QED
      BY <1>1, <1>2, <3>1 DEF DriftInv, ReadStands, Reads
  <2> QED
    BY <2>1, <2>2, <2>3
<1>6. ReadStands' /\ ListStands'
  BY <1>1, <1>3, <1>5, ServedStands DEF DriftInv
<1>7. r \in bucket' => request'[r].at \in {"find", "write"}
  <2>1. CASE Look(r)
    BY <2>1, LookFields DEF DriftInv, PutByUploads, Look
  <2>2. CASE Put(r) \/ Find(r)
    BY <2>2, PutFields, FindFields
  <2> QED
    BY <2>1, <2>2
<1>8. PutByUploads'
  BY <1>1, <1>7 DEF DriftInv, PutByUploads, Typed, TypeOK
<1>9. AllAccounted'
  <2> SUFFICES ASSUME mishaps = 0, NEW k \in bucket' PROVE Accounted(k)'
    BY <1>1 DEF AllAccounted
  <2>1. CASE k = r
    BY <1>7, <2>1 DEF Accounted, Pending
  <2>2. CASE k # r
    <3>1. k \in Requests \ {r} /\ Accounted(k)
      BY <1>1, <2>2 DEF DriftInv, AllAccounted, Typed, TypeOK
    <3>2. request'[k] = request[k]
      BY <1>1, <3>1
    <3>3. InPlace(k) => InPlace(k)'
      BY <1>1, <3>2 DEF InPlace
    <3> QED
      BY <1>1, <1>2, <3>1, <3>3, OthersAccounted
  <2> QED
    BY <2>1, <2>2
<1> QED
  BY <1>4, <1>6, <1>8, <1>9 DEF DriftInv

LEMMA WriteFields ==
  ASSUME Typed, NEW r \in Requests, Write(r)
  PROVE  /\ request[r].at = "write" /\ request'[r].at \in {"drop", "done"}
         /\ request'[r].owner = request[r].owner /\ request'[r].seen = request[r].seen
         /\ \A q \in Requests \ {r} : request'[q] = request[q]
         /\ UNCHANGED <<bucket, job, mishaps>>
         /\ \A o \in Owners : o # request[r].owner => row'[o] = row[o]
         /\ request[r].owner \in Owners
  BY DEF Typed, TypeOK, Asked, Request, Write, Goto

\* The row of a quiet owner points at the upload, and the object it pointed at is to be dropped.
LEMMA WritesInPlace ==
  ASSUME Typed, NEW r \in Requests, Write(r), Reads(request[r]), request[r].owner \in Quiet
  PROVE  /\ row'[request[r].owner] # None /\ row'[request[r].owner].key = r
         /\ row[request[r].owner] = request[r].seen
         /\ request[r].seen # None => request'[r].at = "drop"
<1>1. PICK o \in Owners : o = request[r].owner
  BY WriteFields
<1>2. row[o] = request[r].seen /\ (request[r].found <=> request[r].seen # None)
  BY <1>1, WriteFields DEF Reads
<1>3. request[r].seen # None => request'[r].at = "drop"
  BY <1>2 DEF Write, Goto, Typed, TypeOK, Request
<1>4. CASE request[r].seen = None
  <2>1. row' = [row EXCEPT ![o] = Inserted(r)]
    BY <1>1, <1>2, <1>4 DEF Write
  <2>2. Inserted(r) \in Row /\ Inserted(r).key = r
    BY <1>4 DEF Inserted, Row
  <2> QED
    BY <1>1, <1>2, <1>3, <2>1, <2>2, NullAssumption DEF Typed, TypeOK
<1>5. CASE request[r].seen # None
  <2>1. row' = [row EXCEPT ![o] = Updated(r)]
    BY <1>1, <1>2, <1>5 DEF Write
  <2>2. row[o] \in Row
    BY <1>2, <1>5 DEF Typed, TypeOK
  <2>3. Updated(r) \in Row /\ Updated(r).key = r
    BY <1>1, <1>2, <1>5, <2>2 DEF Updated, Row
  <2> QED
    BY <1>1, <1>2, <1>3, <2>1, <2>3, NullAssumption DEF Typed, TypeOK
<1> QED
  BY <1>4, <1>5

LEMMA WriteDrift ==
  ASSUME Typed, Typed', DriftInv, NEW r \in Requests, Write(r)
  PROVE  DriftInv'
<1>1. Active(r)
  BY WriteFields DEF Active
<1>2. Alone'
  BY <1>1, WriteFields, ServedAlone DEF DriftInv
<1>3. Reads(request[r])'
  BY WriteFields DEF Reads
<1>4. ReadStands' /\ ListStands'
  BY <1>1, <1>3, WriteFields, ServedStands DEF DriftInv
<1>5. PutByUploads'
  BY WriteFields DEF DriftInv, PutByUploads, Typed, TypeOK
<1>6. AllAccounted'
  <2> SUFFICES ASSUME mishaps = 0, NEW k \in bucket PROVE Accounted(k)'
    BY WriteFields DEF AllAccounted
  <2>1. k \in Requests /\ Accounted(k) /\ request'[k].owner = request[k].owner
    BY WriteFields DEF DriftInv, AllAccounted, Typed, TypeOK
  <2>2. CASE request[r].owner \in Overlapping /\ k = r
    BY <2>1, <2>2 DEF Accounted
  <2>3. CASE request[r].owner \notin Overlapping
    <3>1. request[r].owner \in Quiet /\ Reads(request[r])
      BY <2>3, WriteFields DEF Quiet, DriftInv, ReadStands
    <3>2. /\ row'[request[r].owner] # None /\ row'[request[r].owner].key = r
          /\ row[request[r].owner] = request[r].seen
          /\ request[r].seen # None => request'[r].at = "drop"
      BY <3>1, WritesInPlace
    <3>3. CASE k = r
      BY <2>1, <3>2, <3>3 DEF Accounted, InPlace
    <3>4. CASE k # r
      <4>1. request'[k] = request[k] /\ k \in Requests \ {r}
        BY <2>1, <3>4, WriteFields
      <4>2. ASSUME InPlace(k), request[k].owner \in Quiet PROVE InPlace(k)' \/ Pending(k)'
        <5>1. CASE request[k].owner = request[r].owner
          <6>1. request'[r].at = "drop" /\ request'[r].seen.key = k
            BY <3>2, <4>2, <5>1, WriteFields DEF InPlace
          <6> QED
            BY <6>1 DEF Pending
        <5>2. CASE request[k].owner # request[r].owner
          BY <4>1, <4>2, <5>2, WriteFields DEF InPlace, Quiet
        <5> QED
          BY <5>1, <5>2
      <4>3. request[k].owner \in Owners
        BY <2>1, WriteFields DEF Typed, Asked, DriftInv, PutByUploads
      <4> QED
        BY <2>1, <4>1, <4>2, <4>3, WriteFields, OthersAccounted DEF Quiet
    <3> QED
      BY <3>3, <3>4
  <2>4. CASE request[r].owner \in Overlapping /\ k # r
    <3>1. request'[k] = request[k] /\ k \in Requests \ {r} /\ request[k].owner \in Owners
      BY <2>1, <2>4, WriteFields DEF Typed, Asked, DriftInv, PutByUploads
    <3>2. InPlace(k) => InPlace(k)' \/ request[k].owner \in Overlapping
      BY <2>4, <3>1, WriteFields DEF InPlace
    <3> QED
      BY <2>1, <3>1, <3>2, WriteFields, OthersAccounted
  <2> QED
    BY <2>2, <2>3, <2>4
<1> QED
  BY <1>2, <1>4, <1>5, <1>6 DEF DriftInv

LEMMA RemoveDrift ==
  ASSUME Typed, Typed', DriftInv, NEW r \in Requests, Remove(r)
  PROVE  DriftInv'
<1>1. /\ request[r].at = "remove" /\ request'[r].at = "drop"
      /\ request'[r].owner = request[r].owner /\ request'[r].seen = request[r].seen
      /\ \A q \in Requests \ {r} : request'[q] = request[q]
      /\ UNCHANGED <<bucket, job, mishaps>>
  BY DEF Typed, TypeOK, Request, Remove, Goto
<1>2. /\ row' = RowsWithout(request[r].owner, request[r].seen.id)
      /\ request[r].owner \in Owners /\ request[r].seen # None
  BY DEF Remove, Typed, Asked
<1>3. \A o \in Owners : o # request[r].owner => row'[o] = row[o]
  BY <1>2 DEF RowsWithout, Typed, TypeOK
<1>4. Active(r)
  BY <1>1 DEF Active
<1>5. Alone'
  BY <1>1, <1>4, ServedAlone DEF DriftInv
<1>6. Reads(request[r])'
  BY <1>1 DEF Reads
<1>7. ReadStands' /\ ListStands'
  BY <1>1, <1>3, <1>4, <1>6, ServedStands DEF DriftInv
<1>8. PutByUploads'
  BY <1>1 DEF DriftInv, PutByUploads, Typed, TypeOK
<1>9. AllAccounted'
  <2> SUFFICES ASSUME mishaps = 0, NEW k \in bucket PROVE Accounted(k)'
    BY <1>1 DEF AllAccounted
  <2>1. k \in Requests /\ Accounted(k)
    BY <1>1 DEF DriftInv, AllAccounted, Typed, TypeOK
  <2>2. ASSUME InPlace(k), request[k].owner \in Quiet PROVE InPlace(k)' \/ Pending(k)'
    <3>1. CASE request[k].owner = request[r].owner
      <4>1. request[r].seen = row[request[r].owner]
        BY <1>1, <2>2, <3>1 DEF DriftInv, ReadStands, Reads
      <4>2. request'[r].at = "drop" /\ request'[r].seen.key = k
        BY <1>1, <2>2, <3>1, <4>1 DEF InPlace
      <4> QED
        BY <4>2 DEF Pending
    <3>2. CASE request[k].owner # request[r].owner
      <4>1. request'[k].owner = request[k].owner
        BY <1>1, <2>1
      <4> QED
        BY <1>3, <2>2, <3>2, <4>1 DEF InPlace, Quiet
    <3> QED
      BY <3>1, <3>2
  <2>3. request[k].owner \in Owners
    BY <2>1 DEF Typed, Asked, DriftInv, PutByUploads
  <2>4. CASE k # r
    BY <1>1, <2>1, <2>2, <2>3, <2>4, OthersAccounted DEF Quiet
  <2>5. CASE k = r
    <3>1. Pending(k) => Pending(k)'
      BY <1>1, <2>5 DEF Pending
    <3> QED
      BY <1>1, <2>1, <2>2, <2>3, <2>5, <3>1 DEF Accounted, Quiet
  <2> QED
    BY <2>4, <2>5
<1> QED
  BY <1>5, <1>7, <1>8, <1>9 DEF DriftInv

LEMMA DropDrift ==
  ASSUME Typed, Typed', DriftInv, NEW r \in Requests, Drop(r)
  PROVE  DriftInv'
<1>1. /\ request[r].at = "drop" /\ request'[r].at = "done"
      /\ request'[r].owner = request[r].owner /\ request'[r].seen = request[r].seen
      /\ \A q \in Requests \ {r} : request'[q] = request[q]
      /\ UNCHANGED <<row, job, mishaps>> /\ bucket' = bucket \ {request[r].seen.key}
  BY DEF Typed, TypeOK, Request, Drop, Goto, WithoutObject
<1>2. Active(r)
  BY <1>1 DEF Active
<1>3. Alone'
  BY <1>1, <1>2, ServedAlone DEF DriftInv
<1>4. Reads(request[r])'
  BY <1>1 DEF Reads
<1>5. ReadStands' /\ ListStands'
  BY <1>1, <1>2, <1>4, ServedStands DEF DriftInv
<1>6. PutByUploads'
  BY <1>1 DEF DriftInv, PutByUploads, Typed, TypeOK
<1>7. AllAccounted'
  <2> SUFFICES ASSUME mishaps = 0, NEW k \in bucket, k # request[r].seen.key PROVE Accounted(k)'
    BY <1>1 DEF AllAccounted
  <2>1. k \in Requests /\ Accounted(k) /\ request'[k].owner = request[k].owner
    BY <1>1 DEF DriftInv, AllAccounted, Typed, TypeOK
  <2>2. InPlace(k) => InPlace(k)'
    BY <1>1, <2>1 DEF InPlace
  <2>3. Pending(k) => Pending(k)'
    BY <1>1, <2>1 DEF Pending
  <2> QED
    BY <2>1, <2>2, <2>3 DEF Accounted
<1> QED
  BY <1>3, <1>5, <1>6, <1>7 DEF DriftInv

\* A mishap: whoever it stops has nothing any more, and no row changes.
LEMMA MishapDrift ==
  ASSUME Typed, DriftInv, Mishap, UNCHANGED <<row, bucket>>,
         \A q \in Requests : request'[q] = request[q] \/
           (/\ Active(q) /\ request'[q].at = "done" /\ request'[q].owner = request[q].owner),
         \A c \in Crons : Held(c)' \subseteq Held(c) /\ job'[c].todo \subseteq job[c].todo
  PROVE  DriftInv'
<1>1. \A q \in Requests : Active(q)' => Active(q) /\ request'[q] = request[q]
  BY DEF Active
<1>2. OneRequest'
  BY <1>1 DEF DriftInv, Alone, OneRequest
<1>3. RequestOrPass'
  BY <1>1 DEF DriftInv, Alone, RequestOrPass
<1>4. OnePass'
  BY DEF DriftInv, Alone, OnePass
<1>5. ReadStands'
  BY DEF DriftInv, ReadStands, Reads
<1>6. ListStands'
  BY DEF DriftInv, ListStands, Lists
<1>7. PutByUploads'
  BY DEF DriftInv, PutByUploads, Typed, TypeOK
<1>8. mishaps' # 0
  BY DEF Mishap, Typed, TypeOK
<1> QED
  BY <1>2, <1>3, <1>4, <1>5, <1>6, <1>7, <1>8 DEF DriftInv, Alone, AllAccounted

LEMMA FailDrift ==
  ASSUME Typed, DriftInv, NEW r \in Requests, Fail(r)
  PROVE  DriftInv'
<1>1. Mishap /\ UNCHANGED <<row, bucket, job>> /\ Active(r)
  BY DEF Fail
<1>2. request'[r].at = "done" /\ request'[r].owner = request[r].owner
  BY FailFields
<1>3. \A q \in Requests \ {r} : request'[q] = request[q]
  BY DEF Fail, Goto, Typed, TypeOK
<1>4. \A c \in Crons : Held(c)' \subseteq Held(c) /\ job'[c].todo \subseteq job[c].todo
  BY <1>1 DEF Held
<1>5. \A q \in Requests : request'[q] = request[q] \/
        (/\ Active(q) /\ request'[q].at = "done" /\ request'[q].owner = request[q].owner)
  BY <1>1, <1>2, <1>3
<1> QED
  BY <1>1, <1>4, <1>5, MishapDrift

LEMMA NoJobHolds ==
  ASSUME NEW c \in Crons, job'[c] = NoJob
  PROVE  Held(c)' = {} /\ job'[c].todo = {}
  BY NoJobIsJob DEF Held

LEMMA NextOfHolds ==
  ASSUME Typed, NEW c \in Crons, job'[c] = NextOf(job[c])
  PROVE  Held(c)' \subseteq Held(c) /\ job'[c].todo \subseteq job[c].todo
         /\ job'[c].at # "object"
<1>1. job[c] \in Job
  BY DEF Typed, TypeOK
<1>2. job'[c].todo = job[c].todo /\ job'[c].current = None /\ job'[c].at # "object"
  BY <1>1, NextOfIsJob
<1> QED
  BY <1>2 DEF Held

\* Where the pass that stops, or goes on after a delete that failed, has nothing new.
LEMMA StoppedDrift ==
  ASSUME Typed, DriftInv, (\E c \in Crons : LoseObject(c) \/ FailCleanup(c)) \/ Restart
  PROVE  DriftInv'
<1>1. Mishap /\ UNCHANGED <<row, bucket>>
  BY DEF LoseObject, FailCleanup, Restart
<1>2. \A q \in Requests : request'[q] = request[q] \/
        (/\ Active(q) /\ request'[q].at = "done" /\ request'[q].owner = request[q].owner)
  BY DEF LoseObject, FailCleanup, Restart, Typed, TypeOK, Request
<1>3. \A c \in Crons : job'[c] = job[c] \/ job'[c] = NoJob \/ job'[c] = NextOf(job[c])
  BY DEF LoseObject, FailCleanup, Restart, Typed, TypeOK
<1>4. ASSUME NEW c \in Crons PROVE Held(c)' \subseteq Held(c) /\ job'[c].todo \subseteq job[c].todo
  <2>1. CASE job'[c] = job[c]
    BY <2>1 DEF Held
  <2>2. CASE job'[c] = NoJob
    BY <2>2, NoJobHolds
  <2>3. CASE job'[c] = NextOf(job[c])
    BY <2>3, NextOfHolds
  <2> QED
    BY <1>3, <2>1, <2>2, <2>3
<1> QED
  BY <1>1, <1>2, <1>4, MishapDrift

\* The shipments and the calendar touch nothing that somebody has in hand.
LEMMA CalendarDrift ==
  ASSUME Typed, Typed', DriftInv, (\E o \in Labels : Close(o)) \/ TwoWeeks
  PROVE  DriftInv'
<1>1. UNCHANGED <<bucket, request, job, mishaps>>
  BY DEF Close, TwoWeeks
<1>2. row' = row \/ ((\A r \in Requests : ~Active(r)) /\ (\A c \in Crons : job[c].at = "idle"))
  BY DEF Close, TwoWeeks
<1>3. \A o \in Owners : /\ row'[o] # None <=> row[o] # None
                        /\ row[o] # None => row'[o].key = row[o].key /\ row'[o].id = row[o].id
  <2>1. CASE TwoWeeks
    <3> SUFFICES ASSUME NEW o \in Owners
                 PROVE  /\ row'[o] # None <=> row[o] # None
                        /\ row[o] # None => row'[o].key = row[o].key /\ row'[o].id = row[o].id
      OBVIOUS
    <3>1. CASE row[o] = None
      BY <2>1, <3>1 DEF TwoWeeks
    <3>2. CASE row[o] # None
      <4>1. row[o] \in Row /\ row'[o] = [row[o] EXCEPT !.old = TRUE]
        BY <2>1, <3>2 DEF TwoWeeks, Typed, TypeOK
      <4>2. row'[o] \in Row /\ row'[o].key = row[o].key /\ row'[o].id = row[o].id
        BY <4>1 DEF Row
      <4> QED
        BY <3>2, <4>2, NullAssumption
    <3> QED
      BY <3>1, <3>2
  <2>2. CASE row' = row
    BY <2>2
  <2> QED
    BY <2>1, <2>2 DEF Close
<1>4. Alone'
  BY <1>1 DEF DriftInv, Alone, OneRequest, RequestOrPass, OnePass, Active, Held
<1>5. ReadStands'
  BY <1>1, <1>2 DEF DriftInv, ReadStands, Reads, Active
<1>6. ListStands'
  BY <1>1, <1>3, KeysAreUploads DEF DriftInv, ListStands, Lists
<1>7. PutByUploads'
  BY <1>1 DEF DriftInv, PutByUploads
<1>8. AllAccounted'
  <2> SUFFICES ASSUME mishaps = 0, NEW k \in bucket PROVE Accounted(k)'
    BY <1>1 DEF AllAccounted
  <2>1. k \in Requests /\ Accounted(k)
    BY <1>1 DEF DriftInv, AllAccounted, Typed, TypeOK
  <2>2. request[k].owner \in Owners
    BY <2>1 DEF Typed, Asked, DriftInv, PutByUploads
  <2>3. InPlace(k) => InPlace(k)'
    BY <1>1, <1>3, <2>2 DEF InPlace
  <2>4. Pending(k) => Pending(k)'
    BY <1>1 DEF Pending
  <2> QED
    BY <1>1, <2>1, <2>3, <2>4 DEF Accounted
<1> QED
  BY <1>4, <1>5, <1>6, <1>7, <1>8 DEF DriftInv

\* A pass lists rows of owners nobody is at, each once.
LEMMA ListingDrift ==
  ASSUME Typed, Typed', DriftInv, NEW c \in Crons, StartCleanup(c)
  PROVE  DriftInv'
<1>1. /\ UNCHANGED <<row, bucket, request, mishaps>> /\ \A d \in Crons \ {c} : job'[d] = job[d]
      /\ job[c].at = "idle" /\ job'[c].at = "row" /\ job'[c].current = None
      /\ job'[c].todo = {[owner |-> o, id |-> row[o].id, key |-> row[o].key] : o \in Listed(c)}
  BY DEF StartCleanup, Typed, TypeOK
<1>2. \A o \in Listed(c) : o \in Owners /\ row[o] # None /\ MayTouch(o)
  BY DEF StartCleanup, Listed, Stale, Owners
<1>3. Held(c)' = {[owner |-> o, id |-> row[o].id, key |-> row[o].key] : o \in Listed(c)}
  BY <1>1 DEF Held
<1>4. \A d \in Crons \ {c} : Held(d)' = Held(d)
  BY <1>1 DEF Held
<1>5. ASSUME NEW x \in Held(c)', x.owner \notin Overlapping
      PROVE  /\ \A r \in Requests : Active(r) => request[r].owner # x.owner
             /\ \A d \in Crons : \A y \in Held(d) : y.owner # x.owner
             /\ x = [owner |-> x.owner, id |-> row[x.owner].id, key |-> row[x.owner].key]
  <2>1. PICK o \in Listed(c) : x = [owner |-> o, id |-> row[o].id, key |-> row[o].key]
    BY <1>3
  <2>2. x.owner = o /\ ~Busy(o)
    BY <1>2, <1>5, <2>1 DEF MayTouch
  <2>3. \A d \in Crons : \A y \in Held(d) : y \in job[d].todo \cup {job[d].current} /\ y # None
    BY KeysAreUploads DEF Held
  <2> QED
    BY <2>1, <2>2, <2>3 DEF Busy
<1>6. OneRequest'
  BY <1>1 DEF DriftInv, Alone, OneRequest, Active
<1>7. RequestOrPass'
  <2> SUFFICES ASSUME NEW r \in Requests, Active(r), NEW d \in Crons, NEW x \in Held(d)',
                      x.owner = request[r].owner
               PROVE  x.owner \in Overlapping
    BY <1>1 DEF RequestOrPass, Active
  <2>1. CASE d = c
    BY <1>5, <2>1
  <2>2. CASE d # c
    BY <1>4, <2>2 DEF DriftInv, Alone, RequestOrPass
  <2> QED
    BY <2>1, <2>2
<1>8. OnePass'
  <2> SUFFICES ASSUME NEW d \in Crons, NEW e \in Crons, NEW x \in Held(d)', NEW y \in Held(e)',
                      x.owner = y.owner, d # e \/ x # y, x.owner \notin Overlapping
               PROVE  FALSE
    BY DEF OnePass
  <2>1. CASE d = c /\ e = c
    BY <1>5, <2>1
  <2>2. CASE d = c /\ e # c
    BY <1>4, <1>5, <2>2
  <2>3. CASE d # c /\ e = c
    BY <1>4, <1>5, <2>3
  <2>4. CASE d # c /\ e # c
    BY <1>4, <2>4 DEF DriftInv, Alone, OnePass
  <2> QED
    BY <2>1, <2>2, <2>3, <2>4
<1>9. ReadStands'
  BY <1>1 DEF DriftInv, ReadStands, Reads
<1>10. ListStands'
  <2>1. ASSUME NEW x \in job'[c].todo PROVE Lists(x)'
    BY <1>1, <1>2, <2>1 DEF Lists
  <2>2. ASSUME NEW d \in Crons \ {c}, NEW x \in job'[d].todo PROVE Lists(x)'
    BY <1>1, <2>2 DEF DriftInv, ListStands, Lists
  <2> QED
    BY <2>1, <2>2 DEF ListStands
<1>11. PutByUploads'
  BY <1>1 DEF DriftInv, PutByUploads
<1>12. AllAccounted'
  <2> SUFFICES ASSUME mishaps = 0, NEW k \in bucket PROVE Accounted(k)'
    BY <1>1 DEF AllAccounted
  <2>1. Accounted(k)
    BY DEF DriftInv, AllAccounted
  <2>2. Pending(k) => Pending(k)'
    BY <1>1 DEF Pending
  <2> QED
    BY <1>1, <2>1, <2>2 DEF Accounted, InPlace
<1> QED
  BY <1>6, <1>7, <1>8, <1>9, <1>10, <1>11, <1>12 DEF DriftInv, Alone

\* A pass takes a row, and has its object in hand.
LEMMA CleanRowDrift ==
  ASSUME Typed, Typed', DriftInv, NEW c \in Crons, CleanRow(c)
  PROVE  DriftInv'
<1>1. PICK x \in job[c].todo :
        /\ row' = RowsWithout(x.owner, x.id)
        /\ job' = [job EXCEPT ![c] = [at |-> "object", todo |-> @.todo \ {x}, current |-> x]]
  BY DEF CleanRow
<1>2. x # None /\ x.owner \in Owners /\ x \in Held(c) /\ job[c].at = "row"
  BY KeysAreUploads DEF Held, CleanRow
<1>3. /\ job'[c].at = "object" /\ job'[c].todo = job[c].todo \ {x} /\ job'[c].current = x
      /\ \A d \in Crons \ {c} : job'[d] = job[d]
      /\ UNCHANGED <<bucket, request, mishaps>>
  BY <1>1 DEF CleanRow, Typed, TypeOK
<1>4. /\ \A o \in Owners : o # x.owner => row'[o] = row[o]
      /\ \A o \in Owners : row'[o] \in {row[o], None}
  BY <1>1, <1>2 DEF RowsWithout, Typed, TypeOK
<1>5. \A d \in Crons : Held(d)' \subseteq Held(d)
  BY <1>2, <1>3 DEF Held
<1>6. OneRequest'
  BY <1>3 DEF DriftInv, Alone, OneRequest, Active
<1>7. RequestOrPass'
  BY <1>3, <1>5 DEF DriftInv, Alone, RequestOrPass, Active
<1>8. OnePass'
  BY <1>5 DEF DriftInv, Alone, OnePass
<1>9. ReadStands'
  <2> SUFFICES ASSUME NEW r \in Requests,
                      request[r].at \in {"put", "find", "write", "remove"}, request[r].owner \in Quiet
               PROVE  row'[request[r].owner] = row[request[r].owner]
    BY <1>3 DEF DriftInv, ReadStands, Reads
  <2>1. Active(r) /\ request[r].owner \in Owners
    BY DEF Active, Quiet
  <2>2. request[r].owner # x.owner
    BY <1>2, <2>1 DEF DriftInv, Alone, RequestOrPass, Quiet
  <2> QED
    BY <1>4, <2>1, <2>2
<1>10. ListStands'
  <2> SUFFICES ASSUME NEW d \in Crons, NEW y \in job'[d].todo, y.owner \in Quiet PROVE Lists(y)'
    BY DEF ListStands, Lists
  <2>1. y \in job[d].todo /\ (d # c \/ y # x)
    BY <1>3
  <2>2. y \in Held(d) /\ y.owner \in Owners
    BY <2>1, KeysAreUploads DEF Held
  <2>3. y.owner # x.owner
    BY <1>2, <2>1, <2>2 DEF DriftInv, Alone, OnePass, Quiet
  <2>4. row'[y.owner] = row[y.owner]
    BY <1>4, <2>2, <2>3
  <2> QED
    BY <2>1, <2>4 DEF DriftInv, ListStands, Lists
<1>11. PutByUploads'
  BY <1>3 DEF DriftInv, PutByUploads
<1>12. AllAccounted'
  <2> SUFFICES ASSUME mishaps = 0, NEW k \in bucket PROVE Accounted(k)'
    BY <1>3 DEF AllAccounted
  <2>1. Accounted(k) /\ k \in Requests
    BY DEF DriftInv, AllAccounted, Typed, TypeOK
  <2>2. request[k].owner \in Owners
    BY <2>1 DEF Typed, Asked, DriftInv, PutByUploads
  <2>3. Pending(k) => Pending(k)'
    BY <1>2, <1>3 DEF Pending
  <2>4. ASSUME InPlace(k), request[k].owner \in Quiet PROVE InPlace(k)' \/ Pending(k)'
    <3>1. CASE request[k].owner = x.owner
      <4>1. x.key = k
        BY <2>4, <3>1 DEF DriftInv, ListStands, Lists, InPlace
      <4> QED
        BY <1>3, <4>1 DEF Pending
    <3>2. CASE request[k].owner # x.owner
      BY <1>3, <1>4, <2>2, <2>4, <3>2 DEF InPlace
    <3> QED
      BY <3>1, <3>2
  <2> QED
    BY <1>3, <2>1, <2>2, <2>3, <2>4 DEF Accounted, Quiet
<1> QED
  BY <1>6, <1>7, <1>8, <1>9, <1>10, <1>11, <1>12 DEF DriftInv, Alone

LEMMA CleanObjectDrift ==
  ASSUME Typed, Typed', DriftInv, NEW c \in Crons, CleanObject(c)
  PROVE  DriftInv'
<1>1. /\ job[c].at = "object" /\ bucket' = bucket \ {job[c].current.key}
      /\ job'[c] = NextOf(job[c]) /\ \A d \in Crons \ {c} : job'[d] = job[d]
      /\ UNCHANGED <<row, request, mishaps>>
  BY DEF CleanObject, WithoutObject, Typed, TypeOK
<1>2. \A d \in Crons : Held(d)' \subseteq Held(d) /\ job'[d].todo \subseteq job[d].todo
  <2> SUFFICES ASSUME NEW d \in Crons PROVE Held(d)' \subseteq Held(d) /\ job'[d].todo \subseteq job[d].todo
    OBVIOUS
  <2>1. CASE d = c
    BY <1>1, <2>1, NextOfHolds
  <2>2. CASE d # c
    BY <1>1, <2>2 DEF Held
  <2> QED
    BY <2>1, <2>2
<1>3. Alone'
  BY <1>1, <1>2 DEF DriftInv, Alone, OneRequest, RequestOrPass, OnePass, Active
<1>4. ReadStands' /\ ListStands' /\ PutByUploads'
  BY <1>1, <1>2 DEF DriftInv, ReadStands, Reads, ListStands, Lists, PutByUploads
<1>5. AllAccounted'
  <2> SUFFICES ASSUME mishaps = 0, NEW k \in bucket, k # job[c].current.key PROVE Accounted(k)'
    BY <1>1 DEF AllAccounted
  <2>1. Accounted(k)
    BY DEF DriftInv, AllAccounted
  <2>2. Pending(k) => Pending(k)'
    BY <1>1 DEF Pending
  <2> QED
    BY <1>1, <2>1, <2>2 DEF Accounted, InPlace
<1> QED
  BY <1>3, <1>4, <1>5 DEF DriftInv

LEMMA DriftNext == Typed /\ Typed' /\ DriftInv /\ [Next]_vars => DriftInv'
<1> SUFFICES ASSUME Typed, Typed', DriftInv, [Next]_vars PROVE DriftInv'
  OBVIOUS
<1>1. CASE UNCHANGED vars
  BY <1>1 DEF vars, DriftInv, Alone, OneRequest, RequestOrPass, OnePass, Active, Held, ReadStands, Reads,
              ListStands, Lists, PutByUploads, AllAccounted, Accounted, Pending, InPlace
<1>2. ASSUME NEW r \in Requests, Ask(r) \/ Step(r) \/ Fail(r) PROVE DriftInv'
  BY <1>2, AskDrift, ReadingDrift, WriteDrift, RemoveDrift, DropDrift, FailDrift DEF Step
<1>3. ASSUME NEW c \in Crons, Clean(c) \/ LoseObject(c) \/ FailCleanup(c) PROVE DriftInv'
  BY <1>3, ListingDrift, CleanRowDrift, CleanObjectDrift, StoppedDrift DEF Clean
<1>4. CASE (\E o \in Labels : Close(o)) \/ TwoWeeks \/ Restart
  BY <1>4, CalendarDrift, StoppedDrift
<1> QED
  BY <1>1, <1>2, <1>3, <1>4 DEF Next

(* "So storage and DB never drift" (StoredFiles!NoDrift; credit-bill-cleanup.service.ts:6-11,
   shipment-label-cleanup.service.ts:5-11): as long as nothing fails, every object of an owner
   whose requests and clean-ups do not overlap is the one its row points at, or in the hand of
   the request or pass that replaces or removes it. *)
THEOREM NothingDrifts == Spec => []NoDrift
<1>1. Typed /\ DriftInv => NoDrift
  <2> SUFFICES ASSUME Typed, DriftInv, mishaps = 0, NEW k \in bucket, request[k].owner \notin Overlapping
               PROVE  k \in InHand(request[k].owner) \/ InPlace(k)
    BY DEF NoDrift, InPlace
  <2>1. k \in Requests /\ (Pending(k) \/ InPlace(k))
    BY DEF DriftInv, AllAccounted, Accounted, Typed, TypeOK
  <2>2. Pending(k) => k \in InHand(request[k].owner)
    BY <2>1 DEF Pending, InHand
  <2> QED
    BY <2>1, <2>2
<1> QED
  BY <1>1, TypedInit, TypedNext, DriftInit, DriftNext, PTL DEF Spec
=============================================================================
