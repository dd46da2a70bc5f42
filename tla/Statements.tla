----------------------------- MODULE Statements -----------------------------
(***************************************************************************)
(* Reading the books: the wallet pages, summaries and reports that every   *)
(* role reads from credit_history while other requests go on posting.      *)
(*                                                                         *)
(* A posting is one transaction of two steps.  Its BEGIN fixes now(), the  *)
(* created_at of every row it will write; its COMMIT posts on the balance  *)
(* it finds under the row lock (module Wallet shows that a commit is one   *)
(* atomic posting), so the order of the stamps need not be the order of    *)
(* the balances.  A row's id is a random uuid: any unused one.             *)
(*                                                                         *)
(* A reader pages through a slice of the ledger, one SELECT per request,   *)
(* carrying nothing but the cursor of the last page.                       *)
(***************************************************************************)
EXTENDS Integers, FiniteSetsExt

CONSTANTS
  Users, Orgs,
  Overlapping,  \* users with several transactions open, or several in one millisecond
  Requests,     \* postings; each is served once
  OrgOf,        \* [Requests -> Orgs]
  Jobs,         \* what a request may be asked to post
  Opening,      \* rows already on the books
  Ids,          \* uuids, in their order
  MaxTime,      \* bound of the clock, in milliseconds
  DayLength,    \* milliseconds of a calendar day
  Readers, Scopes,
  Limit,        \* page size
  None

VARIABLES
  now,      \* the database's clock
  ledger,   \* wh.credit_history, a set of rows
  balance,  \* [Users -> Int], users.credit
  tx,       \* [Requests -> Tx]
  view      \* [Readers -> View], a client's walk through the pages of a slice

vars == <<now, ledger, balance, tx, view>>

-----------------------------------------------------------------------------
(* Rows *)

EntryType == {"lock", "extra_fee", "top_up", "adjustment", "commission"}
SpendTypes == {"lock", "extra_fee"}

Times == 0 .. MaxTime
Entry == [id: Ids, at: Times, user: Users, org: Orgs, type: EntryType, amount: Int, new: Int]

(* One movement of the client's balance and, for a lock in a credit group, of the
   owner's: the client is charged base + markup and the owner earns the markup. *)
Job == {job \in [user: Users, type: EntryType \ {"commission"}, amount: Int,
                  owner: Users \cup {None}, markup: Nat] :
          IF job.owner = None THEN job.markup = 0 ELSE job.type = "lock"}

Tx == [at: {"fresh", "refused"}] \cup
      [at: {"open"}, job: Job, stamp: Times] \cup
      [at: {"posted"}, job: Job]

ASSUME StatementsAssumption ==
  /\ Overlapping \subseteq Users
  /\ OrgOf \in [Requests -> Orgs]
  /\ Jobs \subseteq Job
  /\ Ids \subseteq Nat
  /\ IsFiniteSet(Ids)
  /\ MaxTime \in Nat
  /\ DayLength \in Nat \ {0}
  /\ Limit \in Nat \ {0}
  /\ None \notin Users \cup Orgs \cup Times

-----------------------------------------------------------------------------
(* Slices: the WHERE of every read *)

Scope == [user: Users \cup {None}, org: Orgs \cup {None}, types: SUBSET EntryType,
          from: Times \cup {None}, to: Times \cup {None}]

ASSUME ScopesAssumption == Scopes \subseteq Scope

Everything == [user |-> None, org |-> None, types |-> {}, from |-> None, to |-> None]
OfUser(u) == [Everything EXCEPT !.user = u]
OfOrg(o)  == [Everything EXCEPT !.org = o]

Within(row, s) == /\ s.from = None \/ row.at >= s.from
                  /\ s.to = None \/ row.at < s.to

Matches(row, s) ==
  /\ s.user = None \/ row.user = s.user
  /\ s.org = None \/ row.org = s.org
  /\ s.types = {} \/ row.type \in s.types
  /\ Within(row, s)

Slice(s) == {row \in ledger : Matches(row, s)}

-----------------------------------------------------------------------------
(* Pages *)

Cursor == [at: Times, id: Ids]

ASSUME NoneIsNoCursor == None \notin Cursor

Newer(a, b) == a.at > b.at \/ (a.at = b.at /\ a.id > b.id)

\* (mutant) a cursor of the time alone
PastByTime(row, cursor) == cursor = None \/ row.at < cursor.at

Past(row, cursor) == cursor = None \/ Newer(cursor, row)

\* ORDER BY created_at DESC, id DESC LIMIT n
IsPage(rows, of, n) ==
  /\ rows \subseteq of
  /\ \A row \in rows, other \in of : Newer(other, row) => other \in rows
  /\ IF Cardinality(of) > n THEN Cardinality(rows) = n ELSE rows = of

\* start and told are what the reader could have seen and has seen: they decide nothing.
Walk == [at: {"walking", "done"}, scope: Scopes, cursor: Cursor \cup {None},
         start: SUBSET Ids, told: [Ids -> Nat]]
View == [at: {"idle"}] \cup Walk

-----------------------------------------------------------------------------
(* Summaries *)

Total(rows) == MapThenSumSet(LAMBDA row : row.amount, rows)

OfType(rows, types) == {row \in rows : row.type \in types}

Spent(rows)    == -Total(OfType(rows, SpendTypes))
ToppedUp(rows) == Total(OfType(rows, {"top_up"}))

\* (mutant) what was charged, commissions not taken off
EarningsGross(rows) == Spent(rows)

Earnings(rows) == -Total(OfType(rows, SpendTypes \cup {"commission"}))

DayOf(row) == row.at \div DayLength
Days(rows) == {DayOf(row) : row \in rows}
OfDay(rows, d) == {row \in rows : DayOf(row) = d}

MoneyOut(rows) == -Total({row \in rows : row.amount < 0})
MoneyIn(rows)  == Total({row \in rows : row.amount > 0})

\* (mutant) the day's first balance
ClosingOldest(rows) == (CHOOSE row \in rows : \A r \in rows : r = row \/ Newer(r, row)).new

Closing(rows) == (CHOOSE row \in rows : \A r \in rows : r = row \/ Newer(row, r)).new

-----------------------------------------------------------------------------
(* Postings *)

Balances(rows) == [u \in Users |-> Total({row \in rows : row.user = u})]

(* The opening rows were posted like all others: those of a user whose transactions do
   not overlap lie apart, and each bears the balance up to it. *)
ASSUME OpeningAssumption ==
  /\ IsFiniteSet(Opening) /\ Opening \subseteq Entry
  /\ \A a, b \in Opening : a.id = b.id => a = b
  /\ \A a \in Opening : a.user \notin Overlapping =>
       /\ \A b \in Opening : b.user = a.user /\ b.at = a.at => b = a
       /\ a.new = Total({b \in Opening : b.user = a.user /\ b.at <= a.at})

Init ==
  /\ now \in {t \in Times : \A row \in Opening : row.at < t}
  /\ ledger = Opening
  /\ balance = Balances(Opening)
  /\ tx = [r \in Requests |-> [at |-> "fresh"]]
  /\ view = [v \in Readers |-> [at |-> "idle"]]

Tick ==
  /\ now < MaxTime
  /\ now' = now + 1
  /\ UNCHANGED <<ledger, balance, tx, view>>

Moves(job) == {job.user} \cup (IF job.owner = None THEN {} ELSE {job.owner})

\* Nothing else is open on the user, and nothing was posted in this millisecond.
Alone(u) ==
  /\ \A q \in Requests : tx[q].at = "open" => u \notin Moves(tx[q].job)
  /\ \A row \in ledger : row.user = u => row.at < now

Begin(r, job) ==
  /\ tx[r].at = "fresh"
  /\ \A u \in Moves(job) \ Overlapping : Alone(u)
  /\ job.owner = job.user => job.user \in Overlapping
  /\ tx' = [tx EXCEPT ![r] = [at |-> "open", job |-> job, stamp |-> now]]
  /\ UNCHANGED <<now, ledger, balance, view>>

\* The reversal of an extra fee, in its organization; module Wallet tells when one may be made.
Reversal(job) == [job EXCEPT !.amount = -job.amount]

BeginPosting(r) == \E job \in Jobs : Begin(r, job)

BeginVoid(r) ==
  \E q \in Requests :
    /\ tx[q].at = "posted"
    /\ OrgOf[q] = OrgOf[r]
    /\ tx[q].job.type = "extra_fee"
    /\ tx[q].job.amount < 0
    /\ Begin(r, Reversal(tx[q].job))

\* (mutant) the row does not say which organization it belongs to
RowWithoutOrg(id, r, user, type, amount, new) ==
  [id |-> id, at |-> tx[r].stamp, user |-> user, org |-> None,
   type |-> type, amount |-> amount, new |-> new]

Row(id, r, user, type, amount, new) ==
  [id |-> id, at |-> tx[r].stamp, user |-> user, org |-> OrgOf[r],
   type |-> type, amount |-> amount, new |-> new]

Unused == Ids \ {row.id : row \in ledger}

Charged(job) == [balance EXCEPT ![job.user] = @ + job.amount]

\* A charge or a correction is refused when it overdraws the wallet.
Affordable(job) == job.amount > 0 \/ balance[job.user] + job.amount >= 0

Post(r) ==
  LET job == tx[r].job
      charged == Charged(job)
      row(id) == Row(id, r, job.user, job.type, job.amount, charged[job.user])
  IN /\ tx[r].at = "open"
     /\ Affordable(job)
     /\ \/ /\ job.owner = None
           /\ balance' = charged
           /\ \E i \in Unused : ledger' = ledger \cup {row(i)}
        \/ /\ job.owner # None
           /\ balance' = [charged EXCEPT ![job.owner] = @ + job.markup]
           /\ \E i, j \in Unused :
                /\ i # j
                /\ ledger' = ledger \cup
                     {row(i), Row(j, r, job.owner, "commission", job.markup, balance'[job.owner])}
     /\ tx' = [tx EXCEPT ![r] = [at |-> "posted", job |-> job]]
     /\ UNCHANGED <<now, view>>

Refuse(r) ==
  /\ tx[r].at = "open"
  /\ ~Affordable(tx[r].job)
  /\ tx' = [tx EXCEPT ![r] = [at |-> "refused"]]
  /\ UNCHANGED <<now, ledger, balance, view>>

-----------------------------------------------------------------------------
(* Reading *)

Open(v) ==
  \E s \in Scopes :
    /\ view[v].at = "idle"
    /\ view' = [view EXCEPT ![v] =
         [at |-> "walking", scope |-> s, cursor |-> None,
          start |-> {row.id : row \in Slice(s)}, told |-> [i \in Ids |-> 0]]]
    /\ UNCHANGED <<now, ledger, balance, tx>>

Told(v, items) ==
  [i \in Ids |-> view[v].told[i] + (IF \E row \in items : row.id = i THEN 1 ELSE 0)]

\* The cursor of the last row kept; null when no row was left over.
NextCursor(fetched, items, cursor) ==
  IF fetched = items THEN cursor = None
  ELSE \E last \in items :
         /\ \A row \in items : row = last \/ Newer(row, last)
         /\ cursor = [at |-> last.at, id |-> last.id]

Turned(v, items, cursor) ==
  [view[v] EXCEPT !.at = IF cursor = None THEN "done" ELSE "walking",
                  !.cursor = cursor, !.told = Told(v, items)]

NextPage(v) ==
  LET rest == {row \in Slice(view[v].scope) : Past(row, view[v].cursor)}
  IN /\ view[v].at = "walking"
     /\ \E fetched \in SUBSET rest : \E items \in SUBSET fetched :
          /\ IsPage(fetched, rest, Limit + 1)
          /\ IsPage(items, fetched, Limit)
          /\ \E cursor \in Cursor \cup {None} :
               /\ NextCursor(fetched, items, cursor)
               /\ view' = [view EXCEPT ![v] = Turned(v, items, cursor)]
     /\ UNCHANGED <<now, ledger, balance, tx>>

Next ==
  \/ Tick
  \/ \E r \in Requests : BeginPosting(r) \/ BeginVoid(r) \/ Post(r) \/ Refuse(r)
  \/ \E v \in Readers : Open(v) \/ NextPage(v)

Spec == Init /\ [][Next]_vars

-----------------------------------------------------------------------------
(* Properties *)

\* Rows, balances, transactions and walks have their types.
TypeOK ==
  /\ now \in Times
  /\ ledger \subseteq Entry
  /\ balance \in [Users -> Int]
  /\ tx \in [Requests -> Tx]
  /\ view \in [Readers -> View]

(* A walk that has come to its last page has shown every row that was there when it
   began exactly once, and no row twice, whatever was posted meanwhile and however many
   rows share a millisecond (pagination.util.ts:46-58, the cursors of the three ledgers). *)
WalkTellsAll ==
  \A v \in Readers :
    view[v].at = "done" =>
      /\ \A i \in view[v].start : view[v].told[i] = 1
      /\ \A i \in Ids : view[v].told[i] <= 1

\* What the warehouse keeps of a posting: a charge less the owner's markup.
KeptOf(job) == IF job.type \in SpendTypes THEN -job.amount - job.markup ELSE 0
Kept(o) == MapThenSumSet(LAMBDA r : KeptOf(tx[r].job),
                         {r \in Requests : OrgOf[r] = o /\ tx[r].at = "posted"})

(* The figures of the balances page, the summaries and the reports tell one story: the
   rows of a wallet add up to its balance, an organization's earnings are the charges
   less the markups paid out, and two adjoining periods, or the days, add up to the whole
   (credit-ledger.util.ts:64-74, 107-126, 159-192; report.service.ts:209-215). *)
SummariesAgree ==
  /\ \A u \in Users : Total(Slice(OfUser(u))) = balance[u]
  /\ \A o \in Orgs : Earnings(Slice(OfOrg(o)) \ Opening) = Kept(o)
  /\ \A o \in Orgs, t \in Times :
       LET before == Slice([OfOrg(o) EXCEPT !.to = t])
           after  == Slice([OfOrg(o) EXCEPT !.from = t])
           whole  == Slice(OfOrg(o))
       IN /\ Spent(before) + Spent(after) = Spent(whole)
          /\ ToppedUp(before) + ToppedUp(after) = ToppedUp(whole)
  /\ \A u \in Users :
       LET rows == Slice(OfUser(u))
       IN MapThenSumSet(LAMBDA d : MoneyIn(OfDay(rows, d)) - MoneyOut(OfDay(rows, d)), Days(rows))
            = balance[u]

(* The closing balance of each day is the one of the day before plus what the day
   brought, and that of the last day is the balance, for a user whose transactions do
   not overlap (user.service.ts:184-186, "exact over the whole filtered slice"). *)
DaysClose ==
  \A u \in Users \ Overlapping :
    LET rows == Slice(OfUser(u))
    IN \A d \in Days(rows) :
         Closing(OfDay(rows, d)) = Total({row \in rows : DayOf(row) <= d})

(* What the code says of every user: the closing balance is that "after the day's last
   entry in the slice" (credit-ledger.util.ts:151), so the newest day's is the balance,
   at least when no two entries share a millisecond. *)
LastDayIsBalance ==
  \A u \in Users :
    LET rows == Slice(OfUser(u))
    IN rows # {} /\ (\A a, b \in rows : a.at = b.at => a = b) => Closing(rows) = balance[u]
=============================================================================
