------------------------------- MODULE Wallet -------------------------------
(***************************************************************************)
(* Money: the clients' wallets (users.credit), the append-only ledger that *)
(* explains them (credit_history), the fees charged against orders and     *)
(* shipments (total_fees), and every request handler that moves money.     *)
(*                                                                         *)
(* A request is a process of one to four steps.  The first step is what    *)
(* the handler reads and checks before it takes a row lock; the last is    *)
(* its COMMIT, where all its writes become visible at once.  In between    *)
(* the handler holds SELECT ... FOR UPDATE locks on rows of users.  Other  *)
(* requests run between any two steps: the database is at READ COMMITTED.  *)
(*                                                                         *)
(* An order or a shipment is a "target" here: a header row of which only   *)
(* the columns that gate charging are kept.                                *)
(***************************************************************************)
EXTENDS Integers, Sequences, FiniteSetsExt

CONSTANTS
  Users,         \* wallets
  ProfileUsers,  \* the users whose profile may be edited (a save of users.*)
  Targets,       \* orders and shipments
  Orders,        \* the targets that are orders
  Client,        \* [Targets -> Users], who placed the target and pays
  OwnersOf,      \* [Users -> SUBSET Users], owners of credit groups a client may be in
  Requests,      \* HTTP requests; each is served once
  Opening,       \* [Users -> Nat], a first top-up already on the books
  Rates,         \* per-unit lock fees, in cents
  Qtys,          \* total quantity of a target's lines
  Prices,        \* amounts of extra fees and top-ups, in cents
  Corrections,   \* signed amounts of manual adjustments
  None           \* SQL NULL

ASSUME UsersAssumption ==
  /\ ProfileUsers \subseteq Users
  /\ OwnersOf \in [Users -> SUBSET Users]
  /\ Opening \in [Users -> Nat]

ASSUME TargetsAssumption == Orders \subseteq Targets /\ Client \in [Targets -> Users]

\* What the DTOs admit: rates are @Min(0), prices @IsPositive, corrections @NotEquals(0).
ASSUME AmountsAssumption ==
  /\ Rates \subseteq Nat
  /\ Qtys \subseteq Nat
  /\ Prices \subseteq Nat \ {0}
  /\ Corrections \subseteq Int \ {0}

\* resolveClientFee always comes to a fee, if only of 0.
ASSUME PricedAssumption == Rates # {} /\ Qtys # {}

VARIABLES
  credit,   \* [Users -> Int], users.credit
  ledger,   \* [Users -> Seq(Entry)], each user's credit_history rows, oldest first
  fees,     \* [Requests -> Fee \cup {None}], total_fees rows, keyed by the creating request
  header,   \* [Targets -> Header], the gating columns of orders / shipments
  rowLock,  \* [Users -> Requests \cup {None}], holder of the FOR UPDATE lock on a users row
  tx        \* [Requests -> Tx], where each request is and what it has read

vars == <<credit, ledger, fees, header, rowLock, tx>>

-----------------------------------------------------------------------------
(* Rows *)

EntryType == {"lock", "extra_fee", "top_up", "adjustment", "commission"}

Entry == [type: EntryType, amount: Int, prev: Int, new: Int, fee: Requests \cup {None}]

Fee == [target: Targets, amount: Nat, protected: BOOLEAN, voided: BOOLEAN]

ASSUME NoneAssumption == None \notin Users \cup Requests \cup Fee

\* open: not CANCELLED (order), AWAITING (shipment).
Header == [locked: BOOLEAN, open: BOOLEAN]
Columns == {"locked", "open"}

(* What a lock costs: resolveClientFee.  The rates and the group are settings an
   admin may change at any time, so a lock may see any of them.  In cents the
   product rate * qty is exact: the rounding of scaleFee only drops float noise. *)
Bill == [charged: Nat, base: Nat, owner: Users \cup {None}]

AtLeast(a, b) == IF a >= b THEN a ELSE b

PlainBill(rate, qty) == [charged |-> rate * qty, base |-> rate * qty, owner |-> None]

\* (mutant) charges the difference of the rates instead of the higher one
GroupBillDifference(rate, groupRate, qty, owner) ==
  [charged |-> (groupRate - rate) * qty, base |-> rate * qty, owner |-> owner]

GroupBill(rate, groupRate, qty, owner) ==
  [charged |-> AtLeast(groupRate, rate) * qty, base |-> rate * qty, owner |-> owner]

Bills(client) ==
  {PlainBill(rate, qty) : rate \in Rates, qty \in Qtys} \cup
  {GroupBill(rate, groupRate, qty, owner) :
      rate \in Rates, groupRate \in Rates, qty \in Qtys, owner \in OwnersOf[client]}

Markup(bill) == bill.charged - bill.base
PaysOwner(bill) == bill.owner # None /\ Markup(bill) > 0

-----------------------------------------------------------------------------
(* Requests in flight *)

Fresh       == [at: {"fresh"}]
Answered    == [at: {"answered"}]
\* createFee and voidFee past their checks, about to lock the client's row
AddingFee   == [at: {"add_fee"}, target: Targets, amount: Nat]
VoidingFee  == [at: {"void_fee"}, fee: Requests]
\* updateProfile / updateUser: the entity as loaded; then its dirty credit column
EditingUser == [at: {"edit_user", "save_user"}, user: ProfileUsers, seen: Int]
\* lockOrder / lockShipment: loaded, client charged, header row read by save()
Locking     == [at: {"lock"}, target: Targets, entity: Header]
Charging    == [at: {"charged"}, target: Targets, entity: Header, bill: Bill, clientPrev: Int]
SavingLock  == [at: {"save_lock"}, target: Targets, entity: Header, dirty: SUBSET Columns,
                bill: Bill, clientPrev: Int, ownerPrev: Int]
\* updateOrder / updateStatus: the entity to save; then its dirty columns
Editing     == [at: {"edit"}, target: Targets, entity: Header]
SavingEdit  == [at: {"save_edit"}, target: Targets, entity: Header, dirty: SUBSET Columns]

Tx == Fresh \cup Answered \cup AddingFee \cup VoidingFee \cup EditingUser \cup
      Locking \cup Charging \cup SavingLock \cup Editing \cup SavingEdit

InFlight(r) == tx[r].at \notin {"fresh", "answered"}

Goto(r, t) == tx' = [tx EXCEPT ![r] = t]
Answer(r) == Goto(r, [at |-> "answered"])

-----------------------------------------------------------------------------
(* The database *)

\* save(entity): the columns in which the entity differs from the row it SELECTs.
Dirty(entity, row) == {c \in Columns : entity[c] # row[c]}

\* ... are the ones its UPDATE writes.
Written(row, entity, dirty) ==
  [locked |-> IF "locked" \in dirty THEN entity.locked ELSE row.locked,
   open   |-> IF "open" \in dirty THEN entity.open ELSE row.open]

Unlocked(u) == rowLock[u] = None

\* SELECT ... FOR UPDATE returns at once on a row the transaction itself has locked.
Grantable(u, r) == rowLock[u] \in {None, r}

\* FOR UPDATE; (mutant) a plain SELECT.
HoldNothing(u, r) == rowLock
Hold(u, r) == [rowLock EXCEPT ![u] = r]

\* The balance check; (mutant) with the sign of a correction.
CoversAnything(u, amount) == credit[u] + amount >= 0
Covers(u, amount) == credit[u] >= amount

\* The end of a transaction; (mutant) a transaction left open.
ReleaseNothing(r) == rowLock
Release(r) == [u \in Users |-> IF rowLock[u] = r THEN None ELSE rowLock[u]]

\* (mutant) the ledger row is not linked to its fee
PostingUnlinked(type, prev, amount, feeId) ==
  [type |-> type, amount |-> amount, prev |-> prev, new |-> prev + amount, fee |-> None]

Posting(type, prev, amount, feeId) ==
  [type |-> type, amount |-> amount, prev |-> prev, new |-> prev + amount, fee |-> feeId]

\* UPDATE users and INSERT INTO credit_history, under the row lock.
Post(u, type, amount, feeId) ==
  /\ credit' = [credit EXCEPT ![u] = @ + amount]
  /\ ledger' = [ledger EXCEPT ![u] = Append(@, Posting(type, credit[u], amount, feeId))]

-----------------------------------------------------------------------------
Init ==
  /\ credit = Opening
  /\ ledger = [u \in Users |->
       IF Opening[u] = 0 THEN <<>> ELSE <<Posting("top_up", 0, Opening[u], None)>>]
  /\ fees = [r \in Requests |-> None]
  /\ header = [t \in Targets |-> [locked |-> FALSE, open |-> TRUE]]
  /\ rowLock = [u \in Users |-> None]
  /\ tx = [r \in Requests |-> [at |-> "fresh"]]

(* topUpCredit, adjustCredit -> applyMemberCreditChange.  One row lock, taken first
   and held to COMMIT, and nothing else is read: one step. *)
TopUp(r) ==
  \E u \in Users, amount \in Prices :
    /\ tx[r].at = "fresh"
    /\ Unlocked(u)
    /\ Post(u, "top_up", amount, None)
    /\ Answer(r)
    /\ UNCHANGED <<fees, header, rowLock>>

Adjust(r) ==
  \E u \in Users, amount \in Corrections :
    /\ tx[r].at = "fresh"
    /\ Unlocked(u)
    /\ credit[u] + amount >= 0
    /\ Post(u, "adjustment", amount, None)
    /\ Answer(r)
    /\ UNCHANGED <<fees, header, rowLock>>

(* createFee: resolveOrderTarget / resolveShipmentTarget decide "chargeable" before
   the transaction; the transaction does not look at the target again. *)
BeginAddFee(r) ==
  \E t \in Targets, amount \in Prices :
    /\ tx[r].at = "fresh"
    /\ header[t].locked /\ header[t].open
    /\ Goto(r, [at |-> "add_fee", target |-> t, amount |-> amount])
    /\ UNCHANGED <<credit, ledger, fees, header, rowLock>>

CommitAddFee(r) ==
  LET t == tx[r].target
      amount == tx[r].amount
      u == Client[t]
  IN  /\ tx[r].at = "add_fee"
      /\ Unlocked(u)
      /\ Covers(u, amount)
      /\ Post(u, "extra_fee", -amount, r)
      /\ fees' = [fees EXCEPT ![r] =
           [target |-> t, amount |-> amount, protected |-> FALSE, voided |-> FALSE]]
      /\ Answer(r)
      /\ UNCHANGED <<header, rowLock>>

(* voidFee: is_protected and voided_at are read without a lock, then the client's
   row is locked and refunded; the fee is not read again. *)
VoidableAny(f) == fees[f] # None /\ ~fees[f].voided  \* (mutant) lock fees too
Voidable(f) == fees[f] # None /\ ~fees[f].protected /\ ~fees[f].voided

BeginVoidFee(r) ==
  \E f \in Requests :
    /\ tx[r].at = "fresh"
    /\ Voidable(f)
    /\ Goto(r, [at |-> "void_fee", fee |-> f])
    /\ UNCHANGED <<credit, ledger, fees, header, rowLock>>

CommitVoidFee(r) ==
  LET f == tx[r].fee
      u == Client[fees[f].target]
  IN  /\ tx[r].at = "void_fee"
      /\ Unlocked(u)
      /\ Post(u, "extra_fee", fees[f].amount, f)
      /\ fees' = [fees EXCEPT ![f].voided = TRUE]
      /\ Answer(r)
      /\ UNCHANGED <<header, rowLock>>

(* updateProfile, updateUser: the whole users row is loaded, a display name or a
   password changes (bcrypt is awaited), then save() SELECTs the row and writes back
   every column in which the loaded entity differs from it -- credit too. *)
LoadUser(r) ==
  \E u \in ProfileUsers :
    /\ tx[r].at = "fresh"
    /\ Goto(r, [at |-> "edit_user", user |-> u, seen |-> credit[u]])
    /\ UNCHANGED <<credit, ledger, fees, header, rowLock>>

SelectUser(r) ==
  /\ tx[r].at = "edit_user"
  /\ IF tx[r].seen = credit[tx[r].user] THEN Answer(r)
                                        ELSE Goto(r, [tx[r] EXCEPT !.at = "save_user"])
  /\ UNCHANGED <<credit, ledger, fees, header, rowLock>>

SaveUser(r) ==
  /\ tx[r].at = "save_user"
  /\ Unlocked(tx[r].user)
  /\ credit' = [credit EXCEPT ![tx[r].user] = tx[r].seen]
  /\ Answer(r)
  /\ UNCHANGED <<ledger, fees, header, rowLock>>

(* lockOrder / lockShipment.  Locked and status are checked on an entity loaded
   before the transaction and never again. *)
BeginLock(r) ==
  \E t \in Targets :
    /\ tx[r].at = "fresh"
    /\ ~header[t].locked /\ header[t].open
    /\ Goto(r, [at |-> "lock", target |-> t, entity |-> [header[t] EXCEPT !.locked = TRUE]])
    /\ UNCHANGED <<credit, ledger, fees, header, rowLock>>

(* In the transaction: resolve the fee; when it is positive, lock the client's row
   and check that the balance covers it. *)
ChargeClient(r) ==
  LET t == tx[r].target
      u == Client[t]
  IN  /\ tx[r].at = "lock"
      /\ \E bill \in Bills(u) :
           /\ IF bill.charged > 0
                THEN /\ Unlocked(u)
                     /\ Covers(u, bill.charged)
                     /\ rowLock' = Hold(u, r)
                ELSE UNCHANGED rowLock
           /\ Goto(r, [at |-> "charged", target |-> t, entity |-> tx[r].entity,
                       bill |-> bill, clientPrev |-> credit[u]])
      /\ UNCHANGED <<credit, ledger, fees, header>>

(* creditCommission: lock the owner's row.  A client may own the group it is in; the
   transaction then reads the balance it has just written.  save(order) follows: its
   SELECT sees the committed header. *)
OwnerBalance(r, bill) ==
  IF bill.owner = Client[tx[r].target] THEN tx[r].clientPrev - bill.charged
                                       ELSE credit[bill.owner]

CreditOwner(r) ==
  LET t == tx[r].target
      bill == tx[r].bill
      save(ownerPrev) ==
        [at |-> "save_lock", target |-> t, entity |-> tx[r].entity,
         dirty |-> Dirty(tx[r].entity, header[t]),
         bill |-> bill, clientPrev |-> tx[r].clientPrev, ownerPrev |-> ownerPrev]
  IN  /\ tx[r].at = "charged"
      /\ \/ /\ PaysOwner(bill)
            /\ Grantable(bill.owner, r)
            /\ rowLock' = Hold(bill.owner, r)
            /\ Goto(r, save(OwnerBalance(r, bill)))
         \/ /\ ~PaysOwner(bill)
            /\ Goto(r, save(0))
            /\ UNCHANGED rowLock
      /\ UNCHANGED <<credit, ledger, fees, header>>

(* The balances written are those computed from the locked reads, not re-reads. *)
Charged(c, r) ==
  LET bill == tx[r].bill
      u == Client[tx[r].target]
  IN  IF bill.charged > 0 THEN [c EXCEPT ![u] = tx[r].clientPrev - bill.charged] ELSE c

Commissioned(c, r) ==
  LET bill == tx[r].bill
  IN  IF PaysOwner(bill) THEN [c EXCEPT ![bill.owner] = tx[r].ownerPrev + Markup(bill)] ELSE c

ChargeEntry(l, r) ==
  LET bill == tx[r].bill
      u == Client[tx[r].target]
  IN  IF bill.charged > 0
        THEN [l EXCEPT ![u] = Append(@, Posting("lock", tx[r].clientPrev, -bill.charged, r))]
        ELSE l

CommissionEntry(l, r) ==
  LET bill == tx[r].bill
  IN  IF PaysOwner(bill)
        THEN [l EXCEPT ![bill.owner] =
                Append(@, Posting("commission", tx[r].ownerPrev, Markup(bill), r))]
        ELSE l

\* "a total_fees row is always written"; (mutant) only for a charge.
LockFeeIfCharged(r) ==
  IF tx[r].bill.charged > 0
    THEN [fees EXCEPT ![r] = [target |-> tx[r].target, amount |-> tx[r].bill.charged,
                              protected |-> TRUE, voided |-> FALSE]]
    ELSE fees

WithLockFee(r) ==
  [fees EXCEPT ![r] = [target |-> tx[r].target, amount |-> tx[r].bill.charged,
                       protected |-> TRUE, voided |-> FALSE]]

CommitLock(r) ==
  LET t == tx[r].target
  IN  /\ tx[r].at = "save_lock"
      /\ credit' = Commissioned(Charged(credit, r), r)
      /\ ledger' = CommissionEntry(ChargeEntry(ledger, r), r)
      /\ fees' = WithLockFee(r)
      /\ header' = [header EXCEPT ![t] = Written(@, tx[r].entity, tx[r].dirty)]
      /\ rowLock' = Release(r)
      /\ Answer(r)

(* The other writers of a header: an edit of an order that leaves both columns as
   loaded (updateOrder; updateStatus to IN_WAREHOUSE), and a close (updateStatus to
   CANCELLED or DONE).  They too save a whole entity loaded before the transaction. *)
LoadHeader(r) ==
  \E t \in Targets, close \in BOOLEAN :
    /\ tx[r].at = "fresh"
    /\ header[t].open
    /\ close \/ t \in Orders
    /\ Goto(r, [at |-> "edit", target |-> t, entity |-> [header[t] EXCEPT !.open = ~close]])
    /\ UNCHANGED <<credit, ledger, fees, header, rowLock>>

SelectHeader(r) ==
  LET t == tx[r].target
  IN  /\ tx[r].at = "edit"
      /\ Goto(r, [at |-> "save_edit", target |-> t, entity |-> tx[r].entity,
                  dirty |-> Dirty(tx[r].entity, header[t])])
      /\ UNCHANGED <<credit, ledger, fees, header, rowLock>>

SaveHeader(r) ==
  LET t == tx[r].target
  IN  /\ tx[r].at = "save_edit"
      /\ header' = [header EXCEPT ![t] = Written(@, tx[r].entity, tx[r].dirty)]
      /\ Answer(r)
      /\ UNCHANGED <<credit, ledger, fees, rowLock>>

-----------------------------------------------------------------------------
(* Requests that end without an effect *)

RollBack(r) ==
  /\ rowLock' = Release(r)
  /\ Answer(r)
  /\ UNCHANGED <<credit, ledger, fees, header>>

\* "Client has insufficient credit ...": read under the row lock, 400, ROLLBACK.
Refuse(r) ==
  /\ \/ /\ tx[r].at = "add_fee"
        /\ LET u == Client[tx[r].target] IN Unlocked(u) /\ ~Covers(u, tx[r].amount)
     \/ /\ tx[r].at = "lock"
        /\ LET u == Client[tx[r].target]
           IN  Unlocked(u) /\ \E bill \in Bills(u) : bill.charged > 0 /\ ~Covers(u, bill.charged)
  /\ RollBack(r)

\* Two locks whose clients own each other's credit group wait for each other's row;
\* Postgres finds the cycle and aborts a member of it.
AwaitedBy(r) ==
  IF tx[r].at = "charged" /\ PaysOwner(tx[r].bill) /\ ~Grantable(tx[r].bill.owner, r)
    THEN {rowLock[tx[r].bill.owner]} ELSE {}

Deadlocked(S) == \A r \in S : AwaitedBy(r) # {} /\ AwaitedBy(r) \subseteq S

AbortDeadlock(r) ==
  /\ \E S \in SUBSET Requests : r \in S /\ Deadlocked(S)
  /\ RollBack(r)

\* The process dies or the connection is lost before COMMIT.
Fail(r) == InFlight(r) /\ RollBack(r)

-----------------------------------------------------------------------------
Begin(r) ==
  \/ TopUp(r) \/ Adjust(r) \/ BeginAddFee(r) \/ BeginVoidFee(r)
  \/ LoadUser(r) \/ BeginLock(r) \/ LoadHeader(r)

Continue(r) ==
  \/ CommitAddFee(r) \/ CommitVoidFee(r) \/ SelectUser(r) \/ SaveUser(r)
  \/ ChargeClient(r) \/ CreditOwner(r) \/ CommitLock(r)
  \/ SelectHeader(r) \/ SaveHeader(r) \/ Refuse(r) \/ AbortDeadlock(r)

Next == \E r \in Requests : Begin(r) \/ Continue(r) \/ Fail(r)

Spec == Init /\ [][Next]_vars

\* Node and Postgres keep running the handlers they have started.
Fairness == \A r \in Requests : WF_vars(Continue(r))

FairSpec == Spec /\ Fairness

-----------------------------------------------------------------------------
(* Properties *)

\* Every variable holds the rows, snapshots and lock holders it is meant to hold.
TypeOK ==
  /\ credit \in [Users -> Int]
  /\ ledger \in [Users -> Seq(Entry)]
  /\ fees \in [Requests -> Fee \cup {None}]
  /\ header \in [Targets -> Header]
  /\ rowLock \in [Users -> Requests \cup {None}]
  /\ tx \in [Requests -> Tx]

(* No sequence of charges, corrections, commissions and refunds drives a wallet below
   zero, whatever runs between a handler's check and its commit, and even when a
   profile edit writes an old balance back (order.service.ts:740-754,
   extra-fee.service.ts:208-213, organization.service.ts:798-804). *)
NoOverdraft == \A u \in Users : credit[u] >= 0

Chained(l) ==
  \A i \in DOMAIN l :
    /\ l[i].new = l[i].prev + l[i].amount
    /\ l[i].prev = IF i = 1 THEN 0 ELSE l[i - 1].new

Closing(l) == IF l = <<>> THEN 0 ELSE l[Len(l)].new

(* The credit_history rows of a user form an unbroken chain from zero whose last
   balance is users.credit: no two commits read the same balance, no commit loses
   another's update.  Stated for the users whose profile nobody edits. *)
LedgerExplainsCredit ==
  \A u \in Users \ ProfileUsers : Chained(ledger[u]) /\ credit[u] = Closing(ledger[u])

(* The same promise for every user: "Every change is mirrored in credit_history"
   (user.entity.ts:34). *)
EveryChangeMirrored == \A u \in Users : credit[u] = Closing(ledger[u])

\* The ledger rows linked to a fee (credit_history.fee_id_fk), of all users or of one.
PostingsOf(f, users) ==
  UNION {{<<u, i>> : i \in {j \in DOMAIN ledger[u] : ledger[u][j].fee = f}} : u \in users}

\* What the warehouse kept of a fee: - SUM(amount) over its rows (report.service.ts).
Earned(f) == LET amount(p) == -ledger[p[1]][p[2]].amount
             IN  MapThenSumSet(amount, PostingsOf(f, Users))

FeeIds == {r \in Requests : fees[r] # None}

(* A fee row and its ledger rows commit together: a live extra fee was charged to its
   client once and earned in full; a lock fee was charged once (not at all when it is
   zero) and the owner's commission never exceeds it. *)
LiveFeeBilled ==
  \A f \in FeeIds :
    ~fees[f].voided =>
      LET charges == {p \in PostingsOf(f, {Client[fees[f].target]}) :
                        ledger[p[1]][p[2]].amount < 0}
      IN  /\ Cardinality(charges) = IF fees[f].amount > 0 THEN 1 ELSE 0
          /\ \A p \in charges : ledger[p[1]][p[2]].amount = -fees[f].amount
          /\ IF fees[f].protected THEN Earned(f) \in 0 .. fees[f].amount
                                  ELSE Earned(f) = fees[f].amount

(* A locked order or shipment has its protected lock fee, whoever saved the header
   last ("a total_fees row is always written", order.service.ts:684). *)
LockedHasFee ==
  \A t \in Targets : header[t].locked =>
    \E f \in FeeIds : fees[f].target = t /\ fees[f].protected

HoldsClient(r) == tx[r].at \in {"charged", "save_lock"} /\ tx[r].bill.charged > 0
HoldsOwner(r) == tx[r].at = "save_lock" /\ PaysOwner(tx[r].bill)

ReadsStand(r) ==
  /\ HoldsClient(r) =>
       LET u == Client[tx[r].target]
       IN  rowLock[u] = r /\ credit[u] = tx[r].clientPrev /\ credit[u] >= tx[r].bill.charged
  /\ HoldsOwner(r) =>
       /\ rowLock[tx[r].bill.owner] = r
       /\ tx[r].ownerPrev = OwnerBalance(r, tx[r].bill)

(* What FOR UPDATE buys: as long as a lock transaction holds a users row, the balance
   it has read is the committed one and still covers the charge, so that checking it
   once and writing the difference later is sound (order.service.ts:740-754,
   shipment.service.ts:628-640, credit-group.util.ts:105-114). *)
HeldBalanceIsCurrent == \A r \in Requests : ReadsStand(r)

(* A fee row, once written, only ever changes by being voided, the lock fee not even
   that, and ledger rows are only added (total-fee.entity.ts:34-37). *)
BooksAppendOnly ==
  [][ /\ \A f \in FeeIds :
           fees'[f] = fees[f] \/ (~fees[f].protected /\ fees'[f] = [fees[f] EXCEPT !.voided = TRUE])
      /\ \A u \in Users : \A i \in DOMAIN ledger[u] :
           i \in DOMAIN ledger'[u] /\ ledger'[u][i] = ledger[u][i] ]_vars

(* Every request that has started is answered: no wait for a row lock lasts for ever,
   a client who owns their own group and owners of each other's groups included. *)
EveryRequestAnswered ==
  \A r \in Requests : (tx[r].at # "fresh") ~> (tx[r].at = "answered")

\* A request that nothing holds up: the guards of Continue(r).
Ready(r) ==
  \/ tx[r].at \in {"edit_user", "save_lock", "edit", "save_edit"}
  \/ tx[r].at = "add_fee" /\ Unlocked(Client[tx[r].target])
  \/ tx[r].at = "void_fee" /\ Unlocked(Client[fees[tx[r].fee].target])
  \/ tx[r].at = "save_user" /\ Unlocked(tx[r].user)
  \/ /\ tx[r].at = "lock"
     /\ LET u == Client[tx[r].target]
        IN  \E bill \in Bills(u) : bill.charged > 0 => Unlocked(u)
  \/ tx[r].at = "charged" /\ (PaysOwner(tx[r].bill) => Grantable(tx[r].bill.owner, r))
  \/ \E S \in SUBSET Requests : r \in S /\ Deadlocked(S)

(* The requests in flight never all wait for one another's wallets: one of them waits for
   no row lock, or is one that the database aborts (order.service.ts:739-786,
   credit-group.util.ts:105-129). *)
SomeoneReady == (\E r \in Requests : InFlight(r)) => \E r \in Requests : Ready(r)

(* "Per-org earnings net out automatically" (total-fee.entity.ts:34-37): the refund of a
   voided fee undoes its charge and no more, with any requests in flight. *)
VoidedFeesNetOut == \A f \in FeeIds : fees[f].voided => Earned(f) = 0

(* "Exactly one per target" (total-fee.entity.ts:21): at most one lock fee. *)
OneLockFeePerTarget ==
  \A f, g \in FeeIds :
    (fees[f].protected /\ fees[g].protected /\ fees[f].target = fees[g].target) => f = g
-----------------------------------------------------------------------------
(* The wallet as a book of accounts: the balances and the ledgers of the users whose
   profile nobody edits, a ledger row as its amount and the balance it leaves. *)

Journal(l) == [i \in DOMAIN l |-> [amount |-> l[i].amount, new |-> l[i].new]]

Unedited == Users \ ProfileUsers
Balances == [u \in Unedited |-> credit[u]]
Journals == [u \in Unedited |-> Journal(ledger[u])]

Book == INSTANCE Bookkeeping WITH
  Accounts <- Unedited, balance <- Balances, journal <- Journals

(* Every commit of the wallet is one atomic posting on the balances it finds: the row
   locks make the interleaved handlers serializable on money (order.service.ts:739-786,
   extra-fee.service.ts:201-252 and 319-364, credit-group.util.ts:105-129). *)
WalletKeepsBooks == Book!Spec
=============================================================================
