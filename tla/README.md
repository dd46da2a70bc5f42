# warehouse-api in TLA+

A verification project for `warehouse-api` (NestJS, TypeORM, PostgreSQL, an S3-compatible
bucket). Clients announce orders, a reviewer locks and thereby bills them, the goods are
received, shipments take them out again, and a prepaid wallet pays for all of it. The
modules here model the handlers that change this state, TLC checks them on small
instances, and TLAPS proves the central safety properties for every instance.

Paths below are relative to `src/src/` unless they start with `src/`. The exact lines
behind each definition are in `PROJECT.json` under `map`.

## 1. The system

One Node process serves HTTP requests concurrently: handlers interleave at every `await`.
All lasting state is in PostgreSQL at its default level, READ COMMITTED: each statement
sees what is committed when it starts, and nothing keeps two statements of a transaction
consistent except row locks. The handlers follow one pattern:

1. load an entity and check it, *outside* any transaction;
2. open a transaction, take `SELECT ... FOR UPDATE` on some rows (wallets, order lines),
   check what must be checked under the lock;
3. `em.save(entity)`: TypeORM SELECTs the row by id and UPDATEs the columns in which the
   loaded entity differs from it, however old the entity is;
4. write history, ledger and activity rows in the same transaction and commit.

Step 3 is where most hazards of this code are: a save after a stale load writes columns
the handler never meant to change.

| component | state | operations | works with |
|---|---|---|---|
| Wallets and ledger (`organization/`) | `users.credit`, `credit_history` | top up, adjust; every charge and refund | all that bills |
| Extra fees (`extra-fee/`) | `total_fees` | create, void | wallet, order and shipment headers |
| Lock billing (`common/credit-group.util.ts`, `order/`, `shipment/`) | wallet rows of client and group owner, `total_fees` | the charge and the commission of a lock | wallet, credit groups |
| Credit groups, organization fees (`organization/`) | `org_fees`, `credit_groups`, `credit_group_fees`, `credit_group_members` | create, change, price, enrol, withdraw, delete | members, lock billing |
| Orders (`order/`) | `orders`, `order_details`, `order_history` | place, edit, lock, move, add/edit/receive/remove lines | wallet, shipments, activities |
| Shipments (`shipment/`) | `shipments`, `shipment_details`, `order_details.shipped_qty` | place, edit, lock, finish, cancel | order lines, wallet, labels |
| Activities and notifications (`activity/`, `notification/`) | `activity_log` with `notified_at`, `notifications` | record, emit after commit, listen, sweep, read | every handler that changes something |
| Stored files (`storage/`, `organization/`, `shipment/`) | `credit_resources`, `shipment_labels`, the bucket | upload, remove, two nightly clean-ups | top-ups, shipments |
| Organizations, members, permission groups (`organization/`) | `organizations`, `users_orgs`, `org_groups`, `user_groups`, `group_permissions`, `users.email`, `users.code` | create and delete organizations and groups, create users, join, leave, assign, grant | guard, credit groups |
| Permission guard (`rbac/`) | none | ask for a caller's roles and grants before each request | permission groups |
| Statements (`organization/`, `user/`, `report/`, `common/`) | none | pages, summaries, days and reports of the ledger | wallets |
| Users (`user/`) | `users` | edit profile | wallet (the same row) |
| Authentication, inventory, controllers | none of their own, or read only | | |

### What is hard, and what makes each component correct

* **Wallets.** Several requests change one balance; a lock holds the client's row while it
  waits for the group owner's; a client may own the group they are in. Correct means: no
  overdraft, a ledger that adds up to the balance, exactly the fees that were charged, and
  nobody waiting for ever.
* **Credit groups.** Administrators check and write in different statements, and a lock
  reads its rate in four. Correct means: one group per client, nothing left of a deleted
  group, no quote below the organization's rate, no markup without somebody who earns it.
* **Shipments.** Several shipments draw on one line; a lock takes several lines and may
  fail in the middle. Correct means: never more shipped than received, stock that equals
  what the locked shipments drew, and lock and cancel being atomic over all the lines.
* **Orders.** Entities are held across transactions by design. Correct means: goods are
  handled only once billed, the history tells what happened, terminal states are terminal,
  an order keeps a line.
* **Notifications.** An in-memory event and a sweep race for the same rows and either may
  die. Correct means: each activity is told once, to the right people, in the end.
* **Statements.** A row is stamped with the start of its transaction, its balance is computed
  under the row lock: the order of the rows is not the order of the balances, and rows turn up
  behind a reader who is paging. Correct means: nothing is skipped or shown twice, all figures
  agree with each other and with the balances.
* **Permissions.** Roles hang on groups, not on memberships; every question is asked in several
  statements. Correct means: no role without its membership, nobody let through or refused on
  a mixture of two states, no two accounts with one e-mail or code.
* **Files.** No transaction spans database and bucket. Correct means: a row never points
  at nothing, orphans only after a failure or an overlap, stale files removed in the end.

`PROJECT.json` lists each hazard at its line with the properties that would catch it.

## 2. Modules

| module | models | composed with |
|---|---|---|
| `Wallet` | every handler that moves money | refines `Bookkeeping` (mapping `Book`) |
| `Shipments` | stock, shipments, the order-side saves of a line | refines `Shelf` (mapping `TheShelf`) |
| `Orders` | header, lines and history of orders | refines `Lifecycle` (mapping `Life`) |
| `Notifications` | commit to inbox | refines `Mailbox` (mapping `Mail`) |
| `StoredFiles` | bills and labels, rows and bucket | |
| `CreditGroups` | configuration of fees and the quote of a lock | |
| `Statements` | what is read from the ledger while postings commit | takes a commit of `Wallet` as one posting |
| `Access` | organizations, members, roles, grants, accounts, and the questions asked of them | |
| `Bookkeeping`, `Shelf`, `Lifecycle`, `Mailbox` | what the first four promise, with no requests in them | |
| `MC*` | instances for TLC; each refinement mapping is at the end of the detailed module | |
| `WalletProofs`, `ShipmentProofs`, `OrderProofs`, `NotificationProofs`, `CreditGroupProofs`, `StoredFileProofs`, `StatementProofs`, `AccessProofs` | theorems | |

In all of them a *request* (or worker) is a record in `tx`, `request` or `work`: its field
`at` says which statement is next, the others hold what the handler has read. An action is
one statement, or a group of statements of which only the last one is visible to others;
writes become visible at the COMMIT. Any request may fail at any step (`Fail`): its
locks go and nothing of it remains.

### Wallet

`credit` and `ledger` are `users.credit` and `credit_history`, `fees` the `total_fees` rows,
`header` the two columns of an order or shipment that gate charging (locked, and open: not
cancelled, or awaiting), `rowLock` the FOR UPDATE locks on `users`.

* `TopUp`, `Adjust`: `applyMemberCreditChange`, one step, since its row lock comes first.
* `BeginAddFee`/`CommitAddFee`, `BeginVoidFee`/`CommitVoidFee`: `createFee`, `voidFee`,
  with the check outside the transaction in a step of its own.
* `BeginLock`, `ChargeClient`, `CreditOwner`, `CommitLock`: `lockOrder` and `lockShipment`,
  with the fee (`Bills`, any that the rates admit), the client's row, the owner's row
  (possibly the same), and the save of the header as loaded at the start.
* `LoadUser`, `SelectUser`, `SaveUser`: the profile edits, which save `credit` too.
* `LoadHeader`, `SelectHeader`, `SaveHeader`: the other writers of a header.
* `Refuse` is the 400 for a balance that does not cover the amount; `AbortDeadlock` is
  PostgreSQL's victim in a cycle of waits.

### Shipments

`line` holds status, `qty` and `shipped_qty` of order lines, `items` the `shipment_details`,
`rowLock` the locks on lines. `BeginFulfil`, `ReadItems`, `TakeLine`/`ReturnLine`,
`SelectShipment`, `CommitShipment` are `lockShipment` and `updateStatus`, line by line in
any order (the code does not sort). `LoadLine`, `SelectLine`, `SaveLine` are `updateDetail`
and `updateDetailStatus` of the order side, on `EditedLines` only.

### Orders

`order`, `line` are the rows, `told` the same rows as a reader who replays `order_history`
sees them. `Select*` is the SELECT of a save and fixes the dirty columns, `Commit*` its
UPDATE and the COMMIT. An arrival (`UpdateArriving` to `CommitArrival`) saves the header,
lists the pending lines and saves them one after the other. A line removed since it was
loaded is inserted again by the save, or updated to no effect, depending on when.

`Lifecycle` has one action per operation (`Retrack`, `Lock`, `Cancel`, `Arrive`, `Add`, `Amend`,
`Settle`, `Remove`, `Announce`), each on the rows as they are when it happens. `Orders` implements
it on the orders that are not in `Overlapping`: although a handler checks before its transaction,
and other requests commit on other rows of the order in between, what a COMMIT writes is what the
operation would have done at that moment. One thing is missing from it on purpose: a line may be
added to, edited in or removed from an order that has been cancelled since the handler looked, so
`Lifecycle` asks of the header only what cannot be taken back (that it is placed, and locked).

### Notifications

`Commit`, `RollBack`, `Emit`, `Listen`: the transaction of a writer, the subscriber, the
listener. `BecomeDue` and `Sweep`: the grace period and the cron. `Claim`, `Skip`, `Deliver`,
`Finish`: `notifyActivities` row by row, where the claim is the conditional UPDATE of
`notified_at` that makes rivals wait. `Restart` drops everything that is in memory.

### StoredFiles

`row` is the row of a top-up's bill or a shipment's label, `bucket` the objects, named for
the upload that put them. `Look`, `Put`, `Find`, `Write`, `Drop` are an upload, `Look`,
`Remove`, `Drop` a removal; `StartCleanup`, `CleanRow`, `CleanObject` a nightly pass over the
rows it listed at its start. `Fail`, `LoseObject`, `FailCleanup`, `Restart` are what goes wrong.

### CreditGroups

One organization, one fee type. `CheckOwner`/`Own`, `CheckFee`/`Price`, `CheckEnrol`/`Enrol` are
the handlers whose check and write are separate; `SetBase`, `Join`, `Leave`, `Disband`,
`Withdraw` those that are one statement; `ReadBase` to `UseQuote` the four reads of
`resolveClientFee`.

### Statements

`ledger` is `credit_history` with the columns that reads use, `balance` is `users.credit`, `now`
the database's clock in milliseconds. A posting is `BeginPosting` or `BeginVoid` (BEGIN, which
fixes `now()`) and `Post` (COMMIT, on the balance found) or `Refuse`; a lock in a credit group
writes two rows with one stamp. `view` is a client that follows `nextCursor`: `Open` fixes the
filters, each `NextPage` is one SELECT of `limit + 1` rows behind the cursor. The summaries are
operators over a `Slice` of the ledger: `Spent`, `ToppedUp`, `Earnings`, `MoneyIn`, `MoneyOut`,
`Closing`. `start` and `told` in a view record what could be and was seen; they decide nothing.

### Access

`life` says which organizations and groups have rows, `account` holds the unique columns of
`users`, `member`, `role` and `grant` are the three link tables. Handlers that check in one
statement and write in another are two actions (`BeginAssign`/`Assign`,
`BeginAddMember`/`AddMember`); `removeMember` lists the groups, then deletes in a transaction
(`BeginRemoveMember`, `RemoveMember`); `createUser` is `BeginCreateUser`, `ResolveCode` (after the
await of bcrypt), `SaveUser`, `SaveMember`, `SaveRole`, and may end after each. `Erase` is
ON DELETE CASCADE. A question is `Ask` (the caller, and for a service the membership and the
organization's groups), `ReadRoles`, `ReadGrants`; with `org = None` it is the guard's. `watch`
observes what was true while a question was open, and decides nothing.

## 3. Runs

| run | question | result | states |
|---|---|---|---|
| `WalletCharges` | Do three interleaved requests over an order and a shipment keep wallets, ledger and fees consistent, when a client owns their own group and a profile is edited? Is every commit one atomic posting on abstract books (`WalletKeepsBooks`), and is each request answered when owners of each other's groups can deadlock? | holds | 104,878 |
| `ShipmentStock` | Do shipments on the same lines over-ship, lose or double stock; does a check under row locks stand until the commit (`LockedLinesStand`); is each commit all or nothing (`StockIsAShelf`); can requests that lock lines in opposite orders all get stuck (`NeverStuck`)? | holds | 374,046 |
| `OrderLife` | Do three interleaved requests over two orders keep to the life of an order, does the history tell it, and does checking, loading and saving in steps come to operations that happen at once (`OrdersHaveALife`)? | holds | 279,773 |
| `NoticeDelivery` | Is each activity told once and in the end, through a restart, a failed fan-out or a change of staff? | holds | 89,626 |
| `FileKeeping` | Does a row ever point at nothing; is anything orphaned without a failure or overlap; do stale files go? | holds | 250,120 |
| `GroupBilling` | Do rates stay unambiguous and every markup paid out while administrators change the groups under a quote? | holds | 875,679 |
| `LedgerReading` | Does a reader who pages to the end see every row once; do balances, summaries, earnings, periods and days tell one story? | holds | 130,538 |
| `AccessRules` | Do roles go with memberships, are accounts distinct, and is every verdict earned, while all of it changes under the questions? | holds | 238,526 |
| `WalletTwoLocks` | "Exactly one [lock fee] per target" (`entities/total-fee.entity.ts`) | violated | |
| `WalletProfile` | "Every change is mirrored in `credit_history`" (`entities/user.entity.ts`) | violated | |
| `ShipmentStaleLine` | `shipped_qty` is what was "shipped back out via locked shipments" (`entities/order-detail.entity.ts`) | violated | |
| `LedgerLastDay` | The closing balance is the "balance after the day's last entry in the slice" (`common/credit-ledger.util.ts`) | violated | |

The four violations are races that the code does not exclude:

* *Two locks of one order* (or shipment) both pass the check of `locked`, which is made
  before the transaction; the client pays twice and two protected fees stand.
* *A profile edit* loads the `users` row, awaits bcrypt, and saves the row: a top-up or
  charge in between is undone, with no ledger row.
* *An order-side edit of a line* that was loaded before a shipment was locked writes the
  old `shipped_qty` back; the same goods can be shipped again.
* *Two transactions of one wallet* overlap: the one that began first posts last. Its row is
  the older one and holds the newer balance, and the day closes on the balance of the other
  row. (A lock whose client owns their own credit group writes two rows with one stamp, and
  then a random id decides.)

### Claims that overlapping requests break

The code says more of itself that holds only while requests on a row follow one another. Each
of these claims is stated in its module as the code makes it, for every row and with any
requests in flight, and a small configuration beside the runs of `PROJECT.json` refutes it, in
seconds: `tlc -config WalletTwoVoids.cfg MCWallet` and so on. All but one are races; a clean-up
that dies needs no second request.

| configuration | refutes | what the code says | because |
|---|---|---|---|
| `WalletTwoVoids.cfg` of `MCWallet` | `VoidedFeesNetOut` | Of voided fees "per-org earnings net out automatically" (`entities/total-fee.entity.ts`) | two voids of one fee test `voidedAt` before they wait for the client's row, and both refund the fee |
| `ShipmentReopened.cfg` of `MCShipments` | `ClosedIsTerminal` | Done and cancelled are "terminal" (`entities/shipment.entity.ts`, `shipment.service.ts`) | a lock (or status change) that loaded the shipment before it was cancelled saves it back to AWAITING, locked |
| `ShipmentRefilled.cfg` of `MCShipments` | `LockedIsFrozen` | "Locking freezes the client out" (`entities/shipment.entity.ts`) | a client's edit that was checked before the lock replaces the items after it: the shipment lists other goods than were drawn |
| `OrderLastLine.cfg` of `MCOrders` | `EveryOrderKeepsALine` | "An order must keep at least one line" (`order.service.ts`) | two removals of the last two lines both count two |
| `OrderRevived.cfg` of `MCOrders` | `CancelledIsTerminal` | Of cancelled orders, "no further transitions" (`order.service.ts`) | an edit that loaded the order before it was cancelled saves it back to IN_TRANSIT |
| `OrderOverwritten.cfg` of `MCOrders` | `ResolvedLinesLeft` | On arrival, "lines already resolved [...] are left untouched" (`order.service.ts`) | an arrival that listed a line as pending receives it although it was cancelled in between |
| `FileTwoUploads.cfg` of `MCStoredFiles` | `ReuploadDropsPrevious` | "A re-upload deletes the previous object" (`organization.service.ts`, `shipment.service.ts`) | two re-uploads read the same previous key; the second takes the place of the first one's and drops only what both had seen |
| `FileCleanupDies.cfg` of `MCStoredFiles` | `OnePassDropsBoth` | Row and object go "in one pass, so storage and DB never drift" (`credit-bill-cleanup.service.ts`, `shipment-label-cleanup.service.ts`) | the row is deleted, then the bucket refuses (which is only logged) or the process dies: no later pass finds the object |
| `AccessLeaver.cfg` of `MCAccess` | `EveryRoleHasAMember` | "User must be a member of the org first", and loses the roles "after leaving" (`organization.service.ts`) | an assignment that has seen the membership inserts the role after `removeMember` has committed (`src/scripts/migrations/0017-remove-orphan-user-groups.sql` cleans up such rows) |

`ShipmentChecks.cfg` of `MCShipments` is the opposite case: it has shipments on which requests
overlap, so that one may be locked twice and its goods drawn twice, and passes. Even then no
steady line is over-shipped, and what was checked under row locks stands (817,859 states).

More behaviours of the same kind are in the models, and no property speaks of them:

* an extra fee may be charged against a target that was closed after `createFee` looked at it;
* a line's quantity may be edited below what has been shipped out of it;
* deleting an organization removes its ledger rows and leaves `users.credit` as it is. `Wallet`
  and `Statements` keep their organizations, so `LedgerExplainsCredit` and `SummariesAgree` do
  not speak of wallets that have been through this.

### Where requests may overlap

Much of what one would like to say of orders and shipments is true only while two requests
do not hold the same stale entity. What the code claims for everybody is stated for everybody,
and the runs and configurations above refute it. What is left where requests do not overlap is
stated too, with less weight: such a property says that the handlers are right one after the
other on a row while others interleave around it, and it does not catch the race. Each of these
modules has a constant that names where requests may overlap; the others are served one at a
time:

* `Orders!Overlapping`: orders of which one *row* may be worked on by several requests; on
  the others several requests still run at once, on different rows. `OrderLife` has one of
  each kind; `HandledOnlyOnceLocked` holds for both, the rest is stated for the second.
* `Shipments!Overlapping`: shipments with two requests in flight. Requests on *different*
  shipments always interleave, and these share lines. `ShipmentStock` leaves it empty: with two
  locks of one shipment at once the goods are drawn twice. `ShipmentChecks` has all shipments in
  it, and `NeverOverShipped`, `TypeOK` and `LockedLinesStand` are proved for any value.
  `Shipments!EditedLines` are the lines that an order-side edit may save at any time; in both
  one of the two.
* `Wallet!ProfileUsers`: users whose profile is edited. `NoOverdraft` holds for them too, the
  agreement of ledger and balance for the others.
* `Statements!Overlapping`: users with several transactions open, or two rows in one
  millisecond. `WalkTellsAll` and `SummariesAgree` hold for them too, `DaysClose` for the others.
* `Access!Overlapping`: users about whom several requests write at once. `VerdictsAreEarned`,
  `AccountsAreDistinct` and the foreign keys in `TypeOK` hold for them too,
  `RolesGoWithMembership` for the others.
* `StoredFiles!Overlapping`: owners whose uploads, removals and clean-ups overlap. In
  `FileKeeping` one bill and the label do; `RowsHaveObjects` and `StaleFilesGo` hold there
  too, `NoDrift` only for the other bill.

### Bounds

Every request is served once, so the number of `Requests` bounds a behaviour; no other state
constraint is used. The bound is chosen per run so that each hazard has enough actors:

* Wallet: three requests (a lock needs two to be disturbed, three to deadlock with a
  competitor present), two users who own each other's groups and of whom one owns their own,
  an order and a shipment, rates 0 and 2 (free, and marked up), opening balances 3 and 1, so
  that a second charge fails to be covered.
* Shipments: two shipments over two lines are the smallest system with both a shared line
  and opposite lock orders; quantities 1 and 2 allow a draw in one, two or too many parts. Three
  requests over shipments that may overlap are two locks of one and a rival for its lines.
* Orders: two lines each, three requests: an arrival that finds one line needs a second one
  that changes, and a third request that interferes.
* Notifications: three activities against a sweep of two leave one outside the batch; two
  events and a sweep give three rivals; `MaxFaults` = 1 is any one restart, failed fan-out
  or change of staff, anywhere.
* Files: three requests on a bill and a label that may overlap and a bill that may not;
  `MaxMishaps` = 1 is any one failure or restart.
* Credit groups: two groups (ambiguity needs two), two users, two handlers at a time, each
  starting again without end; fees 1 and 2, above and below each other.
* Statements: three postings on two opening rows (a lock with a commission, a fee and its void,
  a correction), pages of one row, so that each row is an edge; `MaxTime` = 2 gives three
  milliseconds for up to six rows (`Ids`), `DayLength` = 2 two days. One reader is enough:
  readers share nothing.
* Access: four requests (assign, remove and a question with its three statements need three;
  the fourth interferes), a member, a member without a role, and two accounts to create, with
  a single free code between them; an organization that lives and one that is created.

The refutations use the smallest instance that has the race: one wallet, order, shipment or bill,
and the two requests with what must go before them (`WalletTwoVoids` needs four: a lock, a fee,
two voids). Where two requests overlap on a row, its owner is in `Overlapping`.

Deadlock is checked in `GroupBilling`. In the other runs every request may have been served,
or every activity told, so the system rightly stops.

Symmetry is used only in runs without temporal properties other than action properties and
a refinement's safety part, and only over sets whose members the run does not tell apart.

### Fairness

* `Wallet`: weak fairness of what a started request does next. Node runs its
  handlers on, PostgreSQL grants a lock that is free, finds deadlocks after
  `deadlock_timeout` and aborts a victim (`AbortDeadlock` is part of `Continue`). Starting a
  request and failing are never assumed. Weak fairness suffices although several requests
  compete for a row: each of them is served once, so a row is not taken again without end.
* `Notifications`: time passes (`BecomeDue`), the cron starts a sweep every minute, and a
  fan-out that has started goes on. The *listener* is not fair: its event is in memory and
  may be lost, so delivery rests on the sweep alone. Faults are bounded by `MaxFaults`: a
  delivery that fails at every attempt would hold up all younger rows (a listed hazard).
* `StoredFiles`: requests run on, the nightly crons fire. That shipments close or that two
  weeks pass is not assumed.

No fairness is needed in the other modules, of which only safety is stated. That the locks of
`Shipments` leave nobody waiting for good is the invariant `NeverStuck`: with requests in flight
one of them is `Ready`, PostgreSQL's choice of a victim in a cycle of waits included, and `Ready`,
which spells out the guards of a request's next step, is exactly when that step is enabled.
`Wallet` has the liveness property itself; that its requests never all wait (`SomeoneReady`) is proved.

## 4. Proofs

`WalletProofs`, `ShipmentProofs`, `OrderProofs`, `NotificationProofs`, `CreditGroupProofs`,
`StoredFileProofs`, `StatementProofs` and `AccessProofs` prove, for every set of users, targets, requests, lines,
activities, sweeps, organizations and groups (finite or not) and any finite set of shipments,
every rate, price and quantity, every page size and clock, any number of faults, and whichever
requests overlap unless the theorem says otherwise:

| theorem | property | in words |
|---|---|---|
| `WalletProofs!TypeCorrect` | `TypeOK` | |
| `WalletProofs!NeverOverdrawn` | `NoOverdraft` | no interleaving overdraws a wallet |
| `WalletProofs!HeldReadsStand` | `HeldBalanceIsCurrent` | a balance read under a lock stays true until the commit |
| `WalletProofs!LedgerExplains` | `LedgerExplainsCredit` | each ledger chains from zero to the balance |
| `WalletProofs!LockedIsBilled` | `LockedHasFee` | what is locked has its protected fee |
| `WalletProofs!BooksOnlyGrow` | `BooksAppendOnly` | fees are at most voided, ledgers only extended |
| `WalletProofs!KeepsBooks` | `WalletKeepsBooks` | every commit is one posting, or a charge with its commission, on abstract books |
| `WalletProofs!FeesAreBilled` | `LiveFeeBilled` | a live fee was charged once and in full; no commission exceeds its charge |
| `WalletProofs!NeverAllWaiting` | `SomeoneReady` | as long as a request is under way, one can take a step |
| `WalletProofs!EveryStepMovesOn` | `OneMovesOn` | each step moves one request forward on a way it never walks back |
| `WalletProofs!MirroredWithoutProfiles` | `EveryChangeMirrored` | no balance changes without its ledger row, if no profile is edited |
| `ShipmentProofs!TypeCorrect` | `TypeOK` | |
| `ShipmentProofs!NeverMoreThanReceived` | `NeverOverShipped` | no set of shipments over-ships a line that is not edited |
| `ShipmentProofs!ChecksStand` | `LockedLinesStand` | a check under a row lock holds until the commit |
| `ShipmentProofs!StockMatches` | `StockMatchesShipments` | shipped quantities are what the locked shipments draw, one request at a time per shipment |
| `ShipmentProofs!IsAShelf` | `StockIsAShelf` | all goods of a shipment leave or return at once, or none do, under the same condition |
| `ShipmentProofs!NeverAllWaiting` | `SomeoneReady` | in whatever order lines are locked, one request can take a step |
| `ShipmentProofs!EveryStepMovesOn` | `OneMovesOn` | each step moves one request forward |
| `ShipmentProofs!ShippedViaLocked` | `ShippedViaLockedShipments` | no line ships but via locked shipments, if none is edited from the order's side |
| `OrderProofs!TypeCorrect` | `TypeOK` | |
| `OrderProofs!BilledBeforeHandled` | `HandledOnlyOnceLocked` | no goods are handled for an order that was never locked |
| `OrderProofs!HistoryTells` | `HistoryTellsRows` | the history replays to the rows of an order that is not in `Overlapping` |
| `OrderProofs!KeepsALine` | `AlwaysALine` | such an order keeps a line |
| `OrderProofs!ArrivalSettlesAll` | `ArrivalSettlesLines` | its arrival leaves no line pending |
| `OrderProofs!ClosedStays` | `ClosedStaysClosed` | what is cancelled or locked in it stays so |
| `OrderProofs!HasALife` | `OrdersHaveALife` | on such orders the handlers implement `Lifecycle` |
| `NotificationProofs!TypeCorrect` | `TypeOK` | |
| `NotificationProofs!OneDeliverer` | `ClaimsStand` | only the holder of a claim delivers, and delivers first |
| `NotificationProofs!DeliveryIsAMailbox` | `InboxIsAMailbox` | listeners, sweeps and faults implement `Mailbox` |
| `NotificationProofs!NoClaimLeftBehind` | `ClaimsInHand` | a claim not delivered yet is in the hands of a worker still to deliver it or to give it back |
| `NotificationProofs!NeverAllWaiting` | `SomeoneReady` | of the workers under way one can take a step |
| `NotificationProofs!EveryFanOutShrinks` | `WorkersMoveOn` | each step of a worker moves it on or leaves it with less to deliver |
| `CreditGroupProofs!TypeCorrect` | `TypeOK` | |
| `CreditGroupProofs!OneGroup` | `OneGroupPerClient` | no client is in two credit groups |
| `CreditGroupProofs!GroupsLeaveNothing` | `NothingOutlivesItsGroup` | a deleted group leaves no fee and no membership |
| `CreditGroupProofs!MarkupIsPaid` | `EveryMarkupHasAPayee` | no quote is below the organization's rate, none above it has nobody to pay |
| `StoredFileProofs!TypeCorrect` | `TypeOK` | |
| `StoredFileProofs!RowsKeepObjects` | `RowsHaveObjects` | whatever overlaps, fails or dies, no row points at nothing |
| `StoredFileProofs!NothingDrifts` | `NoDrift` | without failure, an object is in its row or in the hand of whoever drops it |
| `StatementProofs!TypeCorrect` | `TypeOK` | |
| `StatementProofs!WalksTellAll` | `WalkTellsAll` | a reader who pages to the end has seen each row once |
| `StatementProofs!FiguresAddUp` | `SummariesAgree` | rows add up to balances, commissions to earnings, periods and days to the whole |
| `StatementProofs!DaysCloseOnTheBalance` | `DaysClose` | a day closes on all that was posted up to it, for users not in `Overlapping` |
| `AccessProofs!TypeCorrect` | `TypeOK` | types, and no foreign key dangles |
| `AccessProofs!AccountsDiffer` | `AccountsAreDistinct` | no e-mail or code twice |
| `AccessProofs!LeaversHoldNoRole` | `RolesGoWithMembership` | no role without the membership, where requests about a user do not overlap |
| `AccessProofs!VerdictsHold` | `VerdictsAreEarned` | one group entitled whom a question admits; none entitled all along whom it refuses |

`HeldReadsStand` is about an invariant that no run lists: it holds the arguments of the theorems
beside it together. `OneMovesOn`, `WorkersMoveOn`, `ClaimsInHand` and
the `SomeoneReady` of `NotificationProofs` are defined beside their theorems. No run lists the
`SomeoneReady` of `Wallet` either, which a run of `EveryRequestAnswered` could not pass without,
nor `ClosedStaysClosed`, which follows from `OrdersHaveALife`: `Lifecycle` has no step that it
forbids.

They assume only the named ASSUMEs of the modules: DTO bounds on amounts (rates not
negative, prices and quantities positive, some rate and some quantity), creation stamps that are
natural numbers, who places and owns what, and that NULL is not
a row or a request, that a database holds finitely many shipments and ledger rows, and, of the
rows a behaviour starts from, what foreign keys and unique indexes guarantee. The opening ledger
of `Statements` is one that transactions which did not overlap have left, for the users that are
not in `Overlapping`: their rows lie apart and each bears the balance up to it. Each module's
run evaluates these. Beside them, `StockMatches` and `IsAShelf` are for `Overlapping` empty,
which is what `ShipmentStock` runs.

**What the violations are due to.** Two of the comments that a run refutes are proved for the
system without the one writer that the counterexample uses: `MirroredWithoutProfiles` for
`ProfileUsers` empty, with all other requests overlapping as they like, and `ShippedViaLocked` for
`Overlapping` and `EditedLines` empty, with shipments interleaving on their lines. The code
enforces neither condition: together with the runs they say what a fix has to exclude. Of the
other refuted comments no such theorem is stated. Without the overlap that refutes them, what
remains is the check that the handler makes.

**Waiting.** Liveness under fairness is not TLAPS's, but the two facts it rests on are safety.
The first: somebody can always go on. Whoever holds a row lock is at work on it (`HoldersWork`),
so one who waits does so for a request that is under way; if none were ready, every request under
way would be a waiting lock transaction, and the set of all of them is a circle of waits in the
sense of PostgreSQL's detector, of which a victim is ready (`NeverAllWaiting`). The second: no
request walks back. `EveryStepMovesOn` orders the points a request may be at, with the number of
lines still to be taken, and shows that each step moves exactly one request up and leaves the others
where they are; a worker of `Notifications` loops over a batch, and there the batch shrinks
(`EveryFanOutShrinks`). What is left for TLC is that a fair scheduler turns the two into an
answer. `NoClaimLeftBehind` is the safety core of `EveryActivityTold`: nothing is claimed that
nobody will deliver or give back, a restart included.

**Wallet.** Types alone are not inductive: the refund of a fee needs the fee's row, so
`TypeInv` adds `VoidedFeesExist`. `NoOverdraft` is not inductive either, since a lock writes a
balance computed two steps earlier: `MoneyInv` adds `HeldBalanceIsCurrent` (the read is still
the committed balance and covers the charge, because the row is held) and `SeenNotNegative`
(a profile edit writes back a balance that was not negative once). The key lemma,
`OthersStand`, says that a step of one request that leaves the rows held by the others
alone keeps their reads true; `CommitLockMoney` then shows that two writes on computed
balances equal one posting each, also when client and owner are the same user.

With the held reads true, every ledger entry starts at the committed balance, and
`PostingAgrees` (via `ChainAppend`, about a chain extended by one entry) carries
`LedgerExplainsCredit`. `FeeInv` is what keeps `LockedHasFee`: a request that has not committed
has no fee row (`Unwritten`), a void is under way only for fees that may be voided
(`VoidsAllowed`), and a header that is locked, or an entity of an edit that holds it locked,
is already billed (`HeadersBilled`, `EditsBilled`): a stale save can bring the lock back,
but not a lock without its fee.

`LiveFeeBilled` counts the ledger rows linked to a fee. The invariant behind it,
`LiveOnesBilled`, says which they are: none of a fee that does not exist, and of a live one the
charge alone, the charge and a commission of at most as much, or nothing where a lock is free.
A posting adds one row, linked to the request that posts it (`BookedLinks`), and a void takes
its fee out of the live ones in the step that adds the third row; two voids of one fee, which
the code allows, speak of a fee that is not live. A fold over at most two rows is computed by
hand (`EarnedOfTwo`).

The refinement maps the book to the balances and ledgers of the users whose profile nobody
edits. With the held reads true, a commit of a lock is the book's charge with its
commission at once, every other posting is a book entry, and everything else, locks, reads,
refusals and the victim of a deadlock included, leaves the book as it is.

**Shipments.** `StockInv` adds to the types (`FulfilledExist`: a shipment in a request's hands
has a row) that a request holds computed quantities only while it works on lines
(`NothingLockedYet`), that each of them stands (`LockedLinesStand`) and the property itself. At
the commit every written quantity was checked against the line as it is now.

What is said of stock needs that nobody else has the same shipment in hand. `AloneInv` adds to
`StockInv` that requests at work are on different shipments (`Alone`) and that what each has read
is still so (`Settled`): the shipment shows the status and lock that the request's change starts
from (`Changing`), the quantities it moves are the items as they are (`Moving`), and all of their
lines are held when it saves (`Moved`). The stock of a line is then counted as a set of units,
one for each piece a locked shipment draws (`UnitsSplit`, `UnitsChange`), so that a lock or a
cancellation changes the count by exactly the items of its shipment; the `Math.max(0, ...)` of a
return never clips, because what is returned is among what was counted (`ReturnIsWhole`). The
refinement of `Shelf` is read off the same facts (`StepIsOnTheShelf`).

**Orders.** A stale save may unlock a header again, and a stale lock may come back, so the header
alone proves nothing; what only ever grows is the LOCKED row in the history (`Billed`, kept by
`Forward`). `Inv` says that every row that is locked, in the warehouse or settled has it
(`RowsBilled`), and so has every request that is about to write such a row from what it loaded,
unless it is the lock itself (`Covered`). That needs what a request loaded to be, or to have
been, there (`Bound`), and no line without its order (`LinesOfPlaced`), since an order is placed
with lines of its own.

The other four theorems are about the orders that are not in `Overlapping`, and share one
invariant, `QuietInv`. Two requests that touch one row touch a row of an `Overlapping` order
(`Apart`), so what a request has loaded of a quiet row is what the row is until it writes it
(`Current`): the entity equals the row but for the columns the handler set, and the dirty columns
are exactly those. A save then does what its history entry says, which is `HistoryTellsRows`; a
header found not cancelled is not cancelled when it is written, which is `ClosedStaysClosed`; the
pending lines an arrival found are all there are (`ArrivalCurrent`), and a line about to be
removed has a sibling nobody else can remove (`AnotherLine`).

The refinement of `Lifecycle` needs more: that the *checks* still hold at the COMMIT. `Lawful` says
it of each request under way: a header about to be tracked may still be edited, one about to be
locked is still unlocked and in transit, the status about to be written is still allowed from the
status as it is, the receipt of a line from the line as it is. All of these are about rows the
request touches, but for one: that the order of a receipt is locked, which no step undoes
(`HeadersAdvance`). `StepKeeps` shows once that a step of one request leaves the quiet rows of the
others alone, and `LawfulStays` that this keeps them lawful. Then each kind of COMMIT is one
operation (`LifeOfCommitOrder` and its neighbours), and a commit on an order in `Overlapping`
leaves the quiet ones as they are (`Elsewhere`).

**Notifications.** `DeliveryInv` adds to `ClaimsStand` that whatever a worker has in hand is
committed (`WrittenRows`) and that an activity not yet told is in nobody's inbox
(`ToldOrEmpty`); a claim that is lost in a fault leaves both true. With it the refinement is
one lemma per kind of step: `CommitSends`, `DeliverTells`, `ReadOpens`, and all others leave
the mailbox as it is. That each activity is told *in the end* is liveness, and TLC's.

**Credit groups.** `BillingInv` adds to the types what a handler has read by the stage it is at
(`StagesTyped`), and that a finished quote is sound; since the two rates and the owner are
read at different times, soundness rests on the maximum and on the last read alone.
`TablesInv` says that any two groups of one client are the same and that a group without a
row has no fee and no member. It is kept by the foreign keys and the unique index at the
write, not by the checks before it.

**Stored files.** No lock and no transaction spans the row and the bucket; the argument is that
every upload has a key of its own. `Kept` says that a key which somebody has read, a clean-up
has listed or a row has (`Known`) names an upload that is over, for the owner of that row, and
that a row with the key has the id read with it: a deletion by id takes it (`RemovedIsGone`). So
a key about to be dropped is in no row (`DroppedAreGone`), and none can get it again, as the
uploads still under way write other keys (`Uploaded`). Every step is `Steady`: what was over
stays over, and a row that changes its key takes one that was not. `Typed` adds to the types
what a request holds at each point (`Asked`).

`NoDrift` is the other direction, from the bucket to the rows, and holds only without failures
and where nothing overlaps. `DriftInv` says that an owner not in `Overlapping` is in the hands of
one request or one pass (`Alone`), that what it has read of the row is the row (`ReadStands`,
`ListStands`), and that each object is accounted for: in its row, or carried by the upload that
is about to write it, the request that is about to drop it or the pass that is (`Accounted`).

**Statements.** A walk's invariant (`WalkInv`) says of a walk under way that the rows it began
with are either behind its cursor and told once or ahead of it and not told (`Standing`), that
no row was told twice and none that does not exist (`ToldOnce`), and that the rows it began
with stand (`Began`). The order `Newer` is total and strict on rows with distinct ids
(`RowsKnown`), so a page is cut at a definite row (`CursorCuts`) and each cursor lies behind
the last (`CursorAdvances`). Rows posted meanwhile have new ids, and none of the four parts
speaks of those (`WalksIgnoreNewRows`).

The figures are folds over sets of rows. `StatementProofs` first shows what the fold is: a sum
over a finite set exists (`SumExists`), does not depend on the order in which the fold picks
its elements (`SumIsAnySum`), grows by the weight of an added row (`SumGrows`), splits over a
partition (`SumOfParts`) and may be taken key by key (`SumByKey`). The induction is over the
subsets of a finite set, by a smallest counterexample (`Smallest`, from the library's `WFMin`).
`BooksAdd`, that each wallet's rows add up to its balance and each organization's earnings to
what was kept, is then an invariant, and `SummariesAgree` follows from it by splitting the slice.
For `DaysClose` the invariant is `OneByOne`: rows of a user lie apart and each bears the sum up to
it (`Steps`), and a transaction that is open on the user is the only one and stamped after
everything posted (`Serial`), so that the order of the stamps is that of the commits.

**Access.** `Typed` (types and foreign keys, by row and by request) is inductive, and so is
`AccountsAreDistinct`, by the unique indexes alone. `RolesGoWithMembership` needs `RoleInv`: two
handlers write about one user only where requests overlap (`OneWriter`), a handler about to
insert a role has the membership or its group is gone (`MayHold`, with `GroupsBorn` since a
group deleted is never created again under its id), and one about to remove a member has
listed every group in which the user holds a role (`KnowsRoles`). `VerdictInv` relates an open
question to what was observed since it was asked: the groups in hand are in scope and were
seen to be held (`Sound`), the observation is up to date (`Seen`), and a group that entitled
the caller all along is among those in hand.

Only model-checked: liveness (`EveryRequestAnswered`, `EveryActivityTold`, `StaleFilesGo`), of
which the safety part is proved (see *Waiting*), and that `Ready` is when a step is enabled, the
second half of `Shipments!NeverStuck`, which needs ENABLED; its first half is `NeverAllWaiting`.
Every other property of a passing run is a theorem. The violations are TLC's alone.

## 5. Abstractions

* Money is whole cents. `scaleFee` rounds a product to cents, which drops float noise only;
  the differences of floats elsewhere (`extra-fee.service.ts`, `organization.service.ts`) are
  not rounded in the code, and what they may accumulate is not modelled.
* A lock's rates and group are nondeterministic in `Wallet` (any combination the constants
  admit); how a quote comes about is in `CreditGroups`.
* `Wallet` keeps two header columns; an edit of other columns is a save that changes neither.
  Locking an order and a shipment differ in their lines only, which are in `Shipments`.
* Foreign keys: an INSERT that refers to an order line waits for a transaction that holds it
  (`Place`, `CommitEditItems`), and one that refers to a deleted credit group fails
  (`Referable`). The key-share locks that inserts take on `users` rows are left out: they
  would add waits, never a balance.
* Line removal in `Orders` cascades in the database to the items of shipments. A shipped line
  belongs to a locked order; its removal by a reviewer is not in `Shipments`.
* Validation by DTOs bounds the inputs (named ASSUMEs); every request of the other modules is
  one the permission guard allows, and `Access` says what that means.
* `Statements` sees the wallet through its commits only: one movement of a client's balance,
  for a lock the owner's too, and the reversal of a posted fee. Which of them a handler may
  make is in `Wallet`. Its ledger has no two rows of one id, as the primary key has it.
* `Access`: a check and the statement after it that only reads are one step where nothing a
  property speaks of could tell them apart (the membership and the list of groups in `Ask`).
  Which permissions open which route (`rbac/permissions.config.ts`) is the constant `Routes`.
  The caller of `createUser` is one who may call it.

### Not modelled

* *Authentication*: tokens, password hashing and sessions share no state with the rest.
* *Inventory*: one SELECT over order lines; what it shows is the state of `Shipments`.
* *Reports*: the counts of orders, lines and shipments by status are one GROUP BY each; the
  credit figures are in `Statements`.
* *Controllers and DTOs*: routing and validation. *The permission catalogue*, names and their
  uniqueness, order numbers, item names, presigned URLs, HTTP: nothing stated here depends on
  them.
* *The cascades of a deleted organization* outside `Access` (orders, shipments, ledger, fees,
  credit groups): everything of the organization goes at once; what that means for a balance
  is said above.

## 6. Plan

Done, in this order, the most important first: `Wallet` with `Bookkeeping` and its proofs,
`Shipments` with `Shelf` and its proofs, `Orders` with `Lifecycle` and its proofs, `Notifications` with `Mailbox`
and its proofs, `StoredFiles`, `CreditGroups`, `Statements` and `Access`, each with its proofs.

Every safety property that TLAPS can state and every refinement is proved as well as checked.

Next:

1. A composition of the lock: the charge in `Wallet`, the stock in `Shipments` and the header
   in `Orders` commit in one transaction; one module should show that they do so together.
2. `StockMatches` and its neighbours for any `Overlapping`, stated of the lines that only
   shipments served one request at a time draw from.
3. The cascades of a deleted organization on orders, shipments, ledger and credit groups.
