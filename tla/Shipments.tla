----------------------------- MODULE Shipments ------------------------------
(***************************************************************************)
(* Stock: the received order lines (order_details) of one client, the      *)
(* shipments that draw from them (shipments, shipment_details), and every  *)
(* handler that changes either.  Money is in Wallet, the life of an order  *)
(* before its lines are received in Orders.                                *)
(*                                                                         *)
(* A request loads the shipment and checks it before its transaction; in   *)
(* the transaction it reads the shipment_details rows, takes SELECT ...    *)
(* FOR UPDATE on one line after the other, saves the shipment it loaded at *)
(* the start, and commits.  Requests interleave between any two steps.     *)
(***************************************************************************)
EXTENDS Integers, FiniteSets

CONSTANTS
  Lines,        \* order_details rows that hold received goods
  EditedLines,  \* the lines an order-side edit may save while shipments run
  Shipments,    \* shipments
  Overlapping,  \* the shipments that may have two requests in flight at a time
  Requests,     \* HTTP requests; each is served once
  Qtys,         \* quantities a line or an item of a shipment may have
  None          \* SQL NULL, no row

ASSUME LinesAssumption == EditedLines \subseteq Lines /\ Overlapping \subseteq Shipments
ASSUME ShipmentsAssumption == IsFiniteSet(Shipments)
ASSUME QtysAssumption == Qtys \subseteq Nat \ {0}   \* @IsPositive in the DTOs

VARIABLES
  line,      \* [Lines -> Line], order_details rows
  shipment,  \* [Shipments -> Header \cup {None}], shipments rows
  items,     \* [Shipments -> [Lines -> Nat]], shipment_details.qty, 0 where there is no row
  rowLock,   \* [Lines -> Requests \cup {None}], holder of FOR UPDATE on a line
  tx         \* [Requests -> Tx], where each request is and what it has read

vars == <<line, shipment, items, rowLock, tx>>

-----------------------------------------------------------------------------
(* Rows *)

LineStatus == {"RECEIVED", "NOT_ARRIVED", "CANCELLED"}
Line == [status: LineStatus, qty: Nat, shipped: Nat]
LineColumns == {"status", "qty", "shipped"}

Status == {"AWAITING", "DONE", "CANCELLED"}
Header == [status: Status, locked: BOOLEAN]
Columns == {"status", "locked"}

ASSUME NoneAssumption == None \notin Requests \cup Header \cup Nat

Placed(s) == shipment[s] # None
Drawn(of) == {l \in Lines : of[l] # 0}
Nothing == [l \in Lines |-> 0]
Remaining(l) == line[l].qty - line[l].shipped

\* validateItems: warehoused, and enough of it left; a soft check, without locks.
Requestable(want) ==
  /\ want # Nothing
  /\ \A l \in Drawn(want) : line[l].status = "RECEIVED" /\ want[l] <= Remaining(l)

ItemLists == [Lines -> Qtys \cup {0}]

-----------------------------------------------------------------------------
(* Requests in flight *)

Fresh        == [at: {"fresh"}]
Answered     == [at: {"answered"}]
\* updateShipment, past its checks of the shipment
EditingItems == [at: {"edit_items"}, shipment: Shipments]
\* lockShipment ("take") and updateStatus ("return" the goods of a locked shipment that
\* is cancelled, otherwise "none"): the entity to save, the shipment_details rows loaded
\* with it, the quantities to move, the shipped_qty computed for the lines locked so far
Fulfilling   == [at: {"begin", "lines", "save"}, shipment: Shipments, entity: Header,
                 rows: SUBSET Lines, effect: {"take", "return", "none"},
                 want: [Lines -> Nat], new: [Lines -> Nat \cup {None}], dirty: SUBSET Columns]
\* updateDetail and updateDetailStatus of the order
EditingLine  == [at: {"edit_line", "save_line"}, line: EditedLines, entity: Line,
                 dirty: SUBSET LineColumns]

Tx == Fresh \cup Answered \cup EditingItems \cup Fulfilling \cup EditingLine

InFlight(r) == tx[r].at \notin {"fresh", "answered"}

Goto(r, t) == tx' = [tx EXCEPT ![r] = t]
Answer(r) == Goto(r, [at |-> "answered"])

\* Only an Overlapping shipment is loaded while another request is at work on it.
Idle(s) ==
  s \in Overlapping \/
  \A q \in Requests : tx[q].at \in {"edit_items", "begin", "lines", "save"} => tx[q].shipment # s

-----------------------------------------------------------------------------
(* The database *)

Unlocked(l) == rowLock[l] = None

\* FOR UPDATE; (mutant) a plain SELECT.
HoldNothing(l, r) == rowLock
Hold(l, r) == [rowLock EXCEPT ![l] = r]

\* The end of a transaction; (mutant) a transaction left open.
ReleaseNothing(r) == rowLock
Release(r) == [l \in Lines |-> IF rowLock[l] = r THEN None ELSE rowLock[l]]

\* save(entity): the columns in which the entity differs from the row it SELECTs ...
Dirty(entity, row) == {c \in Columns : entity[c] # row[c]}
DirtyLine(entity, row) == {c \in LineColumns : entity[c] # row[c]}

\* ... are the ones its UPDATE writes.
Written(row, entity, dirty) ==
  [status |-> IF "status" \in dirty THEN entity.status ELSE row.status,
   locked |-> IF "locked" \in dirty THEN entity.locked ELSE row.locked]

WrittenLine(row, entity, dirty) ==
  [status  |-> IF "status"  \in dirty THEN entity.status  ELSE row.status,
   qty     |-> IF "qty"     \in dirty THEN entity.qty     ELSE row.qty,
   shipped |-> IF "shipped" \in dirty THEN entity.shipped ELSE row.shipped]

-----------------------------------------------------------------------------
\* Received lines of which nothing is shipped, and shipments placed but not locked.
Init ==
  /\ line \in [Lines -> [status: {"RECEIVED"}, qty: Qtys, shipped: {0}]]
  /\ shipment \in [Shipments -> {None, [status |-> "AWAITING", locked |-> FALSE]}]
  /\ items \in [Shipments -> ItemLists]
  /\ \A s \in Shipments : IF Placed(s) THEN Requestable(items[s]) ELSE items[s] = Nothing
  /\ rowLock = [l \in Lines |-> None]
  /\ tx = [r \in Requests |-> [at |-> "fresh"]]

(* placeShipment: the rows it writes concern nobody before its COMMIT, so the check of
   the items and the inserts are one step.  The foreign key makes the insert of an item
   wait for a transaction that holds its line. *)
Place(r) ==
  \E s \in Shipments, want \in ItemLists :
    /\ tx[r].at = "fresh"
    /\ ~Placed(s)
    /\ Requestable(want)
    /\ \A l \in Drawn(want) : Unlocked(l)
    /\ shipment' = [shipment EXCEPT ![s] = [status |-> "AWAITING", locked |-> FALSE]]
    /\ items' = [items EXCEPT ![s] = want]
    /\ Answer(r)
    /\ UNCHANGED <<line, rowLock>>

(* updateShipment: locked and status are checked on the loaded shipment; the transaction
   checks the new items and replaces the old ones. *)
BeginEditItems(r) ==
  \E s \in Shipments :
    /\ tx[r].at = "fresh"
    /\ Placed(s) /\ Idle(s)
    /\ ~shipment[s].locked /\ shipment[s].status = "AWAITING"
    /\ Goto(r, [at |-> "edit_items", shipment |-> s])
    /\ UNCHANGED <<line, shipment, items, rowLock>>

CommitEditItems(r) ==
  /\ tx[r].at = "edit_items"
  /\ \E want \in ItemLists :
       /\ Requestable(want)
       /\ \A l \in Drawn(want) : Unlocked(l)
       /\ items' = [items EXCEPT ![tx[r].shipment] = want]
  /\ Answer(r)
  /\ UNCHANGED <<line, shipment, rowLock>>

(* lockShipment and updateStatus check the loaded shipment and change it in memory. *)
BeginFulfil(r, s, entity, effect) ==
  /\ tx[r].at = "fresh"
  /\ Placed(s) /\ Idle(s)
  /\ Goto(r, [at |-> "begin", shipment |-> s, entity |-> entity, rows |-> Drawn(items[s]),
              effect |-> effect, want |-> Nothing, new |-> [l \in Lines |-> None], dirty |-> {}])
  /\ UNCHANGED <<line, shipment, items, rowLock>>

BeginLock(r) ==
  \E s \in Shipments :
    /\ Placed(s) /\ ~shipment[s].locked /\ shipment[s].status = "AWAITING"
    /\ BeginFulfil(r, s, [shipment[s] EXCEPT !.locked = TRUE], "take")

\* CLIENT_SHIPMENT_TRANSITIONS while unlocked, PROCESS_SHIPMENT_TRANSITIONS once locked.
Allowed(header) ==
  IF header.status # "AWAITING" THEN {} ELSE IF header.locked THEN {"DONE", "CANCELLED"} ELSE {"CANCELLED"}

\* Cancelling returns the goods of a locked shipment; (mutant) of any shipment.
EffectAlways(header, status) == IF status = "CANCELLED" THEN "return" ELSE "none"
Effect(header, status) == IF header.locked /\ status = "CANCELLED" THEN "return" ELSE "none"

BeginMove(r) ==
  \E s \in Shipments :
    /\ Placed(s)
    /\ \E status \in Allowed(shipment[s]) \ {shipment[s].status} :
         BeginFulfil(r, s, [shipment[s] EXCEPT !.status = status], Effect(shipment[s], status))

\* In the transaction: the shipment_details rows as they are now.
ReadItems(r) ==
  /\ tx[r].at = "begin"
  /\ Goto(r, [tx[r] EXCEPT !.at = "lines",
                           !.want = IF tx[r].effect = "none" THEN Nothing ELSE items[tx[r].shipment]])
  /\ UNCHANGED <<line, shipment, items, rowLock>>

\* Lines still to be locked, in the order the rows were returned (any order).
ToLock(r) == {l \in Drawn(tx[r].want) : tx[r].new[l] = None}

\* The check under the row lock; (mutant) of the status alone.
TakesReceived(l, n) == line[l].status = "RECEIVED"
Takes(l, n) == line[l].status = "RECEIVED" /\ line[l].shipped + n <= line[l].qty

TakeLine(r) ==
  /\ tx[r].at = "lines" /\ tx[r].effect = "take"
  /\ \E l \in ToLock(r) :
       /\ Unlocked(l)
       /\ Takes(l, tx[r].want[l])
       /\ rowLock' = Hold(l, r)
       /\ Goto(r, [tx[r] EXCEPT !.new[l] = line[l].shipped + tx[r].want[l]])
  /\ UNCHANGED <<line, shipment, items>>

\* restoreShippedQty: Math.max(0, shipped_qty - qty); (mutant) without the Math.max.
LessBelowZero(shipped, n) == shipped - n
Less(shipped, n) == IF shipped >= n THEN shipped - n ELSE 0

ReturnLine(r) ==
  /\ tx[r].at = "lines" /\ tx[r].effect = "return"
  /\ \E l \in ToLock(r) :
       /\ Unlocked(l)
       /\ rowLock' = Hold(l, r)
       /\ Goto(r, [tx[r] EXCEPT !.new[l] = Less(line[l].shipped, tx[r].want[l])])
  /\ UNCHANGED <<line, shipment, items>>

(* save(shipment) SELECTs the row and its items; an item that was added after the
   shipment was loaded would lose its shipment, which its primary key forbids. *)
SelectShipment(r) ==
  LET s == tx[r].shipment
  IN  /\ tx[r].at = "lines"
      /\ ToLock(r) = {}
      /\ Drawn(items[s]) \subseteq tx[r].rows
      /\ Goto(r, [tx[r] EXCEPT !.at = "save", !.dirty = Dirty(tx[r].entity, shipment[s])])
      /\ UNCHANGED <<line, shipment, items, rowLock>>

\* The stock written at COMMIT: the values computed under the row locks.
Restocked(r) ==
  [l \in Lines |-> IF tx[r].new[l] = None THEN line[l] ELSE [line[l] EXCEPT !.shipped = tx[r].new[l]]]

CommitShipment(r) ==
  LET s == tx[r].shipment
  IN  /\ tx[r].at = "save"
      /\ line' = Restocked(r)
      /\ shipment' = [shipment EXCEPT ![s] = Written(@, tx[r].entity, tx[r].dirty)]
      /\ rowLock' = Release(r)
      /\ Answer(r)
      /\ UNCHANGED items

(* The order side: updateDetail changes a quantity, updateDetailStatus a receipt; both
   load the line before the transaction and save the whole entity. *)
Receipts(status) ==
  CASE status = "RECEIVED"    -> {"NOT_ARRIVED", "CANCELLED"}
    [] status = "NOT_ARRIVED" -> {"RECEIVED", "CANCELLED"}
    [] OTHER                  -> {}

LoadLine(r) ==
  \E l \in EditedLines :
    /\ tx[r].at = "fresh"
    /\ \E entity \in {[line[l] EXCEPT !.qty = q] : q \in {n \in Qtys : line[l].status # "CANCELLED"}}
                     \cup {[line[l] EXCEPT !.status = st] : st \in Receipts(line[l].status)} :
         Goto(r, [at |-> "edit_line", line |-> l, entity |-> entity, dirty |-> {}])
    /\ UNCHANGED <<line, shipment, items, rowLock>>

SelectLine(r) ==
  /\ tx[r].at = "edit_line"
  /\ Goto(r, [tx[r] EXCEPT !.at = "save_line", !.dirty = DirtyLine(tx[r].entity, line[tx[r].line])])
  /\ UNCHANGED <<line, shipment, items, rowLock>>

SaveLine(r) ==
  LET l == tx[r].line
  IN  /\ tx[r].at = "save_line"
      /\ Unlocked(l)
      /\ line' = [line EXCEPT ![l] = WrittenLine(@, tx[r].entity, tx[r].dirty)]
      /\ Answer(r)
      /\ UNCHANGED <<shipment, items, rowLock>>

-----------------------------------------------------------------------------
(* Requests that end without an effect *)

RollBack(r) ==
  /\ rowLock' = Release(r)
  /\ Answer(r)
  /\ UNCHANGED <<line, shipment, items>>

\* 400: no item list passes the checks, or the client named one that does not; a line is
\* no longer warehoused or would be over-shipped; 500: the save above.
Refuse(r) ==
  /\ \/ tx[r].at = "edit_items"
     \/ /\ tx[r].at = "lines" /\ tx[r].effect = "take"
        /\ \E l \in ToLock(r) : Unlocked(l) /\ ~Takes(l, tx[r].want[l])
     \/ /\ tx[r].at = "lines" /\ ToLock(r) = {}
        /\ ~(Drawn(items[tx[r].shipment]) \subseteq tx[r].rows)
  /\ RollBack(r)

\* Two locks that take the same lines in opposite orders wait for each other; Postgres
\* aborts one.  A request waits for the first line it asks for.
AwaitedBy(r) ==
  IF tx[r].at = "lines" THEN {rowLock[l] : l \in ToLock(r)} ELSE {}

Deadlocked(r) ==
  \E S \in SUBSET Requests :
    r \in S /\ \A q \in S : \E h \in AwaitedBy(q) : h \in S

AbortDeadlock(r) == Deadlocked(r) /\ RollBack(r)

\* The process dies or the connection is lost before COMMIT.
Fail(r) == InFlight(r) /\ RollBack(r)

-----------------------------------------------------------------------------
Begin(r) == Place(r) \/ BeginEditItems(r) \/ BeginLock(r) \/ BeginMove(r) \/ LoadLine(r)

Continue(r) ==
  \/ CommitEditItems(r) \/ ReadItems(r) \/ TakeLine(r) \/ ReturnLine(r)
  \/ SelectShipment(r) \/ CommitShipment(r) \/ SelectLine(r) \/ SaveLine(r)
  \/ Refuse(r) \/ AbortDeadlock(r)

Next == \E r \in Requests : Begin(r) \/ Continue(r) \/ Fail(r)

Spec == Init /\ [][Next]_vars

-----------------------------------------------------------------------------
(* Properties *)

(* Types of the rows, of the row locks and of what each request holds. *)
TypeOK ==
  /\ line \in [Lines -> Line]
  /\ shipment \in [Shipments -> Header \cup {None}]
  /\ items \in [Shipments -> ItemLists]
  /\ rowLock \in [Lines -> Requests \cup {None}]
  /\ tx \in [Requests -> Tx]

SteadyLines == Lines \ EditedLines

(* "re-checked so concurrent locks can't over-ship" (shipment.service.ts:575, 675-676):
   never more shipped out of a line than was received, whatever shipments overlap. *)
NeverOverShipped == \A l \in SteadyLines : line[l].shipped <= line[l].qty

\* A line locked by a request: it is held, it has not changed since it was read, and
\* what the request goes on to write is still a legal quantity of it.
LineStands(r, l) ==
  /\ rowLock[l] = r
  /\ IF tx[r].effect = "take"
     THEN Takes(l, tx[r].want[l]) /\ tx[r].new[l] = line[l].shipped + tx[r].want[l]
     ELSE tx[r].new[l] = Less(line[l].shipped, tx[r].want[l])

(* The re-check of every line holds until the COMMIT that writes them all, the lines an
   order-side edit is saving meanwhile included (shipment.service.ts:677-700, 805-815). *)
LockedLinesStand ==
  \A r \in Requests : tx[r].at \in {"lines", "save"} =>
    \A l \in Lines : tx[r].new[l] # None => LineStands(r, l)

\* The goods a shipment has drawn from its lines: once it is locked, unless cancelled.
Out(s) ==
  IF Placed(s) /\ shipment[s].locked /\ shipment[s].status # "CANCELLED" THEN items[s] ELSE Nothing

\* Counted one unit at a time.
ShippedOut(l) == Cardinality(UNION {{s} \X (1 .. Out(s)[l]) : s \in Shipments})

(* With the requests on one shipment served one at a time, shipped_qty of a line is what
   the locked shipments draw from it: no lock is counted twice or lost when shipments
   draw on the same lines, fail halfway or are cancelled (shipment.service.ts:674-700,
   764-768). *)
StockMatchesShipments == \A l \in SteadyLines : line[l].shipped = ShippedOut(l)

(* "Terminal." (shipment.entity.ts:26, shipment.service.ts:56-60): a shipment that is done
   or cancelled keeps its status, with any requests in flight. *)
ClosedIsTerminal ==
  [][ \A s \in Shipments : Placed(s) /\ shipment[s].status # "AWAITING" =>
        shipment'[s].status = shipment[s].status ]_vars

(* "Locking freezes the client out" (shipment.entity.ts:58-59): the items of a locked
   shipment are the client's no more, with any requests in flight. *)
LockedIsFrozen ==
  [][ \A s \in Shipments : Placed(s) /\ shipment[s].locked => items'[s] = items[s] ]_vars

OfSteady(of) == [l \in SteadyLines |-> of[l]]

TheShelf == INSTANCE Shelf WITH
  Goods   <- SteadyLines,
  Parcels <- Shipments,
  qty     <- [l \in SteadyLines |-> line[l].qty],
  shipped <- [l \in SteadyLines |-> line[l].shipped],
  out     <- [s \in Shipments |-> OfSteady(Out(s))]

(* Every commit takes all the goods of one shipment, returns all of them, or moves
   none: the row locks and the save at the end of the transaction make lockShipment and
   updateStatus atomic on stock (shipment.service.ts:589-723, 764-793). *)
StockIsAShelf == TheShelf!Spec

\* A request that nothing holds up: the guards of Continue(r).
Ready(r) ==
  \/ tx[r].at \in {"edit_items", "begin", "save", "edit_line"}
  \/ tx[r].at = "lines" /\ (ToLock(r) = {} \/ \E l \in ToLock(r) : Unlocked(l))
  \/ tx[r].at = "save_line" /\ Unlocked(tx[r].line)
  \/ Deadlocked(r)

(* The requests in flight never all wait for one another's lines. *)
SomeoneReady == (\E r \in Requests : InFlight(r)) => \E r \in Requests : Ready(r)

(* The shipments never all wait for one another: while requests are in flight one of them
   is ready, and so can go on, though they lock the same lines in opposite orders and
   fail half way (shipment.service.ts:674-723, 784-793). *)
NeverStuck ==
  /\ SomeoneReady
  /\ \A r \in Requests : Ready(r) <=> ENABLED Continue(r)

(* "How much of this line has already been shipped back out via locked shipments"
   (order-detail.entity.ts:55), of every line and with any requests in flight. *)
ShippedViaLockedShipments == \A l \in Lines : line[l].shipped = ShippedOut(l)
=============================================================================
