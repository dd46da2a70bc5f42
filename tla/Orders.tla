------------------------------- MODULE Orders -------------------------------
(***************************************************************************)
(* The life of an order: its header (orders), its lines (order_details)    *)
(* and what its history says of both (order_history).  The lock fee is in  *)
(* Wallet; what shipments do to a received line is in Shipments.           *)
(*                                                                         *)
(* A request loads the entities it works on and checks them, and only then *)
(* opens a transaction.  save(entity) SELECTs the row, and UPDATEs the     *)
(* columns in which the loaded entity differs from it; the UPDATE locks    *)
(* the row until COMMIT.  Requests interleave between any two steps.       *)
(***************************************************************************)
EXTENDS Integers, FiniteSets

CONSTANTS
  Orders,       \* orders
  LinesOf,      \* [Orders -> SUBSET Lines], the ids the lines of an order may get
  Overlapping,  \* the orders of which one row may be worked on by several requests at a time
  Requests,     \* HTTP requests; each is served once
  Trackings,    \* tracking references
  Qtys,         \* quantities a line may have
  None,         \* no row yet, no holder
  Gone          \* a row that was deleted

Lines == UNION {LinesOf[o] : o \in Orders}

ASSUME OrdersAssumption ==
  /\ Overlapping \subseteq Orders
  /\ \A o, p \in Orders : o # p => LinesOf[o] \cap LinesOf[p] = {}
  /\ Orders \cap Lines = {}
ASSUME QtysAssumption == Qtys \subseteq Nat \ {0}

VARIABLES
  order,    \* [Orders -> Header \cup {None}], orders rows
  line,     \* [Lines -> Line \cup {None, Gone}], order_details rows
  told,     \* the same rows as somebody who replays order_history sees them
  rowLock,  \* [Orders \cup Lines -> Requests \cup {None}], the updater of a row until COMMIT
  tx        \* [Requests -> Tx], where each request is and what it has loaded

vars == <<order, line, told, rowLock, tx>>

-----------------------------------------------------------------------------
(* Rows *)

OrderStatus == {"IN_TRANSIT", "IN_WAREHOUSE", "CANCELLED"}
LineStatus == {"PENDING", "RECEIVED", "NOT_ARRIVED", "CANCELLED"}

Header == [status: OrderStatus, locked: BOOLEAN, tracking: Trackings]
Line == [status: LineStatus, qty: Qtys]

ASSUME MarksAssumption == None # Gone /\ {None, Gone} \cap (Header \cup Line \cup Requests) = {}

Placed(o) == order[o] # None
There(l) == line[l] \notin {None, Gone}
LinesThere(o) == {l \in LinesOf[o] : There(l)}
OrderOf(l) == CHOOSE o \in Orders : l \in LinesOf[o]

-----------------------------------------------------------------------------
(* Requests in flight *)

Fresh    == [at: {"fresh"}]
Answered == [at: {"answered"}]

\* A header to save, and the columns the handler has changed in it.
SavingOrder == [at: {"select_order", "update_order"}, order: Orders, entity: Header,
                set: SUBSET {"status", "locked", "tracking"},
                dirty: SUBSET {"status", "locked", "tracking"}]

\* The pending lines an order that enters the warehouse found, and how far their saves are.
Receiving   == [at: {"receive"}, order: Orders, entity: Header,
                dirty: SUBSET {"status", "locked", "tracking"},
                found: [Lines -> Line \cup {None}], current: Lines \cup {None},
                todo: SUBSET Lines, writes: [Lines -> SUBSET {"status", "qty", "insert"}]]

SavingLine  == [at: {"select_line", "update_line"}, line: Lines, entity: Line,
                set: SUBSET {"status", "qty"}, dirty: SUBSET {"status", "qty", "insert"}]

AddingLine   == [at: {"add_line"}, order: Orders]
RemovingLine == [at: {"remove_line"}, line: Lines]

Tx == Fresh \cup Answered \cup SavingOrder \cup Receiving \cup SavingLine
        \cup AddingLine \cup RemovingLine

InFlight(r) == tx[r].at \notin {"fresh", "answered"}

Goto(r, t) == tx' = [tx EXCEPT ![r] = t]
Answer(r) == Goto(r, [at |-> "answered"])

Arrives(t) == t.at \in {"select_order", "update_order"} /\ "status" \in t.set /\ t.entity.status = "IN_WAREHOUSE"

\* The rows a request works on: a removal counts the lines of its order, an arrival
\* looks for the pending ones.
Touched(t) ==
  CASE t.at = "receive" \/ Arrives(t)            -> {t.order} \cup LinesOf[t.order]
    [] t.at \in {"select_order", "update_order"} /\ ~Arrives(t) -> {t.order}
    [] t.at \in {"select_line", "update_line"}   -> {t.line}
    [] t.at = "add_line"                         -> LinesOf[t.order]
    [] t.at = "remove_line"                      -> LinesOf[OrderOf(t.line)]
    [] OTHER                                     -> {}

\* Only the rows of an Overlapping order are loaded while another request works on them.
Start(r, o, t) ==
  /\ tx[r].at = "fresh"
  /\ o \in Overlapping \/ \A q \in Requests : Touched(tx[q]) \cap Touched(t) = {}
  /\ Goto(r, t)
  /\ UNCHANGED <<order, line, told, rowLock>>

-----------------------------------------------------------------------------
(* The database *)

Unlocked(row) == rowLock[row] = None
Hold(row, r) == [rowLock EXCEPT ![row] = r]
Release(r) == [row \in Orders \cup Lines |-> IF rowLock[row] = r THEN None ELSE rowLock[row]]

\* save(entity): the columns in which the entity differs from the row it SELECTs, and ...
Differing(entity, row) == {c \in DOMAIN row : entity[c] # row[c]}

\* ... the row after the UPDATE of these columns.
OverHeader(row, entity, cols) ==
  [status   |-> IF "status"   \in cols THEN entity.status   ELSE row.status,
   locked   |-> IF "locked"   \in cols THEN entity.locked   ELSE row.locked,
   tracking |-> IF "tracking" \in cols THEN entity.tracking ELSE row.tracking]

OverLine(row, entity, cols) ==
  [status |-> IF "status" \in cols THEN entity.status ELSE row.status,
   qty    |-> IF "qty"    \in cols THEN entity.qty    ELSE row.qty]

\* A line that is no longer there is INSERTed again; an UPDATE of a row deleted since
\* the SELECT finds nothing to update.
LineDirty(entity, l) == IF There(l) THEN Differing(entity, line[l]) ELSE {"insert"}

\* A save without a difference writes, and waits for, nothing.
Writable(row, cols) == cols = {} \/ Unlocked(row)
Insertable(l, cols) == "insert" \in cols => ~There(l)

Saved(row, entity, cols) ==
  CASE "insert" \in cols -> entity
    [] row = Gone        -> Gone
    [] OTHER             -> OverLine(row, entity, cols)

\* What order_history tells of a line after one more diff of it.
Retold(row, entity, cols) == IF row \in {None, Gone} THEN row ELSE OverLine(row, entity, cols)

-----------------------------------------------------------------------------
PlacedHeader(tracking) == [status |-> "IN_TRANSIT", locked |-> FALSE, tracking |-> tracking]
NewLine(qty) == [status |-> "PENDING", qty |-> qty]

\* Any lines of an order, at least one (@ArrayNotEmpty in the DTO).
Placements(o) == {ls \in [LinesOf[o] -> {NewLine(q) : q \in Qtys} \cup {None}] : \E l \in LinesOf[o] : ls[l] # None}

Init ==
  /\ order \in [Orders -> {PlacedHeader(t) : t \in Trackings} \cup {None}]
  /\ line \in {f \in [Lines -> {NewLine(q) : q \in Qtys} \cup {None}] :
                 \A o \in Orders : Placed(o) <=> \E l \in LinesOf[o] : f[l] # None}
  /\ told = [row \in Orders \cup Lines |-> IF row \in Orders THEN order[row] ELSE line[row]]
  /\ rowLock = [row \in Orders \cup Lines |-> None]
  /\ tx = [r \in Requests |-> [at |-> "fresh"]]

\* placeOrder: all in one transaction, and nobody else sees its rows before COMMIT.
Place(r) ==
  \E o \in Orders, tracking \in Trackings :
    /\ tx[r].at = "fresh"
    /\ ~Placed(o)
    /\ \E ls \in Placements(o) :
         LET placed == [row \in {o} \cup LinesOf[o] |-> IF row = o THEN PlacedHeader(tracking) ELSE ls[row]]
         IN  /\ order' = [order EXCEPT ![o] = placed[o]]
             /\ line' = [l \in Lines |-> IF l \in LinesOf[o] THEN placed[l] ELSE line[l]]
             /\ told' = [row \in Orders \cup Lines |-> IF row \in DOMAIN placed THEN placed[row] ELSE told[row]]
    /\ Answer(r)
    /\ UNCHANGED rowLock

(* assertEditable: the client while the order is unlocked and in transit, a reviewer
   from then on until it is terminal. *)
Editable(header) == IF header.locked THEN header.status # "CANCELLED" ELSE header.status = "IN_TRANSIT"

SaveOrder(r, o, entity, set) ==
  Start(r, o, [at |-> "select_order", order |-> o, entity |-> entity, set |-> set, dirty |-> {}])

\* updateOrder
BeginTrack(r) ==
  \E o \in Orders, tracking \in Trackings :
    /\ Placed(o) /\ Editable(order[o])
    /\ tracking # order[o].tracking
    /\ SaveOrder(r, o, [order[o] EXCEPT !.tracking = tracking], {"tracking"})

\* lockOrder: its bill may still refuse it
BeginLock(r) ==
  \E o \in Orders :
    /\ Placed(o) /\ ~order[o].locked /\ order[o].status = "IN_TRANSIT"
    /\ SaveOrder(r, o, [order[o] EXCEPT !.locked = TRUE], {"locked"})

\* CLIENT_TRANSITIONS while unlocked, PROCESS_TRANSITIONS once locked.
Allowed(header) ==
  CASE header.status = "IN_TRANSIT"   -> IF header.locked THEN {"IN_WAREHOUSE", "CANCELLED"} ELSE {"CANCELLED"}
    [] header.status = "IN_WAREHOUSE" -> IF header.locked THEN {"CANCELLED"} ELSE {}
    [] OTHER                          -> {}

\* updateStatus
BeginStatus(r) ==
  \E o \in Orders :
    /\ Placed(o)
    /\ \E status \in Allowed(order[o]) :
         SaveOrder(r, o, [order[o] EXCEPT !.status = status], {"status"})

SelectOrder(r) ==
  /\ tx[r].at = "select_order"
  /\ Goto(r, [tx[r] EXCEPT !.at = "update_order", !.dirty = Differing(tx[r].entity, order[tx[r].order])])
  /\ UNCHANGED <<order, line, told, rowLock>>

\* The UPDATE, the history row and the COMMIT of the handlers that save only the header.
CommitOrder(r) ==
  LET o == tx[r].order
  IN  /\ tx[r].at = "update_order" /\ ~Arrives(tx[r])
      /\ Writable(o, tx[r].dirty)
      /\ order' = [order EXCEPT ![o] = OverHeader(@, tx[r].entity, tx[r].dirty)]
      /\ told' = [told EXCEPT ![o] = OverHeader(@, tx[r].entity, tx[r].set)]
      /\ Answer(r)
      /\ UNCHANGED <<line, rowLock>>

\* An order that enters the warehouse: the UPDATE of the header, then the lines that are
\* PENDING; (mutant) the lines that are RECEIVED already.
FoundReceived(o) == [l \in Lines |-> IF l \in LinesThere(o) /\ line[l].status = "RECEIVED" THEN line[l] ELSE None]
Found(o) == [l \in Lines |-> IF l \in LinesThere(o) /\ line[l].status = "PENDING" THEN line[l] ELSE None]

UpdateArriving(r) ==
  LET o == tx[r].order
  IN  /\ tx[r].at = "update_order" /\ Arrives(tx[r])
      /\ Writable(o, tx[r].dirty)
      /\ rowLock' = IF tx[r].dirty = {} THEN rowLock ELSE Hold(o, r)
      /\ Goto(r, [at |-> "receive", order |-> o, entity |-> tx[r].entity, dirty |-> tx[r].dirty,
                  found |-> Found(o), current |-> None, todo |-> {l \in Lines : Found(o)[l] # None},
                  writes |-> [l \in Lines |-> {}]])
      /\ UNCHANGED <<order, line, told>>

\* (mutant) the status of the order instead of that of the line.
ReceivedAsOrder(entity) == [entity EXCEPT !.status = "IN_WAREHOUSE"]
Received(entity) == [entity EXCEPT !.status = "RECEIVED"]

\* save(detail) of the pending lines, one after the other.
SelectPending(r) ==
  /\ tx[r].at = "receive" /\ tx[r].current = None
  /\ \E l \in tx[r].todo :
       LET dirty == LineDirty(Received(tx[r].found[l]), l)
       IN  Goto(r, [tx[r] EXCEPT !.current = l, !.todo = tx[r].todo \ {l},
                                 !.writes = [tx[r].writes EXCEPT ![l] = dirty]])
  /\ UNCHANGED <<order, line, told, rowLock>>

UpdatePending(r) ==
  LET l == tx[r].current
  IN  /\ tx[r].at = "receive" /\ l # None
      /\ Writable(l, tx[r].writes[l]) /\ Insertable(l, tx[r].writes[l])
      /\ rowLock' = IF tx[r].writes[l] = {} THEN rowLock ELSE Hold(l, r)
      /\ Goto(r, [tx[r] EXCEPT !.current = None])
      /\ UNCHANGED <<order, line, told>>

\* The history of an arrival: the status of the order, and of every line it received;
\* (mutant) of the order alone.
ToldOfHeader(t) == [told EXCEPT ![t.order] = OverHeader(@, t.entity, {"status"})]
ToldOfArrival(t) ==
  [row \in Orders \cup Lines |->
     CASE row = t.order                           -> OverHeader(told[row], t.entity, {"status"})
       [] row \in Lines /\ t.found[row] # None    -> Retold(told[row], Received(t.found[row]), {"status"})
       [] OTHER                                   -> told[row]]

CommitArrival(r) ==
  LET o == tx[r].order
  IN  /\ tx[r].at = "receive" /\ tx[r].todo = {} /\ tx[r].current = None
      /\ order' = [order EXCEPT ![o] = OverHeader(@, tx[r].entity, tx[r].dirty)]
      /\ line' = [l \in Lines |-> IF tx[r].found[l] = None THEN line[l]
                                  ELSE Saved(line[l], Received(tx[r].found[l]), tx[r].writes[l])]
      /\ told' = ToldOfArrival(tx[r])
      /\ rowLock' = Release(r)
      /\ Answer(r)

-----------------------------------------------------------------------------
(* Lines *)

\* addDetail
BeginAdd(r) ==
  \E o \in Orders :
    /\ Placed(o) /\ Editable(order[o])
    /\ Start(r, o, [at |-> "add_line", order |-> o])

CommitAdd(r) ==
  /\ tx[r].at = "add_line"
  /\ \E l \in LinesOf[tx[r].order], q \in Qtys :
       /\ line[l] = None
       /\ line' = [line EXCEPT ![l] = NewLine(q)]
       /\ told' = [told EXCEPT ![l] = NewLine(q)]
  /\ Answer(r)
  /\ UNCHANGED <<order, rowLock>>

SaveLine(r, o, l, entity, set) ==
  Start(r, o, [at |-> "select_line", line |-> l, entity |-> entity, set |-> set, dirty |-> {}])

\* updateDetail
BeginEdit(r) ==
  \E o \in Orders, q \in Qtys :
    /\ Placed(o) /\ Editable(order[o])
    /\ \E l \in LinesThere(o) :
         /\ line[l].status # "CANCELLED" /\ line[l].qty # q
         /\ SaveLine(r, o, l, [line[l] EXCEPT !.qty = q], {"qty"})

\* DETAIL_TRANSITIONS; (mutant) any other outcome, of a cancelled line too.
ReceiptsReopened(status) == {"RECEIVED", "NOT_ARRIVED", "CANCELLED"} \ {status}
Receipts(status) ==
  CASE status = "PENDING"     -> {"RECEIVED", "NOT_ARRIVED", "CANCELLED"}
    [] status = "RECEIVED"    -> {"NOT_ARRIVED", "CANCELLED"}
    [] status = "NOT_ARRIVED" -> {"RECEIVED", "CANCELLED"}
    [] OTHER                  -> {}

\* The order of a receipt is locked and not terminal; (mutant) it need not be locked.
ReceivableWhenLive(header) == header.status # "CANCELLED"
Receivable(header) == header.locked /\ header.status # "CANCELLED"

\* updateDetailStatus
BeginReceipt(r) ==
  \E o \in Orders :
    /\ Placed(o) /\ Receivable(order[o])
    /\ \E l \in LinesThere(o) : \E status \in Receipts(line[l].status) :
         SaveLine(r, o, l, [line[l] EXCEPT !.status = status], {"status"})

SelectLine(r) ==
  /\ tx[r].at = "select_line"
  /\ Goto(r, [tx[r] EXCEPT !.at = "update_line", !.dirty = LineDirty(tx[r].entity, tx[r].line)])
  /\ UNCHANGED <<order, line, told, rowLock>>

CommitLine(r) ==
  LET l == tx[r].line
  IN  /\ tx[r].at = "update_line"
      /\ Writable(l, tx[r].dirty) /\ Insertable(l, tx[r].dirty)
      /\ line' = [line EXCEPT ![l] = Saved(@, tx[r].entity, tx[r].dirty)]
      /\ told' = [told EXCEPT ![l] = Retold(@, tx[r].entity, tx[r].set)]
      /\ Answer(r)
      /\ UNCHANGED <<order, rowLock>>

\* "An order must have at least one line"; (mutant) off by one.
KeepsNone(o) == Cardinality(LinesThere(o)) >= 1
KeepsOne(o) == Cardinality(LinesThere(o)) > 1

\* removeDetail
BeginRemove(r) ==
  \E o \in Orders :
    /\ Placed(o) /\ Editable(order[o]) /\ KeepsOne(o)
    /\ \E l \in LinesThere(o) : Start(r, o, [at |-> "remove_line", line |-> l])

CommitRemove(r) ==
  LET l == tx[r].line
  IN  /\ tx[r].at = "remove_line"
      /\ Unlocked(l)
      /\ line' = [line EXCEPT ![l] = Gone]
      /\ told' = [told EXCEPT ![l] = Gone]
      /\ Answer(r)
      /\ UNCHANGED <<order, rowLock>>

-----------------------------------------------------------------------------
\* A transaction that does not commit: the bill of a lock is refused, an INSERT meets a
\* row another request inserted again, the process dies or the connection is lost.
Fail(r) ==
  /\ InFlight(r)
  /\ rowLock' = Release(r)
  /\ Answer(r)
  /\ UNCHANGED <<order, line, told>>

Begin(r) ==
  \/ Place(r) \/ BeginTrack(r) \/ BeginLock(r) \/ BeginStatus(r)
  \/ BeginAdd(r) \/ BeginEdit(r) \/ BeginReceipt(r) \/ BeginRemove(r)

Continue(r) ==
  \/ SelectOrder(r) \/ CommitOrder(r)
  \/ UpdateArriving(r) \/ SelectPending(r) \/ UpdatePending(r) \/ CommitArrival(r)
  \/ CommitAdd(r) \/ SelectLine(r) \/ CommitLine(r) \/ CommitRemove(r)

Next == \E r \in Requests : Begin(r) \/ Continue(r) \/ Fail(r)

Spec == Init /\ [][Next]_vars

-----------------------------------------------------------------------------
(* Properties *)

(* Types of the rows, of their replay, of the row locks and of what a request holds. *)
TypeOK ==
  /\ order \in [Orders -> Header \cup {None}]
  /\ line \in [Lines -> Line \cup {None, Gone}]
  /\ \A o \in Orders : told[o] \in Header \cup {None}
  /\ \A l \in Lines : told[l] \in Line \cup {None, Gone}
  /\ rowLock \in [Orders \cup Lines -> Requests \cup {None}]
  /\ tx \in [Requests -> Tx]

(* Goods are taken in only for an order a reviewer has locked, and so billed: whatever
   requests overlap, an order in the warehouse, or a line whose receipt is settled, has
   a LOCKED row in its history (order.service.ts:622-632, 823-854). *)
HandledOnlyOnceLocked ==
  \A o \in Orders :
    (\/ Placed(o) /\ order[o].status = "IN_WAREHOUSE"
     \/ \E l \in LinesThere(o) : line[l].status # "PENDING")
      => told[o].locked

(* "Append-only audit trail for an order ... the before/after detail the FE shows the
   client" (order-history.entity.ts:67-71): while each row of an order is worked on by
   one request at a time, replaying the history gives the rows, auto-receipts and
   requests that fail halfway included. *)
HistoryTellsRows ==
  \A o \in Orders \ Overlapping : \A row \in {o} \cup LinesOf[o] :
    told[row] = IF row = o THEN order[o] ELSE line[row]

(* "An order must keep at least one line" (order.service.ts:581-582), while lines are
   removed and edited one at a time. *)
AlwaysALine == \A o \in Orders \ Overlapping : Placed(o) => LinesThere(o) # {}

(* Moving an order into the warehouse leaves no line of it PENDING, a line that is added
   or settled just before included (order.service.ts:868-899). *)
ArrivalSettlesLines ==
  [][ \A o \in Orders \ Overlapping :
        (Placed(o) /\ order[o].status # "IN_WAREHOUSE" /\ order'[o].status = "IN_WAREHOUSE") =>
          \A l \in LinesOf[o] : line'[l] \in {None, Gone} \/ line'[l].status # "PENDING" ]_vars

\* No further transitions, no edits.
Final(o) == order[o].status = "CANCELLED" => order'[o] = order[o]

(* A cancelled header never changes again, a cancelled line is at most removed, and an
   order once locked stays locked: no sequence of requests leads back, as long as each
   row is worked on by one at a time (order.service.ts:44-81, 202-219). *)
ClosedStaysClosed ==
  [][ \A o \in Orders \ Overlapping : Placed(o) =>
        /\ Final(o)
        /\ order[o].locked => order'[o].locked
        /\ \A l \in LinesThere(o) :
             line[l].status = "CANCELLED" => line'[l] \in {line[l], Gone} ]_vars

(* "An order must keep at least one line" (order.service.ts:577-578, 586), every order,
   with any requests in flight. *)
EveryOrderKeepsALine == \A o \in Orders : Placed(o) => LinesThere(o) # {}

(* "No further transitions" (order.service.ts:80): a cancelled order stays cancelled, with
   any requests in flight. *)
CancelledIsTerminal ==
  [][ \A o \in Orders : Placed(o) /\ order[o].status = "CANCELLED" =>
        order'[o].status = "CANCELLED" ]_vars

(* "Lines already resolved are left untouched" by an order's move into the warehouse
   (order.service.ts:873-875), with any requests in flight. *)
ResolvedLinesLeft ==
  [][ \A o \in Orders :
        (Placed(o) /\ order[o].status # "IN_WAREHOUSE" /\ order'[o].status = "IN_WAREHOUSE") =>
          \A l \in LinesThere(o) : line[l].status # "PENDING" => line'[l] = line[l] ]_vars

-----------------------------------------------------------------------------
(* Orders of which each row is worked on by one request at a time *)

Quiet == Orders \ Overlapping

Life == INSTANCE Lifecycle
          WITH Orders <- Quiet,
               header <- [o \in Quiet |-> order[o]],
               part   <- [l \in UNION {LinesOf[o] : o \in Quiet} |-> line[l]]

(* Loading, checking, SELECTing and writing in several steps come to the same as doing
   it at once: such an order is placed, tracked, locked, cancelled and taken in, and its
   lines added, edited, settled and removed, only from the rows as they are at COMMIT
   (order.service.ts:44-93, 202-219, 540-899), although the checks were made before the
   transaction began and other requests commit in between. *)
OrdersHaveALife == Life!Spec
=============================================================================
