----------------------------- MODULE OrderProofs -----------------------------
(***************************************************************************)
(* Theorems about Orders, for every set of orders, lines and requests and  *)
(* whichever overlap.  Of all orders: types, and that goods are handled    *)
(* only for an order that has once been locked, although a stale save may  *)
(* unlock it again.  Of the orders whose rows are worked on by one request *)
(* at a time: the history tells the rows, a line is always left, an        *)
(* arrival settles every line, what is closed stays closed, and every      *)
(* commit is an operation of Lifecycle.                                    *)
(***************************************************************************)
EXTENDS Orders, FiniteSetTheorems, TLAPS

-----------------------------------------------------------------------------
(* Rows and requests *)

LEMMA Marks ==
  /\ None \notin Header /\ None \notin Line /\ Gone \notin Header /\ Gone \notin Line
  /\ None # Gone
  BY MarksAssumption

LEMMA LinesBelong ==
  /\ \A l \in Lines : OrderOf(l) \in Orders /\ l \in LinesOf[OrderOf(l)]
  /\ \A o \in Orders : \A l \in LinesOf[o] : l \in Lines /\ OrderOf(l) = o
  /\ \A l \in Lines : l \notin Orders
<1>1. \A l \in Lines : OrderOf(l) \in Orders /\ l \in LinesOf[OrderOf(l)]
  BY DEF Lines, OrderOf
<1>2. \A o \in Orders : \A l \in LinesOf[o] : l \in Lines
  BY DEF Lines
<1> QED
  BY <1>1, <1>2, OrdersAssumption

LEMMA OverHeaderIs ==
  ASSUME NEW row \in Header, NEW entity \in Header, NEW cols
  PROVE  LET h == OverHeader(row, entity, cols) IN
         /\ h \in Header
         /\ h.status \in {row.status, entity.status}
         /\ h.locked = IF "locked" \in cols THEN entity.locked ELSE row.locked
  BY DEF OverHeader, Header

LEMMA OverLineIs ==
  ASSUME NEW row \in Line, NEW entity \in Line, NEW cols
  PROVE  LET d == OverLine(row, entity, cols) IN
         d \in Line /\ d.status \in {row.status, entity.status}
  BY DEF OverLine, Line

LEMMA SavedIs ==
  ASSUME NEW row \in Line \cup {Gone}, NEW entity \in Line, NEW cols
  PROVE  LET d == Saved(row, entity, cols) IN
         /\ d \in Line \cup {Gone}
         /\ d = Gone \/ d.status = entity.status \/ (row \in Line /\ d.status = row.status)
  BY OverLineIs, Marks DEF Saved

LEMMA RetoldIs ==
  ASSUME NEW row \in Line \cup {None, Gone}, NEW entity \in Line, NEW cols
  PROVE  Retold(row, entity, cols) \in Line \cup {None, Gone}
  BY OverLineIs DEF Retold

LEMMA DirtyIs ==
  /\ \A row \in Header, entity \in Header :
       Differing(entity, row) \in SUBSET {"status", "locked", "tracking"}
  /\ \A row \in Line, entity \in Line : Differing(entity, row) \in SUBSET {"status", "qty", "insert"}
  BY DEF Differing, Header, Line

LEMMA LineDirtyIs ==
  ASSUME line \in [Lines -> Line \cup {None, Gone}], NEW l \in Lines, NEW entity \in Line
  PROVE  LineDirty(entity, l) \in SUBSET {"status", "qty", "insert"}
  BY DirtyIs DEF LineDirty, There

LEMMA ReceivedIs ==
  ASSUME NEW entity \in Line
  PROVE  Received(entity) \in Line
  BY DEF Received, Line, LineStatus

\* A request by the point it is at.
LEMMA TxKinds ==
  ASSUME NEW t \in Tx
  PROVE  /\ t.at \in {"select_order", "update_order"} => t \in SavingOrder
         /\ t.at = "receive" => t \in Receiving
         /\ t.at \in {"select_line", "update_line"} => t \in SavingLine
         /\ t.at = "add_line" => t \in AddingLine
         /\ t.at = "remove_line" => t \in RemovingLine
  BY DEF Tx, Fresh, Answered, SavingOrder, Receiving, SavingLine, AddingLine, RemovingLine

LEMMA AnsweredIsTx == [at |-> "answered"] \in Tx /\ [at |-> "fresh"] \in Tx
  BY DEF Tx, Answered, Fresh

-----------------------------------------------------------------------------
(* The invariant *)

\* The replay has a row for an order that is placed, and of the rows' types.
ToldTyped ==
  /\ told \in [Orders \cup Lines -> Header \cup Line \cup {None, Gone}]
  /\ \A o \in Orders : Placed(o) => told[o] # None

\* A line is there, or gone, only in an order that is placed.
LinesOfPlaced == \A l \in Lines : line[l] # None => Placed(OrderOf(l))

\* What a request has loaded is, or was, there.
Bound(t) ==
  /\ t.at \in {"select_order", "update_order", "receive"} => Placed(t.order)
  /\ t.at \in {"select_line", "update_line"} => line[t.line] # None /\ Placed(OrderOf(t.line))
  /\ t.at = "add_line" => Placed(t.order)
  /\ t.at = "remove_line" => Placed(OrderOf(t.line))
  /\ t.at = "receive" =>
       /\ \A l \in Lines : t.found[l] # None => l \in LinesOf[t.order] /\ line[l] # None
       /\ \A l \in t.todo : t.found[l] # None
       /\ t.current # None => t.found[t.current] # None

Typed ==
  /\ TypeOK
  /\ ToldTyped
  /\ LinesOfPlaced
  /\ \A r \in Requests : Bound(tx[r])

\* The history of o has a LOCKED row.
Billed(o) == told[o].locked

RowsBilled ==
  /\ \A o \in Orders : Placed(o) /\ (order[o].locked \/ order[o].status = "IN_WAREHOUSE") => Billed(o)
  /\ \A l \in Lines : There(l) /\ line[l].status # "PENDING" => Billed(OrderOf(l))

\* A request about to write a lock, an arrival or a receipt: the order has been locked
\* before, or the request is the lock.
Covered(t) ==
  /\ t.at \in {"select_order", "update_order"} =>
       /\ IF "locked" \in t.set THEN t.entity.locked ELSE t.entity.locked => Billed(t.order)
       /\ t.entity.status = "IN_WAREHOUSE" => Billed(t.order)
  /\ t.at = "receive" => Billed(t.order)
  /\ t.at \in {"select_line", "update_line"} /\ t.entity.status # "PENDING" => Billed(OrderOf(t.line))

BilledInv == RowsBilled /\ \A r \in Requests : Covered(tx[r])

-----------------------------------------------------------------------------
(* What every step leaves alone *)

Forward ==
  /\ \A o \in Orders : Placed(o) => Placed(o)' /\ (Billed(o) => Billed(o)')
  /\ \A l \in Lines : line[l] # None => line'[l] # None

LEMMA BoundStays ==
  ASSUME Forward, NEW t \in Tx, Bound(t)
  PROVE  Bound(t)'
<1>1. /\ t.at \in {"select_order", "update_order", "receive", "add_line"} => t.order \in Orders
      /\ t.at \in {"select_line", "update_line", "remove_line"} => t.line \in Lines
  BY TxKinds DEF SavingOrder, Receiving, SavingLine, AddingLine, RemovingLine
<1>2. t.at \in {"select_line", "update_line", "remove_line"} => OrderOf(t.line) \in Orders
  BY <1>1, LinesBelong
<1> QED
  BY <1>1, <1>2 DEF Forward, Bound

LEMMA CoveredStays ==
  ASSUME Forward, NEW t \in Tx, Bound(t), Covered(t)
  PROVE  Covered(t)'
<1>1. /\ t.at \in {"select_order", "update_order", "receive"} => t.order \in Orders
      /\ t.at \in {"select_line", "update_line"} => t.line \in Lines
  BY TxKinds DEF SavingOrder, Receiving, SavingLine
<1>2. t.at \in {"select_line", "update_line"} => OrderOf(t.line) \in Orders
  BY <1>1, LinesBelong
<1> QED
  BY <1>1, <1>2 DEF Forward, Bound, Covered

\* The step of one request leaves the others bound and covered.
LEMMA OthersBound ==
  ASSUME Typed, Forward, NEW r \in Requests, tx' \in [Requests -> Tx],
         \A q \in Requests \ {r} : tx'[q] = tx[q],
         Bound(tx[r])'
  PROVE  \A q \in Requests : Bound(tx[q])'
<1> SUFFICES ASSUME NEW q \in Requests \ {r} PROVE Bound(tx[q])'
  OBVIOUS
<1>1. PICK t \in Tx : t = tx[q]
  BY DEF Typed, TypeOK
<1>2. Bound(t)'
  BY <1>1, BoundStays DEF Typed
<1> QED
  BY <1>1, <1>2 DEF Bound

LEMMA OthersCovered ==
  ASSUME Typed, BilledInv, Forward, NEW r \in Requests,
         \A q \in Requests \ {r} : tx'[q] = tx[q],
         Covered(tx[r])'
  PROVE  \A q \in Requests : Covered(tx[q])'
<1> SUFFICES ASSUME NEW q \in Requests \ {r} PROVE Covered(tx[q])'
  OBVIOUS
<1>1. PICK t \in Tx : t = tx[q]
  BY DEF Typed, TypeOK
<1>2. Covered(t)'
  BY <1>1, CoveredStays DEF Typed, BilledInv
<1> QED
  BY <1>1, <1>2 DEF Covered

LEMMA GotoTyped ==
  ASSUME Typed, NEW r \in Requests, NEW t \in Tx, Goto(r, t)
  PROVE  /\ tx' \in [Requests -> Tx] /\ tx'[r] = t
         /\ \A q \in Requests \ {r} : tx'[q] = tx[q]
  BY DEF Typed, TypeOK, Goto

LEMMA AnswerTyped ==
  ASSUME Typed, NEW r \in Requests, Answer(r)
  PROVE  /\ tx' \in [Requests -> Tx] /\ Bound(tx[r])' /\ Covered(tx[r])'
         /\ \A q \in Requests \ {r} : tx'[q] = tx[q]
<1>1. /\ tx' \in [Requests -> Tx] /\ tx'[r] = [at |-> "answered"]
      /\ \A q \in Requests \ {r} : tx'[q] = tx[q]
  BY AnsweredIsTx DEF Answer, Goto, Typed, TypeOK
<1> QED
  BY <1>1 DEF Bound, Covered

-----------------------------------------------------------------------------
(* The steps that read *)

Inv == Typed /\ BilledInv

LEMMA InvInit == Init => Inv
<1> SUFFICES ASSUME Init PROVE Inv
  OBVIOUS
<1>1. /\ \A t \in Trackings : PlacedHeader(t) \in Header
      /\ \A q \in Qtys : NewLine(q) \in Line
  BY DEF PlacedHeader, NewLine, Header, Line, OrderStatus, LineStatus
<1>2. order \in [Orders -> Header \cup {None}]
  BY <1>1 DEF Init
<1>3. line \in [Lines -> Line \cup {None, Gone}]
  BY <1>1 DEF Init
<1>4. told \in [Orders \cup Lines -> Header \cup Line \cup {None, Gone}]
      /\ (\A o \in Orders : told[o] = order[o]) /\ (\A l \in Lines : told[l] = line[l])
  BY <1>2, <1>3, LinesBelong DEF Init
<1>5. \A r \in Requests : tx[r] = [at |-> "fresh"] /\ Bound(tx[r]) /\ Covered(tx[r])
  BY DEF Init, Bound, Covered
<1>6. TypeOK
  BY <1>2, <1>3, <1>4, <1>5, AnsweredIsTx DEF Init, TypeOK
<1>7. LinesOfPlaced
  BY LinesBelong DEF Init, LinesOfPlaced, There, Placed
<1>8. RowsBilled
  <2>1. \A o \in Orders : Placed(o) => ~order[o].locked /\ order[o].status = "IN_TRANSIT"
    BY DEF Init, Placed, PlacedHeader
  <2>2. \A l \in Lines : There(l) => line[l].status = "PENDING"
    BY DEF Init, There, NewLine
  <2> QED
    BY <2>1, <2>2 DEF RowsBilled
<1> QED
  BY <1>4, <1>5, <1>6, <1>7, <1>8 DEF Inv, Typed, BilledInv, ToldTyped, Placed

\* A request that goes on to t without a write to the tables it reads.
LEMMA ReadingInv ==
  ASSUME Inv, NEW r \in Requests, NEW t \in Tx, Goto(r, t),
         UNCHANGED <<order, line, told>>, rowLock' \in [Orders \cup Lines -> Requests \cup {None}],
         Bound(t), Covered(t)
  PROVE  Inv'
<1>1. tx' \in [Requests -> Tx] /\ tx'[r] = t /\ \A q \in Requests \ {r} : tx'[q] = tx[q]
  BY GotoTyped DEF Inv
<1>2. Forward
  BY DEF Forward, Placed, Billed
<1>3. Bound(tx[r])' /\ Covered(tx[r])'
  BY <1>1 DEF Bound, Covered, Placed, Billed
<1>4. \A q \in Requests : Bound(tx[q])' /\ Covered(tx[q])'
  BY <1>1, <1>2, <1>3, OthersBound, OthersCovered DEF Inv
<1>5. TypeOK' /\ ToldTyped' /\ LinesOfPlaced' /\ RowsBilled'
  BY <1>1 DEF Inv, Typed, TypeOK, ToldTyped, LinesOfPlaced, BilledInv, RowsBilled, Placed, There, Billed
<1> QED
  BY <1>4, <1>5 DEF Inv, Typed, BilledInv

\* What an order that is placed is.
LEMMA PlacedIs ==
  ASSUME Inv, NEW o \in Orders, Placed(o)
  PROVE  /\ order[o] \in Header /\ told[o] \in Header
         /\ order[o].locked \/ order[o].status = "IN_WAREHOUSE" => Billed(o)
  BY DEF Inv, Typed, TypeOK, ToldTyped, BilledInv, RowsBilled, Placed

\* What a line that is there is.
LEMMA ThereIs ==
  ASSUME Inv, NEW o \in Orders, NEW l \in LinesThere(o)
  PROVE  /\ l \in Lines /\ OrderOf(l) = o /\ There(l) /\ line[l] \in Line /\ line[l] # None
         /\ line[l].status # "PENDING" => Billed(o)
<1>1. l \in Lines /\ OrderOf(l) = o /\ There(l)
  BY LinesBelong DEF LinesThere
<1> QED
  BY <1>1 DEF Inv, Typed, TypeOK, BilledInv, RowsBilled, There

LEMMA SaveOrderInv ==
  ASSUME Inv, NEW r \in Requests, NEW o \in Orders, Placed(o), NEW entity \in Header,
         NEW set \in SUBSET {"status", "locked", "tracking"}, SaveOrder(r, o, entity, set),
         IF "locked" \in set THEN entity.locked ELSE entity.locked => Billed(o),
         entity.status = "IN_WAREHOUSE" => Billed(o)
  PROVE  Inv'
<1> DEFINE t == [at |-> "select_order", order |-> o, entity |-> entity, set |-> set, dirty |-> {}]
<1>1. t \in Tx
  BY DEF Tx, SavingOrder
<1>2. Goto(r, t) /\ UNCHANGED <<order, line, told, rowLock>>
  BY DEF SaveOrder, Start
<1>3. Bound(t) /\ Covered(t)
  BY DEF Bound, Covered
<1>4. rowLock' \in [Orders \cup Lines -> Requests \cup {None}]
  BY <1>2 DEF Inv, Typed, TypeOK
<1> HIDE DEF t
<1> QED
  BY <1>1, <1>2, <1>3, <1>4, ReadingInv

LEMMA BeginHeaderInv ==
  ASSUME Inv, NEW r \in Requests, BeginTrack(r) \/ BeginLock(r) \/ BeginStatus(r)
  PROVE  Inv'
<1>1. CASE BeginTrack(r)
  <2>1. PICK o \in Orders, tracking \in Trackings :
          Placed(o) /\ SaveOrder(r, o, [order[o] EXCEPT !.tracking = tracking], {"tracking"})
    BY <1>1 DEF BeginTrack
  <2> DEFINE entity == [order[o] EXCEPT !.tracking = tracking]
  <2>2. entity \in Header /\ entity.locked = order[o].locked /\ entity.status = order[o].status
    BY <2>1, PlacedIs DEF Header
  <2> HIDE DEF entity
  <2>3. SaveOrder(r, o, entity, {"tracking"})
    BY <2>1 DEF entity
  <2> QED
    BY <2>1, <2>2, <2>3, PlacedIs, SaveOrderInv
<1>2. CASE BeginLock(r)
  <2>1. PICK o \in Orders :
          /\ Placed(o) /\ order[o].status = "IN_TRANSIT"
          /\ SaveOrder(r, o, [order[o] EXCEPT !.locked = TRUE], {"locked"})
    BY <1>2 DEF BeginLock
  <2> DEFINE entity == [order[o] EXCEPT !.locked = TRUE]
  <2>2. entity \in Header /\ entity.locked /\ entity.status = "IN_TRANSIT"
    BY <2>1, PlacedIs DEF Header
  <2> HIDE DEF entity
  <2>3. SaveOrder(r, o, entity, {"locked"})
    BY <2>1 DEF entity
  <2> QED
    BY <2>1, <2>2, <2>3, SaveOrderInv
<1>3. CASE BeginStatus(r)
  <2>1. PICK o \in Orders : Placed(o) /\ \E status \in Allowed(order[o]) :
          SaveOrder(r, o, [order[o] EXCEPT !.status = status], {"status"})
    BY <1>3 DEF BeginStatus
  <2>2. PICK status \in Allowed(order[o]) :
          SaveOrder(r, o, [order[o] EXCEPT !.status = status], {"status"})
    BY <2>1
  <2>3. status \in OrderStatus /\ (status = "IN_WAREHOUSE" => order[o].locked)
    BY DEF Allowed, OrderStatus
  <2> DEFINE entity == [order[o] EXCEPT !.status = status]
  <2>4. entity \in Header /\ entity.locked = order[o].locked /\ entity.status = status
    BY <2>1, <2>3, PlacedIs DEF Header
  <2> HIDE DEF entity
  <2>5. SaveOrder(r, o, entity, {"status"})
    BY <2>2 DEF entity
  <2> QED
    BY <2>1, <2>3, <2>4, <2>5, PlacedIs, SaveOrderInv
<1> QED
  BY <1>1, <1>2, <1>3

LEMMA SaveLineInv ==
  ASSUME Inv, NEW r \in Requests, NEW o \in Orders, Placed(o), NEW l \in LinesThere(o),
         NEW entity \in Line, NEW set \in SUBSET {"status", "qty"}, SaveLine(r, o, l, entity, set),
         entity.status # "PENDING" => Billed(o)
  PROVE  Inv'
<1> DEFINE t == [at |-> "select_line", line |-> l, entity |-> entity, set |-> set, dirty |-> {}]
<1>1. l \in Lines /\ OrderOf(l) = o /\ line[l] # None
  BY ThereIs
<1>2. t \in Tx
  BY <1>1 DEF Tx, SavingLine
<1>3. Goto(r, t) /\ UNCHANGED <<order, line, told, rowLock>>
  BY DEF SaveLine, Start
<1>4. Bound(t) /\ Covered(t)
  BY <1>1 DEF Bound, Covered
<1>5. rowLock' \in [Orders \cup Lines -> Requests \cup {None}]
  BY <1>3 DEF Inv, Typed, TypeOK
<1> HIDE DEF t
<1> QED
  BY <1>2, <1>3, <1>4, <1>5, ReadingInv

LEMMA BeginLineInv ==
  ASSUME Inv, NEW r \in Requests, BeginEdit(r) \/ BeginReceipt(r) \/ BeginAdd(r) \/ BeginRemove(r)
  PROVE  Inv'
<1>1. CASE BeginEdit(r)
  <2>1. PICK o \in Orders, q \in Qtys : Placed(o) /\ \E l \in LinesThere(o) :
          SaveLine(r, o, l, [line[l] EXCEPT !.qty = q], {"qty"})
    BY <1>1 DEF BeginEdit
  <2>2. PICK l \in LinesThere(o) : SaveLine(r, o, l, [line[l] EXCEPT !.qty = q], {"qty"})
    BY <2>1
  <2> DEFINE entity == [line[l] EXCEPT !.qty = q]
  <2>3. entity \in Line /\ entity.status = line[l].status
    BY ThereIs DEF Line
  <2> HIDE DEF entity
  <2>4. SaveLine(r, o, l, entity, {"qty"})
    BY <2>2 DEF entity
  <2> QED
    BY <2>1, <2>3, <2>4, ThereIs, SaveLineInv
<1>2. CASE BeginReceipt(r)
  <2>1. PICK o \in Orders : Placed(o) /\ order[o].locked /\ \E l \in LinesThere(o) :
          \E status \in Receipts(line[l].status) :
            SaveLine(r, o, l, [line[l] EXCEPT !.status = status], {"status"})
    BY <1>2 DEF BeginReceipt, Receivable
  <2>2. PICK l \in LinesThere(o) : \E status \in Receipts(line[l].status) :
          SaveLine(r, o, l, [line[l] EXCEPT !.status = status], {"status"})
    BY <2>1
  <2>3. PICK status \in Receipts(line[l].status) :
          SaveLine(r, o, l, [line[l] EXCEPT !.status = status], {"status"})
    BY <2>2
  <2> DEFINE entity == [line[l] EXCEPT !.status = status]
  <2>4. status \in LineStatus
    BY DEF Receipts, LineStatus
  <2>5. entity \in Line
    BY <2>4, ThereIs DEF Line
  <2> HIDE DEF entity
  <2>6. SaveLine(r, o, l, entity, {"status"})
    BY <2>3 DEF entity
  <2> QED
    BY <2>1, <2>5, <2>6, PlacedIs, SaveLineInv
<1>3. CASE BeginAdd(r)
  <2>1. PICK o \in Orders : Placed(o) /\ Start(r, o, [at |-> "add_line", order |-> o])
    BY <1>3 DEF BeginAdd
  <2> DEFINE t == [at |-> "add_line", order |-> o]
  <2>2. t \in Tx
    BY DEF Tx, AddingLine
  <2>3. Goto(r, t) /\ UNCHANGED <<order, line, told, rowLock>>
    BY <2>1 DEF Start
  <2>4. Bound(t) /\ Covered(t)
    BY <2>1 DEF Bound, Covered
  <2> HIDE DEF t
  <2> QED
    BY <2>2, <2>3, <2>4, ReadingInv DEF Inv, Typed, TypeOK
<1>4. CASE BeginRemove(r)
  <2>1. PICK o \in Orders : Placed(o) /\ \E l \in LinesThere(o) : Start(r, o, [at |-> "remove_line", line |-> l])
    BY <1>4 DEF BeginRemove
  <2>2. PICK l \in LinesThere(o) : Start(r, o, [at |-> "remove_line", line |-> l])
    BY <2>1
  <2> DEFINE t == [at |-> "remove_line", line |-> l]
  <2>3. t \in Tx
    BY ThereIs DEF Tx, RemovingLine
  <2>4. Goto(r, t) /\ UNCHANGED <<order, line, told, rowLock>>
    BY <2>2 DEF Start
  <2>5. Bound(t) /\ Covered(t)
    BY <2>1, ThereIs DEF Bound, Covered
  <2> HIDE DEF t
  <2> QED
    BY <2>3, <2>4, <2>5, ReadingInv DEF Inv, Typed, TypeOK
<1> QED
  BY <1>1, <1>2, <1>3, <1>4

LEMMA SelectInv ==
  ASSUME Inv, NEW r \in Requests, SelectOrder(r) \/ SelectLine(r)
  PROVE  Inv'
<1>1. tx[r] \in Tx /\ Bound(tx[r]) /\ Covered(tx[r])
  BY DEF Inv, Typed, TypeOK, BilledInv
<1>2. rowLock \in [Orders \cup Lines -> Requests \cup {None}]
  BY DEF Inv, Typed, TypeOK
<1>3. CASE SelectOrder(r)
  <2> DEFINE cols == Differing(tx[r].entity, order[tx[r].order])
             t == [tx[r] EXCEPT !.at = "update_order", !.dirty = cols]
  <2>1. tx[r].at = "select_order" /\ tx[r] \in SavingOrder
    BY <1>1, <1>3, TxKinds DEF SelectOrder
  <2>2. order[tx[r].order] \in Header
    BY <1>1, <2>1, PlacedIs DEF Bound, SavingOrder
  <2>3. cols \in SUBSET {"status", "locked", "tracking"}
    BY <2>1, <2>2, DirtyIs DEF SavingOrder
  <2>4. Goto(r, t) /\ UNCHANGED <<order, line, told, rowLock>>
    BY <1>3 DEF SelectOrder
  <2> HIDE DEF cols
  <2>5. /\ t \in SavingOrder /\ t.at = "update_order"
        /\ t.order = tx[r].order /\ t.entity = tx[r].entity /\ t.set = tx[r].set
    BY <2>1, <2>3 DEF SavingOrder
  <2> HIDE DEF t
  <2>6. t \in Tx /\ Bound(t) /\ Covered(t)
    BY <1>1, <2>1, <2>5 DEF Tx, Bound, Covered
  <2> QED
    BY <1>2, <2>4, <2>6, ReadingInv
<1>4. CASE SelectLine(r)
  <2> DEFINE cols == LineDirty(tx[r].entity, tx[r].line)
             t == [tx[r] EXCEPT !.at = "update_line", !.dirty = cols]
  <2>1. tx[r].at = "select_line" /\ tx[r] \in SavingLine
    BY <1>1, <1>4, TxKinds DEF SelectLine
  <2>2. cols \in SUBSET {"status", "qty", "insert"}
    BY <2>1, LineDirtyIs DEF SavingLine, Inv, Typed, TypeOK
  <2>3. Goto(r, t) /\ UNCHANGED <<order, line, told, rowLock>>
    BY <1>4 DEF SelectLine
  <2> HIDE DEF cols
  <2>4. /\ t \in SavingLine /\ t.at = "update_line"
        /\ t.line = tx[r].line /\ t.entity = tx[r].entity
    BY <2>1, <2>2 DEF SavingLine
  <2> HIDE DEF t
  <2>5. t \in Tx /\ Bound(t) /\ Covered(t)
    BY <1>1, <2>1, <2>4 DEF Tx, Bound, Covered
  <2> QED
    BY <1>2, <2>3, <2>5, ReadingInv
<1> QED
  BY <1>3, <1>4

\* The lines an arrival finds.
LEMMA FoundIs ==
  ASSUME Inv, NEW o \in Orders
  PROVE  /\ Found(o) \in [Lines -> Line \cup {None}]
         /\ \A l \in Lines : Found(o)[l] # None => l \in LinesOf[o] /\ line[l] # None
<1>1. \A l \in LinesThere(o) : l \in LinesOf[o] /\ line[l] \in Line /\ line[l] # None
  BY ThereIs DEF LinesThere
<1> QED
  BY <1>1 DEF Found

LEMMA UpdateArrivingInv ==
  ASSUME Inv, NEW r \in Requests, UpdateArriving(r)
  PROVE  Inv'
<1> DEFINE o == tx[r].order
           f == Found(o)
           t == [at |-> "receive", order |-> o, entity |-> tx[r].entity, dirty |-> tx[r].dirty,
                 found |-> f, current |-> None, todo |-> {l \in Lines : f[l] # None},
                 writes |-> [l \in Lines |-> {}]]
<1>1. tx[r] \in Tx /\ Bound(tx[r]) /\ Covered(tx[r])
  BY DEF Inv, Typed, TypeOK, BilledInv
<1>2. tx[r].at = "update_order" /\ tx[r] \in SavingOrder
  BY <1>1, TxKinds DEF UpdateArriving
<1>3. o \in Orders /\ Placed(o) /\ Billed(o)
  BY <1>1, <1>2 DEF SavingOrder, Bound, Covered, UpdateArriving, Arrives
<1>4. Goto(r, t) /\ UNCHANGED <<order, line, told>>
  BY DEF UpdateArriving
<1>5. rowLock' \in [Orders \cup Lines -> Requests \cup {None}]
  BY <1>3 DEF UpdateArriving, Hold, Inv, Typed, TypeOK
<1>6. /\ f \in [Lines -> Line \cup {None}]
      /\ \A l \in Lines : f[l] # None => l \in LinesOf[o] /\ line[l] # None
  BY <1>3, FoundIs
<1> HIDE DEF f
<1>7. t \in Tx
  BY <1>2, <1>3, <1>6 DEF Tx, Receiving, SavingOrder
<1>8. Bound(t) /\ Covered(t)
  BY <1>3, <1>6 DEF Bound, Covered
<1> HIDE DEF t
<1> QED
  BY <1>4, <1>5, <1>7, <1>8, ReadingInv

LEMMA PendingInv ==
  ASSUME Inv, NEW r \in Requests, SelectPending(r) \/ UpdatePending(r)
  PROVE  Inv'
<1>1. tx[r] \in Tx /\ Bound(tx[r]) /\ Covered(tx[r])
  BY DEF Inv, Typed, TypeOK, BilledInv
<1>2. tx[r].at = "receive" /\ tx[r] \in Receiving
  BY <1>1, TxKinds DEF SelectPending, UpdatePending
<1>3. CASE SelectPending(r)
  <2>1. PICK l \in tx[r].todo :
          LET dirty == LineDirty(Received(tx[r].found[l]), l)
          IN  Goto(r, [tx[r] EXCEPT !.current = l, !.todo = tx[r].todo \ {l},
                                    !.writes = [tx[r].writes EXCEPT ![l] = dirty]])
    BY <1>3 DEF SelectPending
  <2> DEFINE dirty == LineDirty(Received(tx[r].found[l]), l)
             writes == [tx[r].writes EXCEPT ![l] = dirty]
             t == [tx[r] EXCEPT !.current = l, !.todo = tx[r].todo \ {l}, !.writes = writes]
  <2>2. l \in Lines /\ tx[r].found[l] # None /\ tx[r].found[l] \in Line
    BY <1>1, <1>2 DEF Receiving, Bound
  <2>3. dirty \in SUBSET {"status", "qty", "insert"}
    BY <2>2, LineDirtyIs, ReceivedIs DEF Inv, Typed, TypeOK
  <2>4. Goto(r, t)
    BY <2>1
  <2> HIDE DEF dirty
  <2>5. writes \in [Lines -> SUBSET {"status", "qty", "insert"}]
    BY <1>2, <2>3 DEF Receiving
  <2> HIDE DEF writes
  <2>6. /\ t \in Receiving /\ t.at = "receive" /\ t.order = tx[r].order /\ t.found = tx[r].found
        /\ t.current = l /\ \A k \in t.todo : k \in tx[r].todo
    BY <1>2, <2>2, <2>5 DEF Receiving
  <2> HIDE DEF t
  <2>7. t \in Tx /\ Bound(t) /\ Covered(t)
    BY <1>1, <1>2, <2>2, <2>6 DEF Tx, Bound, Covered
  <2>8. UNCHANGED <<order, line, told, rowLock>>
    BY <1>3 DEF SelectPending
  <2> QED
    BY <2>4, <2>7, <2>8, ReadingInv DEF Inv, Typed, TypeOK
<1>4. CASE UpdatePending(r)
  <2> DEFINE t == [tx[r] EXCEPT !.current = None]
  <2>1. Goto(r, t) /\ UNCHANGED <<order, line, told>>
    BY <1>4 DEF UpdatePending
  <2>2. tx[r].current \in Lines
    BY <1>2, <1>4 DEF Receiving, UpdatePending
  <2>3. rowLock' \in [Orders \cup Lines -> Requests \cup {None}]
    BY <1>4, <2>2 DEF UpdatePending, Hold, Inv, Typed, TypeOK
  <2>4. /\ t \in Receiving /\ t.at = "receive" /\ t.order = tx[r].order /\ t.found = tx[r].found
        /\ t.current = None /\ t.todo = tx[r].todo
    BY <1>2 DEF Receiving
  <2> HIDE DEF t
  <2>5. t \in Tx /\ Bound(t) /\ Covered(t)
    BY <1>1, <1>2, <2>4 DEF Tx, Bound, Covered
  <2> QED
    BY <2>1, <2>3, <2>5, ReadingInv
<1> QED
  BY <1>3, <1>4

-----------------------------------------------------------------------------
(* The steps that commit, or fail *)

LEMMA ReleaseIs ==
  ASSUME Inv, NEW r
  PROVE  Release(r) \in [Orders \cup Lines -> Requests \cup {None}]
  BY DEF Release, Inv, Typed, TypeOK

RowsTyped ==
  /\ order \in [Orders -> Header \cup {None}]
  /\ line \in [Lines -> Line \cup {None, Gone}]
  /\ told \in [Orders \cup Lines -> Header \cup Line \cup {None, Gone}]
  /\ \A o \in Orders : told[o] \in Header \cup {None} /\ (Placed(o) => told[o] # None)
  /\ \A l \in Lines : told[l] \in Line \cup {None, Gone}

LEMMA AnsweringInv ==
  ASSUME Inv, NEW r \in Requests, Answer(r), Forward, RowsTyped', LinesOfPlaced', RowsBilled',
         rowLock' \in [Orders \cup Lines -> Requests \cup {None}]
  PROVE  Inv'
<1>1. /\ tx' \in [Requests -> Tx] /\ Bound(tx[r])' /\ Covered(tx[r])'
      /\ \A q \in Requests \ {r} : tx'[q] = tx[q]
  BY AnswerTyped DEF Inv
<1>2. \A q \in Requests : Bound(tx[q])' /\ Covered(tx[q])'
  BY <1>1, OthersBound, OthersCovered DEF Inv
<1>3. TypeOK' /\ ToldTyped'
  BY <1>1 DEF TypeOK, ToldTyped, RowsTyped
<1> QED
  BY <1>2, <1>3 DEF Inv, Typed, BilledInv

\* The header o gets h, of which its history tells k, and the lines stay.
LEMMA HeaderInv ==
  ASSUME Inv, NEW r \in Requests, Answer(r), NEW o \in Orders, Placed(o),
         NEW h \in Header, NEW k \in Header,
         order' = [order EXCEPT ![o] = h], told' = [told EXCEPT ![o] = k],
         h.locked \/ h.status = "IN_WAREHOUSE" \/ Billed(o) => k.locked,
         UNCHANGED <<line, rowLock>>
  PROVE  Inv'
<1>1. RowsTyped'
  BY Marks, LinesBelong DEF RowsTyped, Inv, Typed, TypeOK, ToldTyped, Placed
<1>2. /\ \A p \in Orders \ {o} : order'[p] = order[p] /\ told'[p] = told[p]
      /\ order'[o] = h /\ told'[o] = k
  BY DEF Inv, Typed, TypeOK, ToldTyped
<1>3. Forward
  BY <1>2, Marks DEF Forward, Placed, Billed
<1>4. LinesOfPlaced'
  BY <1>3, LinesBelong DEF Forward, LinesOfPlaced, There, Inv, Typed
<1>5. RowsBilled'
  <2>1. ASSUME NEW p \in Orders, Placed(p)', order'[p].locked \/ order'[p].status = "IN_WAREHOUSE"
        PROVE  Billed(p)'
    BY <1>2, <2>1 DEF Inv, BilledInv, RowsBilled, Placed, Billed
  <2>2. ASSUME NEW l \in Lines, There(l)', line'[l].status # "PENDING" PROVE Billed(OrderOf(l))'
    <3>1. There(l) /\ Billed(OrderOf(l)) /\ Placed(OrderOf(l)) /\ OrderOf(l) \in Orders
      BY <2>2, LinesBelong DEF Inv, Typed, LinesOfPlaced, BilledInv, RowsBilled, There
    <3> QED
      BY <1>3, <3>1 DEF Forward, Billed
  <2> QED
    BY <2>1, <2>2 DEF RowsBilled
<1> QED
  BY <1>1, <1>3, <1>4, <1>5, AnsweringInv DEF Inv, Typed, TypeOK

LEMMA CommitOrderInv ==
  ASSUME Inv, NEW r \in Requests, CommitOrder(r)
  PROVE  Inv'
<1> DEFINE o == tx[r].order
           h == OverHeader(order[o], tx[r].entity, tx[r].dirty)
           k == OverHeader(told[o], tx[r].entity, tx[r].set)
<1>1. /\ tx[r] \in SavingOrder /\ Bound(tx[r]) /\ Covered(tx[r]) /\ tx[r].at = "update_order"
  BY TxKinds DEF Inv, Typed, TypeOK, BilledInv, CommitOrder
<1>2. o \in Orders /\ Placed(o) /\ tx[r].entity \in Header
  BY <1>1 DEF SavingOrder, Bound
<1>3. order[o] \in Header /\ told[o] \in Header /\ (order[o].locked \/ order[o].status = "IN_WAREHOUSE" => Billed(o))
  BY <1>2, PlacedIs
<1>4. /\ h \in Header /\ h.status \in {order[o].status, tx[r].entity.status}
      /\ h.locked = IF "locked" \in tx[r].dirty THEN tx[r].entity.locked ELSE order[o].locked
      /\ k \in Header
      /\ k.locked = IF "locked" \in tx[r].set THEN tx[r].entity.locked ELSE told[o].locked
  BY <1>2, <1>3, OverHeaderIs
<1>5. /\ Answer(r) /\ UNCHANGED <<line, rowLock>>
      /\ order' = [order EXCEPT ![o] = h] /\ told' = [told EXCEPT ![o] = k]
  BY DEF CommitOrder
<1> HIDE DEF h, k
<1>6. h.locked \/ h.status = "IN_WAREHOUSE" \/ Billed(o) => k.locked
  BY <1>1, <1>3, <1>4 DEF Covered, Billed
<1> QED
  BY <1>2, <1>4, <1>5, <1>6, HeaderInv

LEMMA FailInv ==
  ASSUME Inv, NEW r \in Requests, Fail(r)
  PROVE  Inv'
<1>1. Answer(r) /\ UNCHANGED <<order, line, told>> /\ rowLock' = Release(r)
  BY DEF Fail
<1>2. Forward /\ RowsTyped' /\ LinesOfPlaced' /\ RowsBilled'
  BY <1>1 DEF Forward, RowsTyped, LinesOfPlaced, RowsBilled, Inv, Typed, TypeOK, ToldTyped,
              BilledInv, Placed, There, Billed
<1> QED
  BY <1>1, <1>2, ReleaseIs, AnsweringInv

\* One line of an order that is placed gets d, and its history tells k of it.
LEMMA LineInv ==
  ASSUME Inv, NEW r \in Requests, Answer(r), NEW l \in Lines,
         NEW d \in Line \cup {Gone}, NEW k \in Line \cup {None, Gone},
         line' = [line EXCEPT ![l] = d], told' = [told EXCEPT ![l] = k],
         Placed(OrderOf(l)), d # Gone /\ d.status # "PENDING" => Billed(OrderOf(l)),
         UNCHANGED <<order, rowLock>>
  PROVE  Inv'
<1>1. RowsTyped'
  BY Marks, LinesBelong DEF RowsTyped, Inv, Typed, TypeOK, ToldTyped, Placed
<1>2. /\ \A m \in Lines \ {l} : line'[m] = line[m]
      /\ line'[l] = d
      /\ \A o \in Orders : told'[o] = told[o]
  BY LinesBelong DEF Inv, Typed, TypeOK, ToldTyped
<1>3. Forward
  BY <1>2, Marks DEF Forward, Placed, Billed
<1>4. LinesOfPlaced'
  BY <1>2 DEF LinesOfPlaced, There, Placed, Inv, Typed
<1>5. RowsBilled'
  <2>1. ASSUME NEW p \in Orders, Placed(p)', order'[p].locked \/ order'[p].status = "IN_WAREHOUSE"
        PROVE  Billed(p)'
    BY <1>2, <2>1 DEF Inv, BilledInv, RowsBilled, Placed, Billed
  <2>2. ASSUME NEW m \in Lines, There(m)', line'[m].status # "PENDING" PROVE Billed(OrderOf(m))'
    <3>1. Billed(OrderOf(m)) /\ OrderOf(m) \in Orders
      BY <1>2, <2>2, LinesBelong DEF Inv, BilledInv, RowsBilled, There
    <3> QED
      BY <1>2, <3>1 DEF Billed
  <2> QED
    BY <2>1, <2>2 DEF RowsBilled
<1> QED
  BY <1>1, <1>3, <1>4, <1>5, AnsweringInv DEF Inv, Typed, TypeOK

LEMMA CommitLinesInv ==
  ASSUME Inv, NEW r \in Requests, CommitAdd(r) \/ CommitLine(r) \/ CommitRemove(r)
  PROVE  Inv'
<1>0. tx[r] \in Tx /\ Bound(tx[r]) /\ Covered(tx[r])
  BY DEF Inv, Typed, TypeOK, BilledInv
<1>1. CASE CommitAdd(r)
  <2>1. PICK l \in LinesOf[tx[r].order], q \in Qtys :
          line' = [line EXCEPT ![l] = NewLine(q)] /\ told' = [told EXCEPT ![l] = NewLine(q)]
    BY <1>1 DEF CommitAdd
  <2>2. tx[r].order \in Orders /\ Placed(tx[r].order)
    BY <1>0, <1>1, TxKinds DEF CommitAdd, AddingLine, Bound
  <2>3. l \in Lines /\ OrderOf(l) = tx[r].order
    BY <2>2, LinesBelong
  <2> DEFINE d == NewLine(q)
  <2>4. d \in Line /\ d.status = "PENDING"
    BY DEF NewLine, Line, LineStatus
  <2>5. Answer(r) /\ UNCHANGED <<order, rowLock>> /\ line' = [line EXCEPT ![l] = d] /\ told' = [told EXCEPT ![l] = d]
    BY <1>1, <2>1 DEF CommitAdd
  <2> HIDE DEF d
  <2> QED
    BY <2>2, <2>3, <2>4, <2>5, LineInv
<1>2. CASE CommitLine(r)
  <2> DEFINE l == tx[r].line
             d == Saved(line[l], tx[r].entity, tx[r].dirty)
             k == Retold(told[l], tx[r].entity, tx[r].set)
  <2>1. tx[r].at = "update_line" /\ tx[r] \in SavingLine
    BY <1>0, <1>2, TxKinds DEF CommitLine
  <2>2. /\ l \in Lines /\ tx[r].entity \in Line /\ line[l] \in Line \cup {Gone}
        /\ told[l] \in Line \cup {None, Gone} /\ Placed(OrderOf(l))
    BY <1>0, <2>1 DEF SavingLine, Bound, Inv, Typed, TypeOK
  <2>3. /\ d \in Line \cup {Gone} /\ k \in Line \cup {None, Gone}
        /\ d = Gone \/ d.status = tx[r].entity.status \/ (line[l] \in Line /\ d.status = line[l].status)
    BY <2>2, SavedIs, RetoldIs
  <2>4. Answer(r) /\ UNCHANGED <<order, rowLock>> /\ line' = [line EXCEPT ![l] = d] /\ told' = [told EXCEPT ![l] = k]
    BY <1>2 DEF CommitLine
  <2> HIDE DEF d, k
  <2>5. line[l] \in Line /\ line[l].status # "PENDING" => Billed(OrderOf(l))
    BY <2>2, Marks DEF Inv, BilledInv, RowsBilled, There
  <2>6. d # Gone /\ d.status # "PENDING" => Billed(OrderOf(l))
    BY <1>0, <2>1, <2>3, <2>5 DEF Covered
  <2> QED
    BY <2>2, <2>3, <2>4, <2>6, LineInv
<1>3. CASE CommitRemove(r)
  <2>1. tx[r].line \in Lines /\ Placed(OrderOf(tx[r].line))
    BY <1>0, <1>3, TxKinds DEF CommitRemove, RemovingLine, Bound
  <2>2. /\ Answer(r) /\ UNCHANGED <<order, rowLock>>
        /\ line' = [line EXCEPT ![tx[r].line] = Gone] /\ told' = [told EXCEPT ![tx[r].line] = Gone]
    BY <1>3 DEF CommitRemove
  <2> QED
    BY <2>1, <2>2, LineInv
<1> QED
  BY <1>1, <1>2, <1>3

LEMMA CommitArrivalInv ==
  ASSUME Inv, NEW r \in Requests, CommitArrival(r)
  PROVE  Inv'
<1>0. PICK o, f : o = tx[r].order /\ f = tx[r].found
  OBVIOUS
<1>1. /\ tx[r] \in Receiving /\ Bound(tx[r]) /\ Covered(tx[r]) /\ tx[r].at = "receive"
  BY TxKinds DEF Inv, Typed, TypeOK, BilledInv, CommitArrival
<1>2. /\ o \in Orders /\ Placed(o) /\ Billed(o) /\ tx[r].entity \in Header
      /\ f \in [Lines -> Line \cup {None}]
      /\ \A l \in Lines : f[l] # None => l \in LinesOf[o] /\ OrderOf(l) = o /\ line[l] # None
  BY <1>0, <1>1, LinesBelong DEF Receiving, Bound, Covered
<1>3. order[o] \in Header /\ told[o] \in Header
  BY <1>2, PlacedIs
<1>4. /\ Answer(r) /\ rowLock' = Release(r)
      /\ order' = [order EXCEPT ![o] = OverHeader(order[o], tx[r].entity, tx[r].dirty)]
      /\ line' = [l \in Lines |-> IF f[l] = None THEN line[l]
                                  ELSE Saved(line[l], Received(f[l]), tx[r].writes[l])]
      /\ told' = ToldOfArrival(tx[r])
  BY <1>0 DEF CommitArrival
<1>5. /\ order'[o] \in Header /\ \A p \in Orders \ {o} : order'[p] = order[p]
      /\ order' \in [Orders -> Header \cup {None}]
  BY <1>2, <1>3, <1>4, OverHeaderIs DEF Inv, Typed, TypeOK
<1>6. \A l \in Lines : IF f[l] = None THEN line'[l] = line[l] ELSE line'[l] \in Line \cup {Gone}
  <2> SUFFICES ASSUME NEW l \in Lines, f[l] # None PROVE line'[l] \in Line \cup {Gone}
    BY <1>4
  <2>1. Received(f[l]) \in Line /\ line[l] \in Line \cup {Gone}
    BY <1>2, ReceivedIs DEF Inv, Typed, TypeOK
  <2> QED
    BY <1>4, <2>1, SavedIs
<1>7. line' \in [Lines -> Line \cup {None, Gone}]
  BY <1>4, <1>6 DEF Inv, Typed, TypeOK
<1>8. /\ told'[o] \in Header /\ Billed(o)'
      /\ \A p \in Orders \ {o} : told'[p] = told[p]
      /\ \A l \in Lines : told'[l] \in Line \cup {None, Gone}
      /\ told' \in [Orders \cup Lines -> Header \cup Line \cup {None, Gone}]
  <2>1. told'[o] = OverHeader(told[o], tx[r].entity, {"status"})
    BY <1>0, <1>2, <1>4, LinesBelong DEF ToldOfArrival
  <2>2. told'[o] \in Header /\ told'[o].locked = told[o].locked
    BY <1>2, <1>3, <2>1, OverHeaderIs
  <2>3. \A p \in Orders \ {o} : told'[p] = told[p]
    BY <1>0, <1>4, LinesBelong DEF ToldOfArrival
  <2>4. ASSUME NEW l \in Lines PROVE told'[l] \in Line \cup {None, Gone}
    <3>1. told[l] \in Line \cup {None, Gone} /\ l # o
      BY <1>2, LinesBelong DEF Inv, Typed, TypeOK
    <3>2. CASE f[l] = None
      BY <1>0, <1>4, <3>1, <3>2 DEF ToldOfArrival
    <3>3. CASE f[l] # None
      <4>1. Received(f[l]) \in Line
        BY <1>2, <3>3, ReceivedIs
      <4>2. told'[l] = Retold(told[l], Received(f[l]), {"status"})
        BY <1>0, <1>4, <3>1, <3>3 DEF ToldOfArrival
      <4> QED
        BY <3>1, <4>1, <4>2, RetoldIs
    <3> QED
      BY <3>2, <3>3
  <2>5. told' = [row \in Orders \cup Lines |-> told'[row]]
    BY <1>0, <1>4 DEF ToldOfArrival
  <2>6. \A p \in Orders : told'[p] \in Header \cup {None}
    BY <2>2, <2>3 DEF Inv, Typed, TypeOK
  <2> QED
    BY <1>2, <2>2, <2>3, <2>4, <2>5, <2>6 DEF Billed
<1>9. Forward
  BY <1>2, <1>5, <1>6, <1>8, Marks DEF Forward, Placed, Billed
<1>10. RowsTyped'
  BY <1>5, <1>7, <1>8, Marks DEF RowsTyped, Placed, Inv, Typed, TypeOK, ToldTyped
<1>11. LinesOfPlaced'
  <2> SUFFICES ASSUME NEW l \in Lines, line'[l] # None PROVE Placed(OrderOf(l))'
    BY DEF LinesOfPlaced
  <2>1. Placed(OrderOf(l)) /\ OrderOf(l) \in Orders
    BY <1>2, <1>6, LinesBelong DEF Inv, Typed, LinesOfPlaced
  <2> QED
    BY <1>9, <2>1 DEF Forward, Placed
<1>12. RowsBilled'
  <2>1. ASSUME NEW p \in Orders, Placed(p)', order'[p].locked \/ order'[p].status = "IN_WAREHOUSE"
        PROVE  Billed(p)'
    BY <1>5, <1>8, <2>1 DEF Inv, BilledInv, RowsBilled, Placed, Billed
  <2>2. ASSUME NEW l \in Lines, There(l)', line'[l].status # "PENDING" PROVE Billed(OrderOf(l))'
    <3>1. CASE f[l] # None
      BY <1>2, <1>8, <3>1 DEF Billed
    <3>2. CASE f[l] = None
      <4>1. There(l) /\ Billed(OrderOf(l)) /\ OrderOf(l) \in Orders /\ Placed(OrderOf(l))
        BY <1>6, <2>2, <3>2, LinesBelong DEF Inv, Typed, LinesOfPlaced, BilledInv, RowsBilled, There
      <4> QED
        BY <1>9, <4>1 DEF Forward, Billed
    <3> QED
      BY <3>1, <3>2
  <2> QED
    BY <2>1, <2>2 DEF RowsBilled
<1> QED
  BY <1>4, <1>9, <1>10, <1>11, <1>12, ReleaseIs, AnsweringInv

LEMMA PlaceInv ==
  ASSUME Inv, NEW r \in Requests, Place(r)
  PROVE  Inv'
<1>1. PICK o \in Orders, tracking \in Trackings :
        /\ ~Placed(o)
        /\ \E ls \in Placements(o) :
             LET placed == [row \in {o} \cup LinesOf[o] |-> IF row = o THEN PlacedHeader(tracking) ELSE ls[row]]
             IN  /\ order' = [order EXCEPT ![o] = placed[o]]
                 /\ line' = [l \in Lines |-> IF l \in LinesOf[o] THEN placed[l] ELSE line[l]]
                 /\ told' = [row \in Orders \cup Lines |-> IF row \in DOMAIN placed THEN placed[row] ELSE told[row]]
  BY DEF Place
<1>2. PICK ls \in Placements(o) :
        LET placed == [row \in {o} \cup LinesOf[o] |-> IF row = o THEN PlacedHeader(tracking) ELSE ls[row]]
        IN  /\ order' = [order EXCEPT ![o] = placed[o]]
            /\ line' = [l \in Lines |-> IF l \in LinesOf[o] THEN placed[l] ELSE line[l]]
            /\ told' = [row \in Orders \cup Lines |-> IF row \in DOMAIN placed THEN placed[row] ELSE told[row]]
  BY <1>1
<1> DEFINE h == PlacedHeader(tracking)
<1>3. h \in Header /\ ~h.locked /\ h.status = "IN_TRANSIT"
  BY DEF PlacedHeader, Header, OrderStatus
<1>4. \A l \in LinesOf[o] : ls[l] \in Line \cup {None} /\ (ls[l] # None => ls[l].status = "PENDING")
  BY DEF Placements, NewLine, Line, LineStatus
<1>5. \A l \in LinesOf[o] : l \in Lines /\ l # o /\ l \notin Orders
  BY LinesBelong
<1>6. /\ order' = [order EXCEPT ![o] = h]
      /\ line' = [l \in Lines |-> IF l \in LinesOf[o] THEN ls[l] ELSE line[l]]
      /\ told' = [row \in Orders \cup Lines |->
                    IF row = o THEN h ELSE IF row \in LinesOf[o] THEN ls[row] ELSE told[row]]
  BY <1>2, <1>5
<1> HIDE DEF h
<1>7. /\ order'[o] = h /\ told'[o] = h
      /\ \A p \in Orders \ {o} : order'[p] = order[p] /\ told'[p] = told[p]
      /\ \A l \in LinesOf[o] : line'[l] = ls[l] /\ told'[l] = ls[l]
      /\ \A l \in Lines \ LinesOf[o] : line'[l] = line[l] /\ told'[l] = told[l]
  BY <1>5, <1>6, LinesBelong DEF Inv, Typed, TypeOK
<1>8. \A l \in LinesOf[o] : line[l] = None
  BY <1>1, LinesBelong DEF Inv, Typed, LinesOfPlaced
<1>9. Forward
  BY <1>1, <1>5, <1>7, <1>8 DEF Forward, Placed, Billed
<1>10. RowsTyped'
  <2>1. order' \in [Orders -> Header \cup {None}] /\ line' \in [Lines -> Line \cup {None, Gone}]
    BY <1>3, <1>4, <1>6 DEF Inv, Typed, TypeOK
  <2>2. told' \in [Orders \cup Lines -> Header \cup Line \cup {None, Gone}]
    BY <1>3, <1>4, <1>6 DEF Inv, Typed, ToldTyped
  <2>3. \A p \in Orders : told'[p] \in Header \cup {None} /\ (Placed(p)' => told'[p] # None)
    BY <1>3, <1>7, Marks DEF Placed, Inv, Typed, TypeOK, ToldTyped
  <2>4. \A l \in Lines : told'[l] \in Line \cup {None, Gone}
    BY <1>4, <1>7 DEF Inv, Typed, TypeOK
  <2> QED
    BY <2>1, <2>2, <2>3, <2>4 DEF RowsTyped
<1>11. LinesOfPlaced'
  <2> SUFFICES ASSUME NEW l \in Lines, line'[l] # None PROVE Placed(OrderOf(l))'
    BY DEF LinesOfPlaced
  <2>1. CASE l \in LinesOf[o]
    BY <1>3, <1>7, <2>1, LinesBelong, Marks DEF Placed
  <2>2. CASE l \notin LinesOf[o]
    <3>1. Placed(OrderOf(l)) /\ OrderOf(l) \in Orders
      BY <1>7, <2>2, LinesBelong DEF Inv, Typed, LinesOfPlaced
    <3> QED
      BY <1>9, <3>1 DEF Forward, Placed
  <2> QED
    BY <2>1, <2>2
<1>12. RowsBilled'
  <2>1. ASSUME NEW p \in Orders, Placed(p)', order'[p].locked \/ order'[p].status = "IN_WAREHOUSE"
        PROVE  Billed(p)'
    BY <1>3, <1>7, <2>1 DEF Inv, BilledInv, RowsBilled, Placed, Billed
  <2>2. ASSUME NEW l \in Lines, There(l)', line'[l].status # "PENDING" PROVE Billed(OrderOf(l))'
    <3>1. l \notin LinesOf[o]
      BY <1>4, <1>7, <2>2 DEF There
    <3>2. There(l) /\ Billed(OrderOf(l)) /\ OrderOf(l) \in Orders /\ Placed(OrderOf(l))
      BY <1>7, <2>2, <3>1, LinesBelong DEF Inv, Typed, LinesOfPlaced, BilledInv, RowsBilled, There
    <3> QED
      BY <1>9, <3>2 DEF Forward, Billed
  <2> QED
    BY <2>1, <2>2 DEF RowsBilled
<1>13. Answer(r) /\ rowLock' = rowLock
  BY DEF Place
<1> QED
  BY <1>9, <1>10, <1>11, <1>12, <1>13, AnsweringInv DEF Inv, Typed, TypeOK

LEMMA InvNext == Inv /\ [Next]_vars => Inv'
<1> SUFFICES ASSUME Inv, [Next]_vars PROVE Inv'
  OBVIOUS
<1>1. CASE UNCHANGED vars
  BY <1>1 DEF vars, Inv, Typed, TypeOK, ToldTyped, LinesOfPlaced, BilledInv, RowsBilled,
              Bound, Covered, Placed, There, Billed
<1>2. ASSUME NEW r \in Requests, Begin(r) PROVE Inv'
  BY <1>2, PlaceInv, BeginHeaderInv, BeginLineInv DEF Begin
<1>3. ASSUME NEW r \in Requests, Continue(r) PROVE Inv'
  BY <1>3, SelectInv, CommitOrderInv, UpdateArrivingInv, PendingInv, CommitArrivalInv, CommitLinesInv
     DEF Continue
<1>4. ASSUME NEW r \in Requests, Fail(r) PROVE Inv'
  BY <1>4, FailInv
<1> QED
  BY <1>1, <1>2, <1>3, <1>4 DEF Next

(* Rows, their replay, row locks and requests keep their types (Orders!TypeOK), for any
   orders, lines and requests. *)
THEOREM TypeCorrect == Spec => []TypeOK
<1>1. Inv => TypeOK
  BY DEF Inv, Typed
<1> QED
  BY <1>1, InvInit, InvNext, PTL DEF Spec

(* Goods are taken in only for an order that has been locked, and so billed
   (Orders!HandledOnlyOnceLocked; order.service.ts:622-632, 823-854): whatever requests
   overlap, and although a save of a stale header may unlock an order again. *)
THEOREM BilledBeforeHandled == Spec => []HandledOnlyOnceLocked
<1>1. Inv => HandledOnlyOnceLocked
  <2> SUFFICES ASSUME Inv, NEW o \in Orders,
                      \/ Placed(o) /\ order[o].status = "IN_WAREHOUSE"
                      \/ \E l \in LinesThere(o) : line[l].status # "PENDING"
               PROVE  told[o].locked
    BY DEF HandledOnlyOnceLocked
  <2> QED
    BY PlacedIs, ThereIs DEF Billed
<1> QED
  BY <1>1, InvInit, InvNext, PTL DEF Spec

-----------------------------------------------------------------------------
(* Rows that are worked on by one request at a time.  The rows of a quiet order that two
   requests touch are never the same; what a request has loaded of them is what they are
   until it writes them, so a save writes exactly the columns its handler has changed. *)

RowOrder(row) == IF row \in Orders THEN row ELSE OrderOf(row)

Apart ==
  \A p, q \in Requests : p # q =>
    \A row \in Touched(tx[p]) \cap Touched(tx[q]) : RowOrder(row) \in Overlapping

\* The header as it was loaded, but for the one column the handler changes.
HeaderCurrent(t) ==
  /\ order[t.order].status # "CANCELLED"
  /\ t.entity = OverHeader(order[t.order], t.entity, t.set)
  /\ t.set \in {{"status"}, {"locked"}, {"tracking"}}
  /\ "locked" \in t.set => t.entity.locked
  /\ t.at = "update_order" => t.dirty = Differing(t.entity, order[t.order])

\* The header of an arrival, the pending lines it found, and those it has selected.
ArrivalCurrent(t) ==
  /\ order[t.order].status # "CANCELLED"
  /\ t.entity = OverHeader(order[t.order], t.entity, {"status"})
  /\ t.dirty = Differing(t.entity, order[t.order])
  /\ t.found = Found(t.order)
  /\ \A l \in Lines : t.found[l] # None /\ l \notin t.todo =>
       t.writes[l] = LineDirty(Received(t.found[l]), l)

LineCurrent(t) ==
  /\ There(t.line) /\ line[t.line].status # "CANCELLED"
  /\ t.entity = OverLine(line[t.line], t.entity, t.set)
  /\ t.at = "update_line" => t.dirty = LineDirty(t.entity, t.line)

\* A line that is being removed is not the last of its order.
AnotherLine(l) == \E k \in LinesThere(OrderOf(l)) : k # l

Current(t) ==
  /\ t.at \in {"select_order", "update_order"} /\ t.order \in Quiet => HeaderCurrent(t)
  /\ t.at = "receive" /\ t.order \in Quiet => ArrivalCurrent(t)
  /\ t.at \in {"select_line", "update_line"} /\ OrderOf(t.line) \in Quiet => LineCurrent(t)
  /\ t.at = "remove_line" /\ OrderOf(t.line) \in Quiet => AnotherLine(t.line)

QuietInv ==
  Inv /\ Apart /\ (\A r \in Requests : Current(tx[r])) /\ HistoryTellsRows /\ AlwaysALine

LEMMA TouchedIs ==
  ASSUME NEW t \in Tx
  PROVE  /\ t.at \in {"select_order", "update_order"} => t.order \in Touched(t)
         /\ t.at = "receive" \/ Arrives(t) => Touched(t) = {t.order} \cup LinesOf[t.order]
         /\ t.at \in {"select_order", "update_order"} /\ ~Arrives(t) => Touched(t) = {t.order}
         /\ t.at \in {"select_line", "update_line"} => Touched(t) = {t.line}
         /\ t.at = "add_line" => Touched(t) = LinesOf[t.order]
         /\ t.at = "remove_line" => Touched(t) = LinesOf[OrderOf(t.line)]
         /\ t.at \in {"fresh", "answered"} => Touched(t) = {}
  BY DEF Touched, Arrives

LEMMA HeadersEqual ==
  ASSUME NEW h \in Header, NEW k \in Header,
         h.status = k.status, h.locked = k.locked, h.tracking = k.tracking
  PROVE  h = k
  BY DEF Header

LEMMA LinesEqual ==
  ASSUME NEW d \in Line, NEW k \in Line, d.status = k.status, d.qty = k.qty
  PROVE  d = k
  BY DEF Line

\* What others have loaded of quiet rows stays current when the rows stay.
KeptFor(t) ==
  /\ \A o \in Quiet : o \in Touched(t) => order'[o] = order[o]
  /\ \A l \in Lines : l \in Touched(t) /\ OrderOf(l) \in Quiet => line'[l] = line[l]

LEMMA LinesThereKept ==
  ASSUME NEW o \in Orders, \A l \in LinesOf[o] : line'[l] = line[l]
  PROVE  LinesThere(o)' = LinesThere(o) /\ Found(o)' = Found(o)
<1>1. LinesThere(o)' = LinesThere(o)
  BY DEF LinesThere, There
<1> QED
  BY <1>1 DEF Found, LinesThere

LEMMA CurrentStays ==
  ASSUME NEW t \in Tx, Current(t), KeptFor(t)
  PROVE  Current(t)'
<1>1. CASE t.at \in {"select_order", "update_order"} /\ t.order \in Quiet
  <2>1. order'[t.order] = order[t.order]
    BY <1>1, TouchedIs DEF KeptFor
  <2> QED
    BY <1>1, <2>1 DEF Current, HeaderCurrent, OverHeader, Differing
<1>2. CASE t.at = "receive" /\ t.order \in Quiet
  <2>1. t \in Receiving /\ t.order \in Orders
    BY <1>2, TxKinds DEF Receiving
  <2>2. order'[t.order] = order[t.order] /\ \A l \in LinesOf[t.order] : line'[l] = line[l]
    BY <1>2, <2>1, TouchedIs, LinesBelong DEF KeptFor
  <2>3. Found(t.order)' = Found(t.order)
    BY <2>1, <2>2, LinesThereKept
  <2>4. ArrivalCurrent(t)
    BY <1>2 DEF Current
  <2>5. ASSUME NEW l \in Lines, t.found[l] # None, l \notin t.todo
        PROVE  t.writes[l] = LineDirty(Received(t.found[l]), l)'
    <3>1. l \in LinesOf[t.order]
      BY <2>4, <2>5 DEF ArrivalCurrent, Found, LinesThere
    <3>2. line'[l] = line[l]
      BY <2>2, <3>1
    <3> QED
      BY <2>4, <2>5, <3>2 DEF ArrivalCurrent, LineDirty, There, Differing
  <2>6. ArrivalCurrent(t)'
    BY <2>2, <2>3, <2>4, <2>5 DEF ArrivalCurrent, OverHeader, Differing, Received
  <2> QED
    BY <1>2, <2>6 DEF Current
<1>3. CASE t.at \in {"select_line", "update_line"} /\ OrderOf(t.line) \in Quiet
  <2>1. t.line \in Lines
    BY <1>3, TxKinds DEF SavingLine
  <2>2. line'[t.line] = line[t.line]
    BY <1>3, <2>1, TouchedIs DEF KeptFor
  <2> QED
    BY <1>3, <2>2 DEF Current, LineCurrent, There, OverLine, LineDirty, Differing
<1>4. CASE t.at = "remove_line" /\ OrderOf(t.line) \in Quiet
  <2>1. t.line \in Lines /\ OrderOf(t.line) \in Orders
    BY <1>4, TxKinds DEF RemovingLine, Quiet
  <2>2. \A l \in LinesOf[OrderOf(t.line)] : line'[l] = line[l]
    BY <1>4, <2>1, TouchedIs, LinesBelong DEF KeptFor
  <2>3. LinesThere(OrderOf(t.line))' = LinesThere(OrderOf(t.line))
    BY <2>1, <2>2, LinesThereKept
  <2> QED
    BY <1>4, <2>3 DEF Current, AnotherLine
<1> QED
  BY <1>1, <1>2, <1>3, <1>4 DEF Current

\* A request is answered, and has written nothing but what it touched.
LEMMA AnsweringQuiet ==
  ASSUME QuietInv, Inv', NEW r \in Requests, Answer(r),
         \A q \in Requests \ {r} : KeptFor(tx[q]),
         HistoryTellsRows', AlwaysALine'
  PROVE  QuietInv'
<1>1. /\ tx'[r] = [at |-> "answered"] /\ \A q \in Requests \ {r} : tx'[q] = tx[q]
  BY DEF QuietInv, Inv, Typed, TypeOK, Answer, Goto
<1>2. Touched(tx[r])' = {}
  BY <1>1 DEF Touched, Arrives
<1>3. \A q \in Requests \ {r} : Touched(tx[q])' = Touched(tx[q])
  BY <1>1 DEF Touched, Arrives, OrderOf
<1>4. Apart'
  BY <1>2, <1>3 DEF QuietInv, Apart, RowOrder, OrderOf
<1>5. ASSUME NEW q \in Requests PROVE Current(tx[q])'
  <2>1. CASE q = r
    BY <1>1, <2>1 DEF Current
  <2>2. CASE q # r
    <3>1. PICK t \in Tx : t = tx[q]
      BY DEF QuietInv, Inv, Typed, TypeOK
    <3>2. KeptFor(t) /\ Current(t)
      BY <2>2, <3>1 DEF QuietInv
    <3>3. Current(t)'
      BY <3>2, CurrentStays
    <3> QED
      BY <1>1, <2>2, <3>1, <3>3 DEF Current
  <2> QED
    BY <2>1, <2>2
<1> QED
  BY <1>4, <1>5 DEF QuietInv

\* A request goes on to t, which touches no row of a quiet order another request touches.
LEMMA ReadingQuiet ==
  ASSUME QuietInv, Inv', NEW r \in Requests, NEW t \in Tx, Goto(r, t),
         UNCHANGED <<order, line, told>>, Current(t),
         \A q \in Requests \ {r} : \A row \in Touched(tx[q]) \cap Touched(t) : RowOrder(row) \in Overlapping
  PROVE  QuietInv'
<1>1. tx'[r] = t /\ \A q \in Requests \ {r} : tx'[q] = tx[q]
  BY DEF QuietInv, Inv, Typed, TypeOK, Goto
<1>2. Touched(tx[r])' = Touched(t)
  BY <1>1 DEF Touched, Arrives
<1>3. \A q \in Requests \ {r} : Touched(tx[q])' = Touched(tx[q])
  BY <1>1 DEF Touched, Arrives, OrderOf
<1>4. Apart'
  BY <1>2, <1>3 DEF QuietInv, Apart, RowOrder, OrderOf
<1>5. \A u \in Tx : KeptFor(u)
  BY DEF KeptFor
<1>6. ASSUME NEW q \in Requests PROVE Current(tx[q])'
  <2>1. PICK u \in Tx : u = tx'[q] /\ Current(u)
    BY <1>1 DEF QuietInv, Inv, Typed, TypeOK
  <2>2. Current(u)'
    BY <1>5, <2>1, CurrentStays
  <2> QED
    BY <2>1, <2>2 DEF Current
<1>7. HistoryTellsRows' /\ AlwaysALine'
  BY DEF QuietInv, HistoryTellsRows, AlwaysALine, Placed, LinesThere, There
<1> QED
  BY <1>4, <1>6, <1>7 DEF QuietInv

\* A request that starts finds nobody at the rows of a quiet order.
LEMMA StartQuiet ==
  ASSUME QuietInv, Inv', NEW r \in Requests, NEW o \in Orders, NEW t \in Tx, Start(r, o, t), Current(t),
         Touched(t) \subseteq {o} \cup LinesOf[o]
  PROVE  QuietInv'
<1>1. Goto(r, t) /\ UNCHANGED <<order, line, told>>
  BY DEF Start
<1>2. \A row \in Touched(t) : RowOrder(row) = o
  BY LinesBelong DEF RowOrder
<1>3. o \in Overlapping \/ \A q \in Requests : Touched(tx[q]) \cap Touched(t) = {}
  BY DEF Start
<1>4. \A q \in Requests \ {r} : \A row \in Touched(tx[q]) \cap Touched(t) : RowOrder(row) \in Overlapping
  BY <1>2, <1>3
<1> QED
  BY <1>1, <1>4, ReadingQuiet

LEMMA SaveOrderQuiet ==
  ASSUME QuietInv, Inv', NEW r \in Requests, NEW o \in Orders, NEW entity \in Header,
         NEW set \in {{"status"}, {"locked"}, {"tracking"}}, SaveOrder(r, o, entity, set),
         order[o].status # "CANCELLED", entity = OverHeader(order[o], entity, set),
         "locked" \in set => entity.locked
  PROVE  QuietInv'
<1> DEFINE t == [at |-> "select_order", order |-> o, entity |-> entity, set |-> set, dirty |-> {}]
<1>1. t \in Tx
  BY DEF Tx, SavingOrder
<1>2. Start(r, o, t)
  BY DEF SaveOrder
<1>3. Current(t)
  BY DEF Current, HeaderCurrent
<1>4. t.at = "select_order" /\ t.order = o
  OBVIOUS
<1> HIDE DEF t
<1>5. Touched(t) \subseteq {o} \cup LinesOf[o]
  BY <1>1, <1>4, TouchedIs
<1> QED
  BY <1>1, <1>2, <1>3, <1>5, StartQuiet

LEMMA BeginHeaderQuiet ==
  ASSUME QuietInv, Inv', NEW r \in Requests, BeginTrack(r) \/ BeginLock(r) \/ BeginStatus(r)
  PROVE  QuietInv'
<1>0. Inv
  BY DEF QuietInv
<1>1. CASE BeginTrack(r)
  <2>1. PICK o \in Orders, tracking \in Trackings :
          Placed(o) /\ Editable(order[o]) /\ SaveOrder(r, o, [order[o] EXCEPT !.tracking = tracking], {"tracking"})
    BY <1>1 DEF BeginTrack
  <2> DEFINE entity == [order[o] EXCEPT !.tracking = tracking]
  <2>2. order[o] \in Header /\ entity \in Header
        /\ entity.locked = order[o].locked /\ entity.status = order[o].status
    BY <1>0, <2>1, PlacedIs DEF Header
  <2> HIDE DEF entity
  <2>3. SaveOrder(r, o, entity, {"tracking"})
    BY <2>1 DEF entity
  <2>4. order[o].status # "CANCELLED"
    BY <2>1, <2>2 DEF Editable
  <2>5. entity = OverHeader(order[o], entity, {"tracking"})
    BY <2>2, HeadersEqual DEF OverHeader, Header
  <2> QED
    BY <2>2, <2>3, <2>4, <2>5, SaveOrderQuiet
<1>2. CASE BeginLock(r)
  <2>1. PICK o \in Orders :
          /\ Placed(o) /\ order[o].status = "IN_TRANSIT"
          /\ SaveOrder(r, o, [order[o] EXCEPT !.locked = TRUE], {"locked"})
    BY <1>2 DEF BeginLock
  <2> DEFINE entity == [order[o] EXCEPT !.locked = TRUE]
  <2>2. order[o] \in Header /\ entity \in Header /\ entity.locked
        /\ entity.status = order[o].status /\ entity.tracking = order[o].tracking
    BY <1>0, <2>1, PlacedIs DEF Header
  <2> HIDE DEF entity
  <2>3. SaveOrder(r, o, entity, {"locked"})
    BY <2>1 DEF entity
  <2>4. entity = OverHeader(order[o], entity, {"locked"})
    BY <2>2, HeadersEqual DEF OverHeader, Header
  <2> QED
    BY <2>1, <2>2, <2>3, <2>4, SaveOrderQuiet
<1>3. CASE BeginStatus(r)
  <2>1. PICK o \in Orders : Placed(o) /\ \E status \in Allowed(order[o]) :
          SaveOrder(r, o, [order[o] EXCEPT !.status = status], {"status"})
    BY <1>3 DEF BeginStatus
  <2>2. PICK status \in Allowed(order[o]) :
          SaveOrder(r, o, [order[o] EXCEPT !.status = status], {"status"})
    BY <2>1
  <2>3. status \in OrderStatus /\ order[o].status # "CANCELLED"
    BY DEF Allowed, OrderStatus
  <2> DEFINE entity == [order[o] EXCEPT !.status = status]
  <2>4. order[o] \in Header /\ entity \in Header
        /\ entity.locked = order[o].locked /\ entity.tracking = order[o].tracking
    BY <1>0, <2>1, <2>3, PlacedIs DEF Header
  <2> HIDE DEF entity
  <2>5. SaveOrder(r, o, entity, {"status"})
    BY <2>2 DEF entity
  <2>6. entity = OverHeader(order[o], entity, {"status"})
    BY <2>4, HeadersEqual DEF OverHeader, Header
  <2> QED
    BY <2>3, <2>4, <2>5, <2>6, SaveOrderQuiet
<1> QED
  BY <1>1, <1>2, <1>3

LEMMA SaveLineQuiet ==
  ASSUME QuietInv, Inv', NEW r \in Requests, NEW o \in Orders, NEW l \in LinesThere(o),
         NEW entity \in Line, NEW set \in SUBSET {"status", "qty"}, SaveLine(r, o, l, entity, set),
         line[l].status # "CANCELLED", entity = OverLine(line[l], entity, set)
  PROVE  QuietInv'
<1> DEFINE t == [at |-> "select_line", line |-> l, entity |-> entity, set |-> set, dirty |-> {}]
<1>1. l \in Lines /\ l \in LinesOf[o] /\ There(l)
  BY ThereIs DEF QuietInv, LinesThere
<1>2. t \in Tx
  BY <1>1 DEF Tx, SavingLine
<1>3. Start(r, o, t)
  BY DEF SaveLine
<1>4. Current(t)
  BY <1>1 DEF Current, LineCurrent
<1>5. t.at = "select_line" /\ t.line = l
  OBVIOUS
<1> HIDE DEF t
<1>6. Touched(t) \subseteq {o} \cup LinesOf[o]
  BY <1>1, <1>2, <1>5, TouchedIs
<1> QED
  BY <1>2, <1>3, <1>4, <1>6, StartQuiet

\* One line less than two leaves another.
LEMMA KeepsAnother ==
  ASSUME NEW S, Cardinality(S) > 1, NEW l \in S
  PROVE  \E k \in S : k # l
<1>1. SUFFICES ASSUME \A k \in S : k = l PROVE FALSE
  OBVIOUS
<1>2. S = {l}
  BY <1>1
<1>3. Cardinality({l}) = 1
  BY FS_Singleton
<1> QED
  BY <1>2, <1>3

LEMMA BeginLineQuiet ==
  ASSUME QuietInv, Inv', NEW r \in Requests, BeginEdit(r) \/ BeginReceipt(r) \/ BeginAdd(r) \/ BeginRemove(r)
  PROVE  QuietInv'
<1>0. Inv
  BY DEF QuietInv
<1>1. CASE BeginEdit(r)
  <2>1. PICK o \in Orders, q \in Qtys : Placed(o) /\ \E l \in LinesThere(o) :
          line[l].status # "CANCELLED" /\ SaveLine(r, o, l, [line[l] EXCEPT !.qty = q], {"qty"})
    BY <1>1 DEF BeginEdit
  <2>2. PICK l \in LinesThere(o) :
          line[l].status # "CANCELLED" /\ SaveLine(r, o, l, [line[l] EXCEPT !.qty = q], {"qty"})
    BY <2>1
  <2> DEFINE entity == [line[l] EXCEPT !.qty = q]
  <2>3. line[l] \in Line /\ entity \in Line /\ entity.status = line[l].status
    BY <1>0, ThereIs DEF Line
  <2> HIDE DEF entity
  <2>4. SaveLine(r, o, l, entity, {"qty"})
    BY <2>2 DEF entity
  <2>5. entity = OverLine(line[l], entity, {"qty"})
    BY <2>3, LinesEqual DEF OverLine, Line
  <2> QED
    BY <2>2, <2>3, <2>4, <2>5, SaveLineQuiet
<1>2. CASE BeginReceipt(r)
  <2>1. PICK o \in Orders : Placed(o) /\ \E l \in LinesThere(o) :
          \E status \in Receipts(line[l].status) :
            SaveLine(r, o, l, [line[l] EXCEPT !.status = status], {"status"})
    BY <1>2 DEF BeginReceipt
  <2>2. PICK l \in LinesThere(o) : \E status \in Receipts(line[l].status) :
          SaveLine(r, o, l, [line[l] EXCEPT !.status = status], {"status"})
    BY <2>1
  <2>3. PICK status \in Receipts(line[l].status) :
          SaveLine(r, o, l, [line[l] EXCEPT !.status = status], {"status"})
    BY <2>2
  <2> DEFINE entity == [line[l] EXCEPT !.status = status]
  <2>4. status \in LineStatus /\ line[l].status # "CANCELLED"
    BY DEF Receipts, LineStatus
  <2>5. line[l] \in Line /\ entity \in Line /\ entity.qty = line[l].qty
    BY <1>0, <2>4, ThereIs DEF Line
  <2> HIDE DEF entity
  <2>6. SaveLine(r, o, l, entity, {"status"})
    BY <2>3 DEF entity
  <2>7. entity = OverLine(line[l], entity, {"status"})
    BY <2>5, LinesEqual DEF OverLine, Line
  <2> QED
    BY <2>4, <2>5, <2>6, <2>7, SaveLineQuiet
<1>3. CASE BeginAdd(r)
  <2>1. PICK o \in Orders : Start(r, o, [at |-> "add_line", order |-> o])
    BY <1>3 DEF BeginAdd
  <2> DEFINE t == [at |-> "add_line", order |-> o]
  <2>2. t \in Tx /\ t.at = "add_line" /\ t.order = o
    BY DEF Tx, AddingLine
  <2>3. Start(r, o, t) /\ Current(t)
    BY <2>1 DEF Current
  <2> HIDE DEF t
  <2>4. Touched(t) \subseteq {o} \cup LinesOf[o]
    BY <2>2, TouchedIs
  <2> QED
    BY <2>2, <2>3, <2>4, StartQuiet
<1>4. CASE BeginRemove(r)
  <2>1. PICK o \in Orders : KeepsOne(o) /\ \E l \in LinesThere(o) : Start(r, o, [at |-> "remove_line", line |-> l])
    BY <1>4 DEF BeginRemove
  <2>2. PICK l \in LinesThere(o) : Start(r, o, [at |-> "remove_line", line |-> l])
    BY <2>1
  <2> DEFINE t == [at |-> "remove_line", line |-> l]
  <2>3. l \in Lines /\ OrderOf(l) = o
    BY <1>0, ThereIs
  <2>4. AnotherLine(l)
    BY <2>1, <2>3, KeepsAnother DEF AnotherLine, KeepsOne
  <2>5. t \in Tx /\ t.at = "remove_line" /\ t.line = l
    BY <2>3 DEF Tx, RemovingLine
  <2>6. Start(r, o, t) /\ Current(t)
    BY <2>2, <2>4 DEF Current
  <2> HIDE DEF t
  <2>7. Touched(t) \subseteq {o} \cup LinesOf[o]
    BY <2>3, <2>5, TouchedIs
  <2> QED
    BY <2>5, <2>6, <2>7, StartQuiet
<1> QED
  BY <1>1, <1>2, <1>3, <1>4

\* A request goes on with rows it has been at.
LEMMA GoingOnQuiet ==
  ASSUME QuietInv, Inv', NEW r \in Requests, NEW t \in Tx, Goto(r, t),
         UNCHANGED <<order, line, told>>, Current(t), Touched(t) \subseteq Touched(tx[r])
  PROVE  QuietInv'
<1>1. \A q \in Requests \ {r} : \A row \in Touched(tx[q]) \cap Touched(t) : RowOrder(row) \in Overlapping
  BY DEF QuietInv, Apart
<1> QED
  BY <1>1, ReadingQuiet

LEMMA SelectQuiet ==
  ASSUME QuietInv, Inv', NEW r \in Requests, SelectOrder(r) \/ SelectLine(r)
  PROVE  QuietInv'
<1>1. tx[r] \in Tx /\ Current(tx[r])
  BY DEF QuietInv, Inv, Typed, TypeOK
<1>2. CASE SelectOrder(r)
  <2> DEFINE cols == Differing(tx[r].entity, order[tx[r].order])
             t == [tx[r] EXCEPT !.at = "update_order", !.dirty = cols]
  <2>1. tx[r].at = "select_order" /\ tx[r] \in SavingOrder
    BY <1>1, <1>2, TxKinds DEF SelectOrder
  <2>2. order[tx[r].order] \in Header
    BY <2>1, PlacedIs DEF Bound, SavingOrder, QuietInv, Inv, Typed
  <2>3. cols \in SUBSET {"status", "locked", "tracking"}
    BY <2>1, <2>2, DirtyIs DEF SavingOrder
  <2>4. Goto(r, t) /\ UNCHANGED <<order, line, told>>
    BY <1>2 DEF SelectOrder
  <2>5. PICK c \in SUBSET {"status", "locked", "tracking"} : c = cols
    BY <2>3
  <2> HIDE DEF cols
  <2>6. /\ t \in SavingOrder /\ t.at = "update_order"
        /\ t.order = tx[r].order /\ t.entity = tx[r].entity /\ t.set = tx[r].set
        /\ t.dirty = cols
    BY <2>1, <2>3 DEF SavingOrder
  <2> HIDE DEF t
  <2>7. t \in Tx /\ (Arrives(t) <=> Arrives(tx[r]))
    BY <2>1, <2>6 DEF Tx, Arrives
  <2>8. Touched(t) \subseteq Touched(tx[r])
    BY <1>1, <2>1, <2>6, <2>7, TouchedIs
  <2>9. Current(t)
    BY <1>1, <2>1, <2>6 DEF Current, HeaderCurrent, cols
  <2> QED
    BY <2>4, <2>7, <2>8, <2>9, GoingOnQuiet
<1>3. CASE SelectLine(r)
  <2> DEFINE cols == LineDirty(tx[r].entity, tx[r].line)
             t == [tx[r] EXCEPT !.at = "update_line", !.dirty = cols]
  <2>1. tx[r].at = "select_line" /\ tx[r] \in SavingLine
    BY <1>1, <1>3, TxKinds DEF SelectLine
  <2>2. cols \in SUBSET {"status", "qty", "insert"}
    BY <2>1, LineDirtyIs DEF SavingLine, QuietInv, Inv, Typed, TypeOK
  <2>3. Goto(r, t) /\ UNCHANGED <<order, line, told>>
    BY <1>3 DEF SelectLine
  <2> HIDE DEF cols
  <2>4. /\ t \in SavingLine /\ t.at = "update_line"
        /\ t.line = tx[r].line /\ t.entity = tx[r].entity /\ t.set = tx[r].set
        /\ t.dirty = cols
    BY <2>1, <2>2 DEF SavingLine
  <2> HIDE DEF t
  <2>5. t \in Tx /\ Touched(t) \subseteq Touched(tx[r])
    BY <1>1, <2>1, <2>4, TouchedIs DEF Tx
  <2>6. Current(t)
    BY <1>1, <2>1, <2>4 DEF Current, LineCurrent, cols
  <2> QED
    BY <2>3, <2>5, <2>6, GoingOnQuiet
<1> QED
  BY <1>2, <1>3

LEMMA UpdateArrivingQuiet ==
  ASSUME QuietInv, Inv', NEW r \in Requests, UpdateArriving(r)
  PROVE  QuietInv'
<1> DEFINE o == tx[r].order
           f == Found(o)
           t == [at |-> "receive", order |-> o, entity |-> tx[r].entity, dirty |-> tx[r].dirty,
                 found |-> f, current |-> None, todo |-> {l \in Lines : f[l] # None},
                 writes |-> [l \in Lines |-> {}]]
<1>1. tx[r] \in Tx /\ Current(tx[r])
  BY DEF QuietInv, Inv, Typed, TypeOK
<1>2. tx[r].at = "update_order" /\ tx[r] \in SavingOrder /\ o \in Orders /\ Arrives(tx[r])
  BY <1>1, TxKinds DEF UpdateArriving, SavingOrder
<1>3. Goto(r, t) /\ UNCHANGED <<order, line, told>>
  BY DEF UpdateArriving
<1>4. f \in [Lines -> Line \cup {None}] /\ f = Found(o)
  BY <1>2, FoundIs DEF QuietInv
<1> HIDE DEF f
<1>5. /\ t \in Tx /\ t.at = "receive" /\ t.order = o /\ t.entity = tx[r].entity /\ t.dirty = tx[r].dirty
      /\ t.found = f /\ t.todo = {l \in Lines : f[l] # None}
  BY <1>2, <1>4 DEF Tx, Receiving, SavingOrder
<1> HIDE DEF t
<1>6. Touched(t) \subseteq Touched(tx[r])
  BY <1>1, <1>2, <1>5, TouchedIs
<1>7. ASSUME o \in Quiet PROVE ArrivalCurrent(t)
  <2>1. HeaderCurrent(tx[r])
    BY <1>1, <1>2, <1>7 DEF Current
  <2>2. tx[r].set = {"status"}
    BY <1>2, <2>1 DEF HeaderCurrent, Arrives
  <2> QED
    BY <1>2, <1>4, <1>5, <2>1, <2>2 DEF HeaderCurrent, ArrivalCurrent
<1>8. Current(t)
  BY <1>5, <1>7 DEF Current
<1> QED
  BY <1>3, <1>5, <1>6, <1>8, GoingOnQuiet

LEMMA PendingQuiet ==
  ASSUME QuietInv, Inv', NEW r \in Requests, SelectPending(r) \/ UpdatePending(r)
  PROVE  QuietInv'
<1>0. tx[r].at = "receive"
  BY DEF SelectPending, UpdatePending
<1>1. tx[r] \in Tx /\ Current(tx[r]) /\ Bound(tx[r])
  BY DEF QuietInv, Inv, Typed, TypeOK
<1>2. tx[r].at = "receive" /\ tx[r] \in Receiving
  BY <1>0, <1>1, TxKinds
<1>3. CASE SelectPending(r)
  <2>1. PICK l \in tx[r].todo :
          LET dirty == LineDirty(Received(tx[r].found[l]), l)
          IN  Goto(r, [tx[r] EXCEPT !.current = l, !.todo = tx[r].todo \ {l},
                                    !.writes = [tx[r].writes EXCEPT ![l] = dirty]])
    BY ONLY <1>3 DEF SelectPending
  <2> DEFINE dirty == LineDirty(Received(tx[r].found[l]), l)
             writes == [tx[r].writes EXCEPT ![l] = dirty]
             t == [tx[r] EXCEPT !.current = l, !.todo = tx[r].todo \ {l}, !.writes = writes]
  <2>2. l \in Lines /\ tx[r].found[l] \in Line
    BY <1>1, <1>2 DEF Receiving, Bound
  <2>3. dirty \in SUBSET {"status", "qty", "insert"}
    BY <2>2, LineDirtyIs, ReceivedIs DEF QuietInv, Inv, Typed, TypeOK
  <2>4. Goto(r, t)
    BY <2>1
  <2> HIDE DEF dirty
  <2>5. /\ writes \in [Lines -> SUBSET {"status", "qty", "insert"}] /\ writes[l] = dirty
        /\ \A k \in Lines \ {l} : writes[k] = tx[r].writes[k]
    BY <1>2, <2>2, <2>3 DEF Receiving
  <2> HIDE DEF writes
  <2>6. /\ t \in Receiving /\ t.at = "receive" /\ t.order = tx[r].order /\ t.found = tx[r].found
        /\ t.entity = tx[r].entity /\ t.dirty = tx[r].dirty
        /\ t.writes = writes /\ t.todo = tx[r].todo \ {l}
    BY <1>2, <2>2, <2>5 DEF Receiving
  <2> HIDE DEF t
  <2>7. t \in Tx /\ Touched(t) \subseteq Touched(tx[r])
    BY <1>1, <1>2, <2>6, TouchedIs DEF Tx
  <2>8. ASSUME t.order \in Quiet PROVE ArrivalCurrent(t)
    <3>1. ArrivalCurrent(tx[r])
      BY <1>1, <1>2, <2>6, <2>8 DEF Current
    <3>2. ASSUME NEW k \in Lines, t.found[k] # None, k \notin t.todo
          PROVE  t.writes[k] = LineDirty(Received(t.found[k]), k)
      <4>1. CASE k = l
        BY <2>5, <2>6, <4>1 DEF dirty
      <4>2. CASE k # l
        BY <2>5, <2>6, <3>1, <3>2, <4>2 DEF ArrivalCurrent
      <4> QED
        BY <4>1, <4>2
    <3> QED
      BY <2>6, <3>1, <3>2 DEF ArrivalCurrent
  <2>9. Current(t)
    BY <2>6, <2>8 DEF Current
  <2>10. UNCHANGED <<order, line, told>>
    BY <1>3 DEF SelectPending
  <2> QED
    BY <2>4, <2>7, <2>9, <2>10, GoingOnQuiet
<1>4. CASE UpdatePending(r)
  <2> DEFINE t == [tx[r] EXCEPT !.current = None]
  <2>1. Goto(r, t) /\ UNCHANGED <<order, line, told>>
    BY <1>4 DEF UpdatePending
  <2>2. /\ t \in Receiving /\ t.at = "receive" /\ t.order = tx[r].order /\ t.found = tx[r].found
        /\ t.entity = tx[r].entity /\ t.dirty = tx[r].dirty
        /\ t.writes = tx[r].writes /\ t.todo = tx[r].todo
    BY <1>2 DEF Receiving
  <2> HIDE DEF t
  <2>3. t \in Tx /\ Touched(t) \subseteq Touched(tx[r])
    BY <1>1, <1>2, <2>2, TouchedIs DEF Tx
  <2>4. Current(t)
    BY <1>1, <1>2, <2>2 DEF Current, ArrivalCurrent
  <2> QED
    BY <2>1, <2>3, <2>4, GoingOnQuiet
<1> QED
  BY <1>3, <1>4

-----------------------------------------------------------------------------
(* The commits, while nobody else is at the rows *)

\* Requests work on rows of orders that are placed.
LEMMA TouchedPlaced ==
  ASSUME NEW t \in Tx, Bound(t)
  PROVE  \A row \in Touched(t) : /\ row \in Orders \cup Lines
                                 /\ RowOrder(row) \in Orders /\ Placed(RowOrder(row))
<1>1. CASE t.at \in {"select_order", "update_order", "receive"}
  <2>1. t.order \in Orders /\ Placed(t.order)
    BY <1>1, TxKinds DEF SavingOrder, Receiving, Bound
  <2>2. Touched(t) \subseteq {t.order} \cup LinesOf[t.order]
    BY <1>1, TouchedIs
  <2> QED
    BY <2>1, <2>2, LinesBelong DEF RowOrder
<1>2. CASE t.at \in {"select_line", "update_line"}
  <2>1. t.line \in Lines /\ Placed(OrderOf(t.line)) /\ Touched(t) = {t.line}
    BY <1>2, TxKinds, TouchedIs DEF SavingLine, Bound
  <2> QED
    BY <2>1, LinesBelong DEF RowOrder
<1>3. CASE t.at = "add_line"
  <2>1. t.order \in Orders /\ Placed(t.order) /\ Touched(t) = LinesOf[t.order]
    BY <1>3, TxKinds, TouchedIs DEF AddingLine, Bound
  <2> QED
    BY <2>1, LinesBelong DEF RowOrder
<1>4. CASE t.at = "remove_line"
  <2>1. t.line \in Lines /\ Placed(OrderOf(t.line)) /\ Touched(t) = LinesOf[OrderOf(t.line)]
    BY <1>4, TxKinds, TouchedIs DEF RemovingLine, Bound
  <2>2. OrderOf(t.line) \in Orders
    BY <2>1, LinesBelong
  <2> QED
    BY <2>1, <2>2, LinesBelong DEF RowOrder
<1>5. CASE t.at \in {"fresh", "answered"}
  BY <1>5, TouchedIs
<1> QED
  BY <1>1, <1>2, <1>3, <1>4, <1>5
     DEF Tx, Fresh, Answered, SavingOrder, Receiving, SavingLine, AddingLine, RemovingLine

\* A request that writes only rows it touched leaves the quiet rows of the others alone.
LEMMA OthersKept ==
  ASSUME QuietInv, NEW r \in Requests,
         \A o \in Orders : order'[o] = order[o] \/ o \in Touched(tx[r]),
         \A l \in Lines : line'[l] = line[l] \/ l \in Touched(tx[r])
  PROVE  \A q \in Requests \ {r} : KeptFor(tx[q])
<1> SUFFICES ASSUME NEW q \in Requests \ {r} PROVE KeptFor(tx[q])
  OBVIOUS
<1>1. \A row \in Touched(tx[r]) \cap Touched(tx[q]) : RowOrder(row) \in Overlapping
  BY DEF QuietInv, Apart
<1>2. \A o \in Quiet : o \in Touched(tx[q]) => order'[o] = order[o]
  BY <1>1 DEF Quiet, RowOrder
<1>3. \A l \in Lines : l \in Touched(tx[q]) /\ OrderOf(l) \in Quiet => line'[l] = line[l]
  BY <1>1, LinesBelong DEF Quiet, RowOrder
<1> QED
  BY <1>2, <1>3 DEF KeptFor

\* The UPDATE of the columns that differ makes the row the entity.
LEMMA HeaderWritten ==
  ASSUME NEW row \in Header, NEW entity \in Header
  PROVE  OverHeader(row, entity, Differing(entity, row)) = entity
<1>1. DOMAIN row = {"status", "locked", "tracking"}
  BY DEF Header
<1>2. /\ "status" \in Differing(entity, row) <=> entity.status # row.status
      /\ "locked" \in Differing(entity, row) <=> entity.locked # row.locked
      /\ "tracking" \in Differing(entity, row) <=> entity.tracking # row.tracking
  BY <1>1 DEF Differing
<1>3. OverHeader(row, entity, Differing(entity, row)) \in Header
  BY OverHeaderIs
<1>4. /\ OverHeader(row, entity, Differing(entity, row)).status = entity.status
      /\ OverHeader(row, entity, Differing(entity, row)).locked = entity.locked
      /\ OverHeader(row, entity, Differing(entity, row)).tracking = entity.tracking
  BY <1>2 DEF OverHeader
<1> QED
  BY <1>3, <1>4, HeadersEqual

LEMMA LineWritten ==
  ASSUME NEW l \in Lines, There(l), line[l] \in Line, NEW entity \in Line
  PROVE  Saved(line[l], entity, LineDirty(entity, l)) = entity
<1> DEFINE row == line[l]
           cols == Differing(entity, row)
<1>1. LineDirty(entity, l) = cols
  BY DEF LineDirty
<1>2. DOMAIN row = {"status", "qty"}
  BY DEF Line
<1>3. /\ "status" \in cols <=> entity.status # row.status
      /\ "qty" \in cols <=> entity.qty # row.qty
      /\ "insert" \notin cols
  BY <1>2 DEF Differing
<1>4. row \in Line /\ row # Gone
  BY DEF There
<1> HIDE DEF cols, row
<1>5. Saved(row, entity, cols) = OverLine(row, entity, cols) /\ OverLine(row, entity, cols) \in Line
  BY <1>3, <1>4, OverLineIs DEF Saved
<1>6. OverLine(row, entity, cols).status = entity.status /\ OverLine(row, entity, cols).qty = entity.qty
  BY <1>3 DEF OverLine
<1>7. OverLine(row, entity, cols) = entity
  BY <1>5, <1>6, LinesEqual
<1> QED
  BY <1>1, <1>5, <1>7 DEF row

LEMMA CommitOrderQuiet ==
  ASSUME QuietInv, Inv', NEW r \in Requests, CommitOrder(r)
  PROVE  QuietInv'
<1>0. PICK o, e : o = tx[r].order /\ e = tx[r].entity
  OBVIOUS
<1>1. /\ tx[r] \in SavingOrder /\ tx[r] \in Tx /\ tx[r].at = "update_order" /\ ~Arrives(tx[r])
      /\ Bound(tx[r]) /\ Current(tx[r])
  BY TxKinds DEF QuietInv, Inv, Typed, TypeOK, CommitOrder
<1>2. o \in Orders /\ Placed(o) /\ e \in Header
  BY <1>0, <1>1 DEF SavingOrder, Bound
<1>3. order[o] \in Header /\ told[o] \in Header
  BY <1>2, PlacedIs DEF QuietInv
<1>4. /\ Answer(r) /\ line' = line
      /\ order' = [order EXCEPT ![o] = OverHeader(order[o], e, tx[r].dirty)]
      /\ told' = [told EXCEPT ![o] = OverHeader(told[o], e, tx[r].set)]
  BY <1>0 DEF CommitOrder
<1>5. /\ \A p \in Orders \ {o} : order'[p] = order[p] /\ told'[p] = told[p]
      /\ \A l \in Lines : told'[l] = told[l]
      /\ order'[o] = OverHeader(order[o], e, tx[r].dirty)
      /\ told'[o] = OverHeader(told[o], e, tx[r].set)
  BY <1>2, <1>4, LinesBelong DEF QuietInv, Inv, Typed, TypeOK, ToldTyped
<1>6. Touched(tx[r]) = {o}
  BY <1>0, <1>1, TouchedIs
<1>7. \A q \in Requests \ {r} : KeptFor(tx[q])
  BY <1>4, <1>5, <1>6, OthersKept
<1>8. o \in Quiet => told'[o] = order'[o]
  <2> SUFFICES ASSUME o \in Quiet PROVE told'[o] = order'[o]
    OBVIOUS
  <2>1. e = OverHeader(order[o], e, tx[r].set) /\ tx[r].dirty = Differing(e, order[o])
    BY <1>0, <1>1 DEF Current, HeaderCurrent
  <2>2. told[o] = order[o]
    BY DEF QuietInv, HistoryTellsRows, Quiet
  <2> QED
    BY <1>2, <1>3, <1>5, <2>1, <2>2, HeaderWritten
<1>9. HistoryTellsRows'
  <2> SUFFICES ASSUME NEW p \in Orders \ Overlapping, NEW row \in {p} \cup LinesOf[p]
               PROVE  told'[row] = IF row = p THEN order'[p] ELSE line'[row]
    BY DEF HistoryTellsRows
  <2>1. told[row] = IF row = p THEN order[p] ELSE line[row]
    BY DEF QuietInv, HistoryTellsRows
  <2>2. CASE row = p
    BY <1>5, <1>8, <2>1, <2>2 DEF Quiet
  <2>3. CASE row # p
    BY <1>4, <1>5, <2>1, <2>3, LinesBelong
  <2> QED
    BY <2>2, <2>3
<1>10. AlwaysALine'
  BY <1>2, <1>4, <1>5 DEF QuietInv, AlwaysALine, Placed, LinesThere, There
<1> QED
  BY <1>4, <1>7, <1>9, <1>10, AnsweringQuiet

\* One line that the request touched gets d, and its history tells k of it.
LEMMA LineQuiet ==
  ASSUME QuietInv, Inv', NEW r \in Requests, Answer(r), NEW l \in Lines, l \in Touched(tx[r]),
         NEW d, NEW k, line' = [line EXCEPT ![l] = d], told' = [told EXCEPT ![l] = k], order' = order,
         OrderOf(l) \in Quiet => d = k /\ (d \notin {None, Gone} \/ AnotherLine(l))
  PROVE  QuietInv'
<1>1. /\ line'[l] = d /\ told'[l] = k
      /\ \A m \in Lines \ {l} : line'[m] = line[m] /\ told'[m] = told[m]
      /\ \A o \in Orders : told'[o] = told[o]
  BY LinesBelong DEF QuietInv, Inv, Typed, TypeOK, ToldTyped
<1>2. \A q \in Requests \ {r} : KeptFor(tx[q])
  BY <1>1, OthersKept
<1>3. HistoryTellsRows'
  <2> SUFFICES ASSUME NEW p \in Orders \ Overlapping, NEW row \in {p} \cup LinesOf[p]
               PROVE  told'[row] = IF row = p THEN order'[p] ELSE line'[row]
    BY DEF HistoryTellsRows
  <2>1. told[row] = IF row = p THEN order[p] ELSE line[row]
    BY DEF QuietInv, HistoryTellsRows
  <2>2. CASE row = p
    BY <1>1, <2>1, <2>2
  <2>3. CASE row = l
    BY <1>1, <2>3, LinesBelong DEF Quiet
  <2>4. CASE row # p /\ row # l
    BY <1>1, <2>1, <2>4, LinesBelong
  <2> QED
    BY <2>2, <2>3, <2>4
<1>4. AlwaysALine'
  <2> SUFFICES ASSUME NEW p \in Orders \ Overlapping, Placed(p)'
               PROVE  \E m \in LinesOf[p] : There(m)'
    BY DEF AlwaysALine, LinesThere
  <2>1. PICK m \in LinesOf[p] : There(m)
    BY DEF QuietInv, AlwaysALine, LinesThere, Placed
  <2>2. CASE OrderOf(l) = p /\ d \notin {None, Gone}
    BY <1>1, <2>2, LinesBelong DEF There
  <2>3. CASE OrderOf(l) = p /\ AnotherLine(l)
    <3>1. PICK n \in LinesOf[p] : There(n) /\ n # l
      BY <2>3 DEF AnotherLine, LinesThere
    <3> QED
      BY <1>1, <3>1, LinesBelong DEF There
  <2>4. CASE OrderOf(l) # p
    BY <1>1, <2>1, <2>4, LinesBelong DEF There
  <2> QED
    BY <2>2, <2>3, <2>4 DEF Quiet
<1> QED
  BY <1>2, <1>3, <1>4, AnsweringQuiet

LEMMA CommitLinesQuiet ==
  ASSUME QuietInv, Inv', NEW r \in Requests, CommitAdd(r) \/ CommitLine(r) \/ CommitRemove(r)
  PROVE  QuietInv'
<1>0. tx[r] \in Tx /\ Bound(tx[r]) /\ Current(tx[r])
  BY DEF QuietInv, Inv, Typed, TypeOK
<1>1. CASE CommitAdd(r)
  <2>1. PICK l \in LinesOf[tx[r].order], q \in Qtys :
          line' = [line EXCEPT ![l] = NewLine(q)] /\ told' = [told EXCEPT ![l] = NewLine(q)]
    BY <1>1 DEF CommitAdd
  <2>2. tx[r].order \in Orders /\ tx[r].at = "add_line"
    BY <1>0, <1>1, TxKinds DEF CommitAdd, AddingLine
  <2>3. l \in Lines /\ l \in Touched(tx[r])
    BY <1>0, <2>2, LinesBelong, TouchedIs
  <2> DEFINE d == NewLine(q)
  <2>4. d \notin {None, Gone}
    BY Marks DEF NewLine, Line, LineStatus
  <2>5. Answer(r) /\ order' = order /\ line' = [line EXCEPT ![l] = d] /\ told' = [told EXCEPT ![l] = d]
    BY <1>1, <2>1 DEF CommitAdd
  <2> HIDE DEF d
  <2> QED
    BY <2>3, <2>4, <2>5, LineQuiet
<1>2. CASE CommitLine(r)
  <2>0. PICK l \in Lines, e \in Line : l = tx[r].line /\ e = tx[r].entity
    BY <1>0, <1>2, TxKinds DEF CommitLine, SavingLine
  <2> DEFINE d == Saved(line[l], e, tx[r].dirty)
             k == Retold(told[l], e, tx[r].set)
  <2>1. tx[r].at = "update_line" /\ l \in Touched(tx[r])
    BY <1>0, <1>2, <2>0, TouchedIs DEF CommitLine
  <2>2. Answer(r) /\ order' = order /\ line' = [line EXCEPT ![l] = d] /\ told' = [told EXCEPT ![l] = k]
    BY <1>2, <2>0 DEF CommitLine
  <2>3. ASSUME OrderOf(l) \in Quiet PROVE d = e /\ k = e
    <3>1. /\ There(l) /\ e = OverLine(line[l], e, tx[r].set) /\ tx[r].dirty = LineDirty(e, l)
      BY <1>0, <2>0, <2>1, <2>3 DEF Current, LineCurrent
    <3>2. line[l] \in Line
      BY <3>1 DEF There, QuietInv, Inv, Typed, TypeOK
    <3>3. d = e
      BY <3>1, <3>2, LineWritten
    <3>4. told[l] = line[l]
      BY <2>3, LinesBelong DEF QuietInv, HistoryTellsRows, Quiet
    <3>5. k = OverLine(line[l], e, tx[r].set)
      BY <3>1, <3>4 DEF Retold, There
    <3> QED
      BY <3>1, <3>3, <3>5
  <2>4. e \notin {None, Gone}
    BY Marks
  <2> HIDE DEF d, k
  <2> QED
    BY <2>1, <2>2, <2>3, <2>4, LineQuiet
<1>3. CASE CommitRemove(r)
  <2>1. PICK l \in Lines : l = tx[r].line
    BY <1>0, <1>3, TxKinds DEF CommitRemove, RemovingLine
  <2>2. tx[r].at = "remove_line" /\ l \in Touched(tx[r])
    BY <1>0, <1>3, <2>1, TouchedIs, LinesBelong DEF CommitRemove
  <2>3. Answer(r) /\ order' = order /\ line' = [line EXCEPT ![l] = Gone] /\ told' = [told EXCEPT ![l] = Gone]
    BY <1>3, <2>1 DEF CommitRemove
  <2>4. OrderOf(l) \in Quiet => AnotherLine(l)
    BY <1>0, <2>1, <2>2 DEF Current
  <2> QED
    BY <2>2, <2>3, <2>4, LineQuiet
<1> QED
  BY <1>1, <1>2, <1>3

\* The lines an arrival found, while nobody else is at them: each is RECEIVED now, and told so.
LEMMA ArrivalSettles ==
  ASSUME Inv, HistoryTellsRows, NEW t \in Receiving, t.order \in Quiet, ArrivalCurrent(t), t.todo = {},
         NEW l \in LinesOf[t.order]
  PROVE  /\ t.found[l] # None <=> There(l) /\ line[l].status = "PENDING"
         /\ t.found[l] # None =>
              /\ Saved(line[l], Received(t.found[l]), t.writes[l]) = Received(line[l])
              /\ Retold(told[l], Received(t.found[l]), {"status"}) = Received(line[l])
<1>1. l \in Lines /\ t.order \in Orders
  BY LinesBelong DEF Quiet
<1>2. t.found = Found(t.order)
  BY DEF ArrivalCurrent
<1>3. There(l) => line[l] \in Line /\ line[l] # None /\ line[l] # Gone
  BY <1>1 DEF There, Inv, Typed, TypeOK
<1>4. t.found[l] = IF There(l) /\ line[l].status = "PENDING" THEN line[l] ELSE None
  BY <1>1, <1>2 DEF Found, LinesThere
<1>5. t.found[l] # None <=> There(l) /\ line[l].status = "PENDING"
  BY <1>3, <1>4
<1>6. ASSUME t.found[l] # None
      PROVE  /\ Saved(line[l], Received(t.found[l]), t.writes[l]) = Received(line[l])
             /\ Retold(told[l], Received(t.found[l]), {"status"}) = Received(line[l])
  <2>1. There(l) /\ line[l] \in Line /\ t.found[l] = line[l] /\ Received(line[l]) \in Line
    BY <1>3, <1>4, <1>5, <1>6, ReceivedIs
  <2>2. t.writes[l] = LineDirty(Received(line[l]), l)
    BY <1>1, <1>6, <2>1 DEF ArrivalCurrent
  <2>3. told[l] = line[l]
    BY LinesBelong DEF HistoryTellsRows, Quiet
  <2>4. Retold(told[l], Received(line[l]), {"status"}) = OverLine(line[l], Received(line[l]), {"status"})
    BY <2>1, <2>3 DEF Retold, There
  <2>5. OverLine(line[l], Received(line[l]), {"status"}) = Received(line[l])
    BY <2>1, LinesEqual DEF OverLine, Received, Line
  <2> QED
    BY <1>1, <2>1, <2>2, <2>4, <2>5, LineWritten
<1> QED
  BY <1>5, <1>6

\* What the commit of an arrival writes.
LEMMA ArrivalWrites ==
  ASSUME Inv, NEW r \in Requests, CommitArrival(r), NEW t \in Tx, t = tx[r]
  PROVE  /\ t \in Receiving /\ t.at = "receive" /\ t.todo = {} /\ Answer(r)
         /\ t.order \in Orders /\ Placed(t.order) /\ t.entity \in Header
         /\ order[t.order] \in Header /\ told[t.order] \in Header
         /\ Touched(t) = {t.order} \cup LinesOf[t.order]
         /\ order'[t.order] = OverHeader(order[t.order], t.entity, t.dirty)
         /\ told'[t.order] = OverHeader(told[t.order], t.entity, {"status"})
         /\ \A p \in Orders \ {t.order} : order'[p] = order[p] /\ told'[p] = told[p]
         /\ \A l \in Lines :
              IF t.found[l] = None
              THEN line'[l] = line[l] /\ told'[l] = told[l]
              ELSE /\ l \in LinesOf[t.order]
                   /\ line'[l] = Saved(line[l], Received(t.found[l]), t.writes[l])
                   /\ told'[l] = Retold(told[l], Received(t.found[l]), {"status"})
<1>1. t.at = "receive" /\ t \in Receiving /\ t.todo = {} /\ Answer(r) /\ Bound(t)
  BY TxKinds DEF CommitArrival, Inv, Typed
<1>2. t.order \in Orders /\ Placed(t.order) /\ t.entity \in Header
  BY <1>1 DEF Receiving, Bound
<1>3. order[t.order] \in Header /\ told[t.order] \in Header
  BY <1>2, PlacedIs
<1>4. Touched(t) = {t.order} \cup LinesOf[t.order]
  BY <1>1, TouchedIs
<1>5. /\ order' = [order EXCEPT ![t.order] = OverHeader(order[t.order], t.entity, t.dirty)]
      /\ line' = [l \in Lines |-> IF t.found[l] = None THEN line[l]
                                  ELSE Saved(line[l], Received(t.found[l]), t.writes[l])]
      /\ told' = ToldOfArrival(t)
  BY DEF CommitArrival
<1>6. /\ order'[t.order] = OverHeader(order[t.order], t.entity, t.dirty)
      /\ \A p \in Orders \ {t.order} : order'[p] = order[p]
  BY <1>2, <1>5 DEF Inv, Typed, TypeOK
<1>7. /\ told'[t.order] = OverHeader(told[t.order], t.entity, {"status"})
      /\ \A p \in Orders \ {t.order} : told'[p] = told[p]
  BY <1>2, <1>5, LinesBelong DEF ToldOfArrival
<1>8. \A l \in Lines :
        IF t.found[l] = None
        THEN line'[l] = line[l] /\ told'[l] = told[l]
        ELSE /\ l \in LinesOf[t.order]
             /\ line'[l] = Saved(line[l], Received(t.found[l]), t.writes[l])
             /\ told'[l] = Retold(told[l], Received(t.found[l]), {"status"})
  <2> SUFFICES ASSUME NEW l \in Lines
               PROVE  IF t.found[l] = None
                      THEN line'[l] = line[l] /\ told'[l] = told[l]
                      ELSE /\ l \in LinesOf[t.order]
                           /\ line'[l] = Saved(line[l], Received(t.found[l]), t.writes[l])
                           /\ told'[l] = Retold(told[l], Received(t.found[l]), {"status"})
    OBVIOUS
  <2>1. l # t.order /\ l \in Orders \cup Lines
    BY <1>2, LinesBelong
  <2>2. t.found[l] # None => l \in LinesOf[t.order]
    BY <1>1 DEF Bound
  <2> QED
    BY <1>5, <2>1, <2>2 DEF ToldOfArrival
<1> QED
  BY <1>1, <1>2, <1>3, <1>4, <1>6, <1>7, <1>8

LEMMA CommitArrivalQuiet ==
  ASSUME QuietInv, Inv', NEW r \in Requests, CommitArrival(r)
  PROVE  QuietInv'
<1>0. PICK t \in Tx : t = tx[r]
  BY DEF QuietInv, Inv, Typed, TypeOK
<1>1. /\ t \in Receiving /\ t.at = "receive" /\ t.todo = {} /\ Answer(r)
      /\ t.order \in Orders /\ Placed(t.order) /\ t.entity \in Header
      /\ order[t.order] \in Header /\ told[t.order] \in Header
      /\ Touched(t) = {t.order} \cup LinesOf[t.order]
      /\ order'[t.order] = OverHeader(order[t.order], t.entity, t.dirty)
      /\ told'[t.order] = OverHeader(told[t.order], t.entity, {"status"})
      /\ \A p \in Orders \ {t.order} : order'[p] = order[p] /\ told'[p] = told[p]
      /\ \A l \in Lines :
           IF t.found[l] = None
           THEN line'[l] = line[l] /\ told'[l] = told[l]
           ELSE /\ l \in LinesOf[t.order]
                /\ line'[l] = Saved(line[l], Received(t.found[l]), t.writes[l])
                /\ told'[l] = Retold(told[l], Received(t.found[l]), {"status"})
  BY <1>0, ArrivalWrites DEF QuietInv
<1>2. \A q \in Requests \ {r} : KeptFor(tx[q])
  <2>1. \A p \in Orders : order'[p] = order[p] \/ p \in Touched(tx[r])
    BY <1>0, <1>1
  <2>2. \A l \in Lines : line'[l] = line[l] \/ l \in Touched(tx[r])
    BY <1>0, <1>1
  <2> QED
    BY <2>1, <2>2, OthersKept
<1>3. t.order \in Quiet => ArrivalCurrent(t)
  BY <1>0, <1>1 DEF QuietInv, Current
<1>4. t.order \in Quiet => told'[t.order] = order'[t.order]
  <2> SUFFICES ASSUME t.order \in Quiet PROVE told'[t.order] = order'[t.order]
    OBVIOUS
  <2>1. told[t.order] = order[t.order]
    BY DEF QuietInv, HistoryTellsRows, Quiet
  <2>2. /\ t.entity = OverHeader(order[t.order], t.entity, {"status"})
        /\ t.dirty = Differing(t.entity, order[t.order])
    BY <1>3 DEF ArrivalCurrent
  <2> QED
    BY <1>1, <2>1, <2>2, HeaderWritten
<1>5. ASSUME NEW l \in LinesOf[t.order], t.order \in Quiet
      PROVE  /\ told'[l] = line'[l]
             /\ There(l) => There(l)'
  <2>1. l \in Lines /\ told[l] = line[l]
    BY <1>1, <1>5, LinesBelong DEF QuietInv, HistoryTellsRows, Quiet
  <2>2. CASE t.found[l] = None
    BY <1>1, <2>1, <2>2 DEF There
  <2>3. CASE t.found[l] # None
    <3>1. line'[l] = Received(line[l]) /\ told'[l] = Received(line[l]) /\ There(l)
      BY <1>1, <1>3, <1>5, <2>1, <2>3, ArrivalSettles DEF QuietInv
    <3>2. Received(line[l]) \in Line
      BY <2>1, <3>1, ReceivedIs DEF There, QuietInv, Inv, Typed, TypeOK
    <3> QED
      BY <3>1, <3>2, Marks DEF There
  <2> QED
    BY <2>2, <2>3
<1>6. HistoryTellsRows'
  <2> SUFFICES ASSUME NEW p \in Orders \ Overlapping, NEW row \in {p} \cup LinesOf[p]
               PROVE  told'[row] = IF row = p THEN order'[p] ELSE line'[row]
    BY DEF HistoryTellsRows
  <2>1. told[row] = IF row = p THEN order[p] ELSE line[row]
    BY DEF QuietInv, HistoryTellsRows
  <2>2. CASE p = t.order
    BY <1>1, <1>4, <1>5, <2>2, LinesBelong DEF Quiet
  <2>3. CASE p # t.order /\ row = p
    BY <1>1, <2>1, <2>3
  <2>4. CASE p # t.order /\ row # p
    <3>1. row \in Lines /\ row \notin LinesOf[t.order]
      BY <1>1, <2>4, LinesBelong
    <3> QED
      BY <1>1, <2>1, <2>4, <3>1
  <2> QED
    BY <2>2, <2>3, <2>4
<1>7. AlwaysALine'
  <2> SUFFICES ASSUME NEW p \in Orders \ Overlapping, Placed(p)'
               PROVE  \E m \in LinesOf[p] : There(m)'
    BY DEF AlwaysALine, LinesThere
  <2>1. Placed(p)
    BY <1>1 DEF Placed
  <2>2. PICK m \in LinesOf[p] : There(m)
    BY <2>1 DEF QuietInv, AlwaysALine, LinesThere
  <2>3. CASE p = t.order
    BY <1>5, <2>2, <2>3 DEF Quiet
  <2>4. CASE p # t.order
    <3>1. m \in Lines /\ m \notin LinesOf[t.order]
      BY <1>1, <2>4, LinesBelong
    <3> QED
      BY <1>1, <2>2, <3>1 DEF There
  <2> QED
    BY <2>3, <2>4
<1> QED
  BY <1>1, <1>2, <1>6, <1>7, AnsweringQuiet

LEMMA FailQuiet ==
  ASSUME QuietInv, Inv', NEW r \in Requests, Fail(r)
  PROVE  QuietInv'
<1>1. Answer(r) /\ UNCHANGED <<order, line, told>>
  BY DEF Fail
<1>2. \A q \in Requests \ {r} : KeptFor(tx[q])
  BY <1>1 DEF KeptFor
<1>3. HistoryTellsRows' /\ AlwaysALine'
  BY <1>1 DEF QuietInv, HistoryTellsRows, AlwaysALine, Placed, LinesThere, There
<1> QED
  BY <1>1, <1>2, <1>3, AnsweringQuiet

LEMMA PlaceQuiet ==
  ASSUME QuietInv, Inv', NEW r \in Requests, Place(r)
  PROVE  QuietInv'
<1>1. PICK o \in Orders, tracking \in Trackings :
        /\ ~Placed(o)
        /\ \E ls \in Placements(o) :
             LET placed == [row \in {o} \cup LinesOf[o] |-> IF row = o THEN PlacedHeader(tracking) ELSE ls[row]]
             IN  /\ order' = [order EXCEPT ![o] = placed[o]]
                 /\ line' = [l \in Lines |-> IF l \in LinesOf[o] THEN placed[l] ELSE line[l]]
                 /\ told' = [row \in Orders \cup Lines |-> IF row \in DOMAIN placed THEN placed[row] ELSE told[row]]
  BY DEF Place
<1>2. PICK ls \in Placements(o) :
        LET placed == [row \in {o} \cup LinesOf[o] |-> IF row = o THEN PlacedHeader(tracking) ELSE ls[row]]
        IN  /\ order' = [order EXCEPT ![o] = placed[o]]
            /\ line' = [l \in Lines |-> IF l \in LinesOf[o] THEN placed[l] ELSE line[l]]
            /\ told' = [row \in Orders \cup Lines |-> IF row \in DOMAIN placed THEN placed[row] ELSE told[row]]
  BY <1>1
<1>3. PICK k \in LinesOf[o] : ls[k] # None /\ ls[k] # Gone
  BY Marks DEF Placements, NewLine, Line, LineStatus
<1>4. \A l \in LinesOf[o] : l \in Lines /\ l # o /\ l \notin Orders
  BY LinesBelong
<1> DEFINE h == PlacedHeader(tracking)
<1>5. /\ order' = [order EXCEPT ![o] = h]
      /\ line' = [l \in Lines |-> IF l \in LinesOf[o] THEN ls[l] ELSE line[l]]
      /\ told' = [row \in Orders \cup Lines |->
                    IF row = o THEN h ELSE IF row \in LinesOf[o] THEN ls[row] ELSE told[row]]
  BY <1>2, <1>4
<1> HIDE DEF h
<1>6. /\ order'[o] = h /\ told'[o] = h
      /\ \A p \in Orders \ {o} : order'[p] = order[p] /\ told'[p] = told[p]
      /\ \A l \in LinesOf[o] : line'[l] = ls[l] /\ told'[l] = ls[l]
      /\ \A l \in Lines \ LinesOf[o] : line'[l] = line[l] /\ told'[l] = told[l]
  BY <1>4, <1>5, LinesBelong DEF QuietInv, Inv, Typed, TypeOK
<1>7. ASSUME NEW q \in Requests PROVE KeptFor(tx[q])
  <2>1. \A row \in Touched(tx[q]) : RowOrder(row) # o
    BY <1>1, TouchedPlaced DEF QuietInv, Inv, Typed, TypeOK
  <2>2. \A p \in Quiet : p \in Touched(tx[q]) => order'[p] = order[p]
    BY <1>6, <2>1 DEF Quiet, RowOrder
  <2>3. \A l \in Lines : l \in Touched(tx[q]) => line'[l] = line[l]
    BY <1>6, <2>1, LinesBelong DEF RowOrder
  <2> QED
    BY <2>2, <2>3 DEF KeptFor
<1>8. HistoryTellsRows'
  <2> SUFFICES ASSUME NEW p \in Orders \ Overlapping, NEW row \in {p} \cup LinesOf[p]
               PROVE  told'[row] = IF row = p THEN order'[p] ELSE line'[row]
    BY DEF HistoryTellsRows
  <2>1. told[row] = IF row = p THEN order[p] ELSE line[row]
    BY DEF QuietInv, HistoryTellsRows
  <2>2. CASE p = o
    BY <1>4, <1>6, <2>2
  <2>3. CASE p # o /\ row = p
    BY <1>6, <2>1, <2>3
  <2>4. CASE p # o /\ row # p
    <3>1. row \in Lines /\ row \notin LinesOf[o]
      BY <2>4, LinesBelong
    <3> QED
      BY <1>6, <2>1, <2>4, <3>1
  <2> QED
    BY <2>2, <2>3, <2>4
<1>9. AlwaysALine'
  <2> SUFFICES ASSUME NEW p \in Orders \ Overlapping, Placed(p)'
               PROVE  \E m \in LinesOf[p] : There(m)'
    BY DEF AlwaysALine, LinesThere
  <2>1. CASE p = o
    BY <1>3, <1>6, <2>1 DEF There
  <2>2. CASE p # o
    <3>1. PICK m \in LinesOf[p] : There(m)
      BY <1>6, <2>2 DEF QuietInv, AlwaysALine, LinesThere, Placed
    <3>2. m \in Lines /\ m \notin LinesOf[o]
      BY <2>2, LinesBelong
    <3> QED
      BY <1>6, <3>1, <3>2 DEF There
  <2> QED
    BY <2>1, <2>2
<1>10. Answer(r)
  BY DEF Place
<1> QED
  BY <1>7, <1>8, <1>9, <1>10, AnsweringQuiet

LEMMA QuietInit == Init => QuietInv
<1> SUFFICES ASSUME Init PROVE QuietInv
  OBVIOUS
<1>1. \A r \in Requests : tx[r] = [at |-> "fresh"]
  BY DEF Init
<1>2. \A r \in Requests : Touched(tx[r]) = {}
  BY <1>1, AnsweredIsTx, TouchedIs
<1>3. Apart
  BY <1>2 DEF Apart
<1>4. \A r \in Requests : Current(tx[r])
  BY <1>1 DEF Current
<1>5. HistoryTellsRows
  BY LinesBelong DEF Init, HistoryTellsRows
<1>6. AlwaysALine
  <2> SUFFICES ASSUME NEW o \in Orders, Placed(o) PROVE \E l \in LinesOf[o] : There(l)
    BY DEF AlwaysALine, LinesThere
  <2>1. PICK l \in LinesOf[o] : line[l] # None
    BY DEF Init
  <2>2. line[l] \in {NewLine(q) : q \in Qtys}
    BY <2>1, LinesBelong DEF Init
  <2> QED
    BY <2>1, <2>2, Marks DEF There, NewLine, Line, LineStatus
<1> QED
  BY <1>3, <1>4, <1>5, <1>6, InvInit DEF QuietInv

LEMMA QuietNext == QuietInv /\ [Next]_vars => QuietInv'
<1> SUFFICES ASSUME QuietInv, [Next]_vars PROVE QuietInv'
  OBVIOUS
<1>0. Inv'
  BY InvNext DEF QuietInv
<1>1. CASE UNCHANGED vars
  <2>0. HistoryTellsRows' /\ AlwaysALine'
    BY <1>1 DEF vars, QuietInv, HistoryTellsRows, AlwaysALine, Placed, LinesThere, There
  <2>1. Apart'
    BY <1>1 DEF vars, QuietInv, Apart, RowOrder
  <2>2. ASSUME NEW r \in Requests PROVE Current(tx[r])'
    <3>1. PICK t \in Tx : t = tx[r]
      BY DEF QuietInv, Inv, Typed, TypeOK
    <3>2. Current(t) /\ KeptFor(t)
      BY <1>1, <3>1 DEF vars, QuietInv, KeptFor
    <3>3. Current(t)'
      BY <3>2, CurrentStays
    <3> QED
      BY <1>1, <3>1, <3>3 DEF vars, Current
  <2> QED
    BY <1>0, <2>0, <2>1, <2>2 DEF QuietInv
<1>2. ASSUME NEW r \in Requests, Begin(r) PROVE QuietInv'
  BY <1>0, <1>2, PlaceQuiet, BeginHeaderQuiet, BeginLineQuiet DEF Begin
<1>3. ASSUME NEW r \in Requests, Continue(r) PROVE QuietInv'
  BY <1>0, <1>3, SelectQuiet, CommitOrderQuiet, UpdateArrivingQuiet, PendingQuiet, CommitArrivalQuiet,
     CommitLinesQuiet
     DEF Continue
<1>4. ASSUME NEW r \in Requests, Fail(r) PROVE QuietInv'
  BY <1>0, <1>4, FailQuiet
<1> QED
  BY <1>1, <1>2, <1>3, <1>4 DEF Next

-----------------------------------------------------------------------------
(* What becomes of the rows of a quiet order *)

\* The actions that write a header, and those that write a line.
LEMMA HeaderWriters ==
  ASSUME [Next]_vars, order' # order
  PROVE  \E r \in Requests : Place(r) \/ CommitOrder(r) \/ CommitArrival(r)
<1>1. PICK r \in Requests : Begin(r) \/ Continue(r) \/ Fail(r)
  BY DEF Next, vars
<1>2. Begin(r) => Place(r)
  BY DEF Begin, BeginTrack, BeginLock, BeginStatus, BeginAdd, BeginEdit, BeginReceipt, BeginRemove,
         SaveOrder, SaveLine, Start
<1>3. Continue(r) => CommitOrder(r) \/ CommitArrival(r)
  BY DEF Continue, SelectOrder, UpdateArriving, SelectPending, UpdatePending, CommitAdd, SelectLine,
         CommitLine, CommitRemove
<1>4. ~Fail(r)
  BY DEF Fail
<1> QED
  BY <1>1, <1>2, <1>3, <1>4

LEMMA LineWriters ==
  ASSUME [Next]_vars, line' # line
  PROVE  \E r \in Requests :
           Place(r) \/ CommitArrival(r) \/ CommitAdd(r) \/ CommitLine(r) \/ CommitRemove(r)
<1>1. PICK r \in Requests : Begin(r) \/ Continue(r) \/ Fail(r)
  BY DEF Next, vars
<1>2. Begin(r) => Place(r)
  BY DEF Begin, BeginTrack, BeginLock, BeginStatus, BeginAdd, BeginEdit, BeginReceipt, BeginRemove,
         SaveOrder, SaveLine, Start
<1>3. Continue(r) => CommitArrival(r) \/ CommitAdd(r) \/ CommitLine(r) \/ CommitRemove(r)
  BY DEF Continue, SelectOrder, CommitOrder, UpdateArriving, SelectPending, UpdatePending, SelectLine
<1>4. ~Fail(r)
  BY DEF Fail
<1> QED
  BY <1>1, <1>2, <1>3, <1>4

\* An order that is placed is not placed again: its rows stay.
LEMMA PlacedOnce ==
  ASSUME QuietInv, NEW r \in Requests, Place(r), NEW p \in Orders, Placed(p)
  PROVE  order'[p] = order[p] /\ \A l \in LinesOf[p] : line'[l] = line[l]
<1>1. PICK o \in Orders : ~Placed(o) /\ order' = [order EXCEPT ![o] = order'[o]]
        /\ \A l \in Lines : l \notin LinesOf[o] => line'[l] = line[l]
  <2>1. PICK o \in Orders, tracking \in Trackings :
          /\ ~Placed(o)
          /\ \E ls \in Placements(o) :
               LET placed == [row \in {o} \cup LinesOf[o] |-> IF row = o THEN PlacedHeader(tracking) ELSE ls[row]]
               IN  /\ order' = [order EXCEPT ![o] = placed[o]]
                   /\ line' = [l \in Lines |-> IF l \in LinesOf[o] THEN placed[l] ELSE line[l]]
                   /\ told' = [row \in Orders \cup Lines |-> IF row \in DOMAIN placed THEN placed[row] ELSE told[row]]
    BY DEF Place
  <2> QED
    BY <2>1 DEF QuietInv, Inv, Typed, TypeOK
<1> QED
  BY <1>1, LinesBelong DEF QuietInv, Inv, Typed, TypeOK

Settled(o) == \A l \in LinesOf[o] : line[l] \in {None, Gone} \/ line[l].status # "PENDING"

LEMMA HeadersAdvance ==
  ASSUME QuietInv, [Next]_vars, NEW o \in Quiet, Placed(o)
  PROVE  \/ order'[o] = order[o]
         \/ /\ order[o].status # "CANCELLED"
            /\ order[o].locked => order'[o].locked
            /\ order'[o].status = "IN_WAREHOUSE" => order[o].status = "IN_WAREHOUSE" \/ Settled(o)'
<1> SUFFICES ASSUME order'[o] # order[o]
             PROVE  /\ order[o].status # "CANCELLED"
                    /\ order[o].locked => order'[o].locked
                    /\ order'[o].status = "IN_WAREHOUSE" => order[o].status = "IN_WAREHOUSE" \/ Settled(o)'
  OBVIOUS
<1>0. Inv /\ o \in Orders
  BY DEF QuietInv, Quiet
<1>1. PICK r \in Requests : Place(r) \/ CommitOrder(r) \/ CommitArrival(r)
  BY HeaderWriters
<1>2. ~Place(r)
  BY <1>0, PlacedOnce
<1>3. CASE CommitOrder(r)
  <2>1. PICK t \in Tx : t = tx[r]
    BY <1>0 DEF Inv, Typed, TypeOK
  <2>2. /\ t.at = "update_order" /\ ~Arrives(t) /\ t \in SavingOrder
        /\ order' = [order EXCEPT ![t.order] = OverHeader(order[t.order], t.entity, t.dirty)]
    BY <1>3, <2>1, TxKinds DEF CommitOrder
  <2>3. t.order = o
    BY <1>0, <2>2 DEF Inv, Typed, TypeOK
  <2>4. HeaderCurrent(t)
    BY <2>1, <2>2, <2>3 DEF QuietInv, Current
  <2>5. order[o] \in Header /\ t.entity \in Header
    BY <1>0, <2>2, PlacedIs DEF SavingOrder
  <2>6. order'[o] = t.entity
    BY <1>0, <2>2, <2>3, <2>4, <2>5, HeaderWritten DEF HeaderCurrent, Inv, Typed, TypeOK
  <2>7. t.entity.locked = IF "locked" \in t.set THEN t.entity.locked ELSE order[o].locked
    BY <2>3, <2>4, <2>5, OverHeaderIs DEF HeaderCurrent
  <2>8. "status" \notin t.set => t.entity.status = order[o].status
    BY <2>3, <2>4 DEF HeaderCurrent, OverHeader
  <2> QED
    BY <2>2, <2>3, <2>4, <2>6, <2>7, <2>8 DEF HeaderCurrent, Arrives
<1>4. CASE CommitArrival(r)
  <2>1. PICK t \in Tx : t = tx[r]
    BY <1>0 DEF Inv, Typed, TypeOK
  <2>2. /\ t \in Receiving /\ t.at = "receive" /\ t.todo = {} /\ t.entity \in Header
        /\ order'[t.order] = OverHeader(order[t.order], t.entity, t.dirty)
        /\ \A p \in Orders \ {t.order} : order'[p] = order[p]
        /\ \A l \in Lines :
             IF t.found[l] = None
             THEN line'[l] = line[l]
             ELSE line'[l] = Saved(line[l], Received(t.found[l]), t.writes[l])
    BY <1>0, <1>4, <2>1, ArrivalWrites
  <2>3. t.order = o
    BY <1>0, <2>2
  <2>4. ArrivalCurrent(t)
    BY <2>1, <2>2, <2>3 DEF QuietInv, Current
  <2>5. order[o] \in Header
    BY <1>0, PlacedIs
  <2>6. order'[o] = t.entity
    BY <2>2, <2>3, <2>4, <2>5, HeaderWritten DEF ArrivalCurrent
  <2>7. t.entity.locked = order[o].locked
    BY <2>3, <2>4 DEF ArrivalCurrent, OverHeader
  <2>8. ASSUME NEW l \in LinesOf[o] PROVE line'[l] \in {None, Gone} \/ line'[l].status # "PENDING"
    <3>1. l \in Lines
      BY <1>0, LinesBelong
    <3>2. /\ t.found[l] # None <=> There(l) /\ line[l].status = "PENDING"
          /\ t.found[l] # None => Saved(line[l], Received(t.found[l]), t.writes[l]) = Received(line[l])
      BY <1>0, <2>2, <2>3, <2>4, <2>8, ArrivalSettles DEF QuietInv
    <3>3. CASE t.found[l] = None
      BY <2>2, <3>1, <3>2, <3>3 DEF There
    <3>4. CASE t.found[l] # None
      <4>1. line'[l] = Received(line[l]) /\ line[l] \in Line
        BY <1>0, <2>2, <3>1, <3>2, <3>4 DEF There, Inv, Typed, TypeOK
      <4> QED
        BY <4>1 DEF Received, Line
    <3> QED
      BY <3>3, <3>4
  <2> QED
    BY <2>3, <2>4, <2>6, <2>7, <2>8 DEF ArrivalCurrent, Settled
<1> QED
  BY <1>1, <1>2, <1>3, <1>4

LEMMA CancelledLinesStay ==
  ASSUME QuietInv, [Next]_vars, NEW o \in Quiet, Placed(o), NEW l \in LinesThere(o),
         line[l].status = "CANCELLED"
  PROVE  line'[l] \in {line[l], Gone}
<1> SUFFICES ASSUME line'[l] # line[l] PROVE line'[l] = Gone
  OBVIOUS
<1>0. Inv /\ o \in Orders /\ l \in Lines /\ l \in LinesOf[o] /\ There(l) /\ OrderOf(l) = o
  BY LinesBelong DEF QuietInv, Quiet, LinesThere
<1>1. PICK r \in Requests :
        Place(r) \/ CommitArrival(r) \/ CommitAdd(r) \/ CommitLine(r) \/ CommitRemove(r)
  BY LineWriters
<1>2. ~Place(r)
  BY <1>0, PlacedOnce
<1>3. PICK t \in Tx : t = tx[r]
  BY <1>0 DEF Inv, Typed, TypeOK
<1>4. ~CommitArrival(r)
  <2> SUFFICES ASSUME CommitArrival(r) PROVE FALSE
    OBVIOUS
  <2>1. /\ t \in Receiving /\ t.at = "receive" /\ t.todo = {}
        /\ t.found[l] = None => line'[l] = line[l]
        /\ t.found[l] # None => l \in LinesOf[t.order]
        /\ t.order \in Orders
    BY <1>0, <1>3, ArrivalWrites
  <2>2. t.order = o /\ t.found[l] # None
    BY <1>0, <2>1, LinesBelong
  <2>3. ArrivalCurrent(t)
    BY <1>3, <2>1, <2>2 DEF QuietInv, Current
  <2>4. line[l].status = "PENDING"
    BY <1>0, <2>1, <2>2, <2>3, ArrivalSettles DEF QuietInv
  <2> QED
    BY <2>4
<1>5. ~CommitAdd(r)
  <2> SUFFICES ASSUME CommitAdd(r) PROVE FALSE
    OBVIOUS
  <2>1. PICK k \in LinesOf[t.order], q \in Qtys : line[k] = None /\ line' = [line EXCEPT ![k] = NewLine(q)]
    BY <1>3 DEF CommitAdd
  <2> QED
    BY <1>0, <2>1 DEF There, Inv, Typed, TypeOK
<1>6. ~CommitLine(r)
  <2> SUFFICES ASSUME CommitLine(r) PROVE FALSE
    OBVIOUS
  <2>1. t.at = "update_line" /\ line' = [line EXCEPT ![t.line] = Saved(line[t.line], t.entity, t.dirty)]
    BY <1>3 DEF CommitLine
  <2>2. t.line = l
    BY <1>0, <2>1 DEF Inv, Typed, TypeOK
  <2> QED
    BY <1>0, <1>3, <2>1, <2>2 DEF QuietInv, Current, LineCurrent
<1>7. CASE CommitRemove(r)
  BY <1>0, <1>3, <1>7 DEF CommitRemove, Inv, Typed, TypeOK
<1> QED
  BY <1>1, <1>2, <1>4, <1>5, <1>6, <1>7

-----------------------------------------------------------------------------
(* "Append-only audit trail for an order": while each row of an order is worked on by one
   request at a time, replaying its history gives its rows (Orders!HistoryTellsRows;
   order-history.entity.ts:67-71), whatever becomes of the other orders. *)
THEOREM HistoryTells == Spec => []HistoryTellsRows
<1>1. QuietInv => HistoryTellsRows
  BY DEF QuietInv
<1> QED
  BY <1>1, QuietInit, QuietNext, PTL DEF Spec

(* "An order must keep at least one line", while its lines are removed and edited one at
   a time (Orders!AlwaysALine; order.service.ts:581-582). *)
THEOREM KeepsALine == Spec => []AlwaysALine
<1>1. QuietInv => AlwaysALine
  BY DEF QuietInv
<1> QED
  BY <1>1, QuietInit, QuietNext, PTL DEF Spec

(* Moving an order into the warehouse leaves no line of it PENDING
   (Orders!ArrivalSettlesLines; order.service.ts:868-899). *)
THEOREM ArrivalSettlesAll == Spec => ArrivalSettlesLines
<1>1. QuietInv /\ [Next]_vars =>
        [ \A o \in Orders \ Overlapping :
            (Placed(o) /\ order[o].status # "IN_WAREHOUSE" /\ order'[o].status = "IN_WAREHOUSE") =>
              \A l \in LinesOf[o] : line'[l] \in {None, Gone} \/ line'[l].status # "PENDING" ]_vars
  BY HeadersAdvance DEF Settled, Quiet
<1> QED
  BY <1>1, QuietInit, QuietNext, PTL DEF Spec, ArrivalSettlesLines

(* A cancelled header never changes, a cancelled line is at most removed and a locked
   order stays locked (Orders!ClosedStaysClosed; order.service.ts:44-81, 202-219), as long
   as each row of the order is worked on by one request at a time. *)
THEOREM ClosedStays == Spec => ClosedStaysClosed
<1>1. QuietInv /\ [Next]_vars =>
        [ \A o \in Orders \ Overlapping : Placed(o) =>
            /\ Final(o)
            /\ order[o].locked => order'[o].locked
            /\ \A l \in LinesThere(o) :
                 line[l].status = "CANCELLED" => line'[l] \in {line[l], Gone} ]_vars
  <2> SUFFICES ASSUME QuietInv, [Next]_vars, NEW o \in Quiet, Placed(o)
               PROVE  /\ Final(o)
                      /\ order[o].locked => order'[o].locked
                      /\ \A l \in LinesThere(o) :
                           line[l].status = "CANCELLED" => line'[l] \in {line[l], Gone}
    BY DEF Quiet
  <2>1. Final(o) /\ (order[o].locked => order'[o].locked)
    BY HeadersAdvance DEF Final
  <2> QED
    BY <2>1, CancelledLinesStay
<1> QED
  BY <1>1, QuietInit, QuietNext, PTL DEF Spec, ClosedStaysClosed
-----------------------------------------------------------------------------
(* The life of a quiet order.  What a handler checked about a row before its transaction is
   still true when the transaction writes the row: of the rows the request touches because
   nobody else touches them, of the lock of the header because a lock is never undone.  So
   each COMMIT is an operation of Lifecycle on the rows as they are. *)

HeaderLawful(t) ==
  /\ t.set = {"tracking"} => Editable(order[t.order])
  /\ t.set = {"locked"} => ~order[t.order].locked /\ order[t.order].status = "IN_TRANSIT"
  /\ t.set = {"status"} => t.entity.status \in Allowed(order[t.order])

ArrivalLawful(t) ==
  order[t.order].locked /\ order[t.order].status = "IN_TRANSIT" /\ t.entity.status = "IN_WAREHOUSE"

LineLawful(t) ==
  /\ t.set \in {{"qty"}, {"status"}}
  /\ t.set = {"status"} =>
       t.entity.status \in Receipts(line[t.line].status) /\ order[OrderOf(t.line)].locked

Lawful(t) ==
  /\ t.at \in {"select_order", "update_order"} /\ t.order \in Quiet => HeaderLawful(t)
  /\ t.at = "receive" /\ t.order \in Quiet => ArrivalLawful(t)
  /\ t.at \in {"select_line", "update_line"} /\ OrderOf(t.line) \in Quiet => LineLawful(t)
  /\ t.at = "remove_line" /\ OrderOf(t.line) \in Quiet => There(t.line)

LifeInv == QuietInv /\ \A r \in Requests : Lawful(tx[r])

LEMMA LawfulStays ==
  ASSUME NEW t \in Tx, Bound(t), Lawful(t), KeptFor(t),
         \A o \in Quiet : Placed(o) /\ order[o].locked => order'[o].locked
  PROVE  Lawful(t)'
<1>1. CASE t.at \in {"select_order", "update_order", "receive"} /\ t.order \in Quiet
  <2>1. order'[t.order] = order[t.order]
    BY <1>1, TouchedIs DEF KeptFor
  <2> QED
    BY <1>1, <2>1 DEF Lawful, HeaderLawful, ArrivalLawful, Editable, Allowed
<1>2. CASE t.at \in {"select_line", "update_line"} /\ OrderOf(t.line) \in Quiet
  <2>1. line'[t.line] = line[t.line]
    BY <1>2, TxKinds, TouchedIs DEF KeptFor, SavingLine
  <2>2. order[OrderOf(t.line)].locked => order'[OrderOf(t.line)].locked
    BY <1>2 DEF Bound
  <2> QED
    BY <1>2, <2>1, <2>2 DEF Lawful, LineLawful, Receipts
<1>3. CASE t.at = "remove_line" /\ OrderOf(t.line) \in Quiet
  <2>1. line'[t.line] = line[t.line]
    BY <1>3, TxKinds, TouchedIs, LinesBelong DEF KeptFor, RemovingLine
  <2> QED
    BY <1>3, <2>1 DEF Lawful, There
<1> QED
  BY <1>1, <1>2, <1>3 DEF Lawful

\* A step of r leaves the quiet rows the others touch alone.
LEMMA StepKeeps ==
  ASSUME QuietInv, NEW r \in Requests, Begin(r) \/ Continue(r) \/ Fail(r), NEW q \in Requests \ {r}
  PROVE  tx'[q] = tx[q] /\ KeptFor(tx[q])
<1>0. PICK t \in Tx : t = tx[r] /\ Bound(t)
  BY DEF QuietInv, Inv, Typed, TypeOK
<1>1. \E u : Goto(r, u)
  BY DEF Begin, BeginTrack, BeginLock, BeginStatus, BeginAdd, BeginEdit, BeginReceipt, BeginRemove, Place,
         SaveOrder, SaveLine, Start, Continue, SelectOrder, CommitOrder, UpdateArriving, SelectPending,
         UpdatePending, CommitArrival, CommitAdd, SelectLine, CommitLine, CommitRemove, Fail, Answer
<1>2. tx'[q] = tx[q]
  BY <1>1 DEF QuietInv, Inv, Typed, TypeOK, Goto
<1>3. CASE Place(r)
  <2>1. PICK u \in Tx : u = tx[q] /\ Bound(u)
    BY DEF QuietInv, Inv, Typed, TypeOK
  <2>2. \A row \in Touched(u) : RowOrder(row) \in Orders /\ Placed(RowOrder(row))
    BY <2>1, TouchedPlaced
  <2>3. \A p \in Quiet : p \in Touched(u) => order'[p] = order[p]
    BY <1>3, <2>2, PlacedOnce DEF Quiet, RowOrder
  <2>4. \A l \in Lines : l \in Touched(u) => line'[l] = line[l]
    BY <1>3, <2>2, PlacedOnce, LinesBelong DEF RowOrder
  <2> QED
    BY <1>2, <2>1, <2>3, <2>4 DEF KeptFor
<1>4. CASE UNCHANGED <<order, line>>
  BY <1>2, <1>4 DEF KeptFor
<1>5. CASE CommitOrder(r)
  <2>1. t.at = "update_order" /\ order' = [order EXCEPT ![t.order] = order'[t.order]] /\ line' = line
    BY <1>0, <1>5 DEF CommitOrder, QuietInv, Inv, Typed, TypeOK
  <2>2. t.order \in Touched(t)
    BY <2>1, TouchedIs
  <2>3. \A o \in Orders : order'[o] = order[o] \/ o \in Touched(tx[r])
    BY <1>0, <2>1, <2>2 DEF QuietInv, Inv, Typed, TypeOK
  <2> QED
    BY <1>2, <2>1, <2>3, OthersKept
<1>6. CASE CommitArrival(r)
  <2>1. /\ Touched(t) = {t.order} \cup LinesOf[t.order]
        /\ \A p \in Orders \ {t.order} : order'[p] = order[p]
        /\ \A l \in Lines : IF t.found[l] = None THEN line'[l] = line[l] ELSE l \in LinesOf[t.order]
    BY <1>0, <1>6, ArrivalWrites DEF QuietInv
  <2>2. /\ \A o \in Orders : order'[o] = order[o] \/ o \in Touched(tx[r])
        /\ \A l \in Lines : line'[l] = line[l] \/ l \in Touched(tx[r])
    BY <1>0, <2>1
  <2> QED
    BY <1>2, <2>2, OthersKept
<1>7. CASE CommitAdd(r) \/ CommitLine(r) \/ CommitRemove(r)
  <2>1. /\ t.at \in {"add_line", "update_line", "remove_line"} /\ order' = order
        /\ t.at = "add_line" => \E l \in LinesOf[t.order] : \A k \in Lines \ {l} : line'[k] = line[k]
        /\ t.at # "add_line" => \A k \in Lines \ {t.line} : line'[k] = line[k]
    BY <1>0, <1>7 DEF CommitAdd, CommitLine, CommitRemove, QuietInv, Inv, Typed, TypeOK
  <2>2. \A l \in Lines : line'[l] = line[l] \/ l \in Touched(t)
    BY <2>1, TouchedIs, TxKinds, LinesBelong DEF RemovingLine
  <2> QED
    BY <1>0, <1>2, <2>1, <2>2, OthersKept
<1> QED
  <2>1. Begin(r) => Place(r) \/ UNCHANGED <<order, line>>
    BY DEF Begin, BeginTrack, BeginLock, BeginStatus, BeginAdd, BeginEdit, BeginReceipt, BeginRemove,
           SaveOrder, SaveLine, Start
  <2>2. Continue(r) => \/ CommitOrder(r) \/ CommitArrival(r)
                       \/ CommitAdd(r) \/ CommitLine(r) \/ CommitRemove(r)
                       \/ UNCHANGED <<order, line>>
    BY DEF Continue, SelectOrder, UpdateArriving, SelectPending, UpdatePending, SelectLine
  <2>3. Fail(r) => UNCHANGED <<order, line>>
    BY DEF Fail
  <2> QED
    BY <1>3, <1>4, <1>5, <1>6, <1>7, <2>1, <2>2, <2>3
LEMMA SaveOrderLawful ==
  ASSUME Inv, NEW r \in Requests, NEW o \in Orders, NEW entity, NEW set, SaveOrder(r, o, entity, set),
         /\ set = {"tracking"} => Editable(order[o])
         /\ set = {"locked"} => ~order[o].locked /\ order[o].status = "IN_TRANSIT"
         /\ set = {"status"} => entity.status \in Allowed(order[o])
  PROVE  Lawful(tx[r])'
<1>1. /\ order' = order
      /\ tx'[r] = [at |-> "select_order", order |-> o, entity |-> entity, set |-> set, dirty |-> {}]
  BY DEF SaveOrder, Start, Goto, Inv, Typed, TypeOK
<1>2. tx'[r].at = "select_order" /\ tx'[r].order = o /\ tx'[r].entity = entity /\ tx'[r].set = set
  BY <1>1
<1> QED
  BY <1>1, <1>2 DEF Lawful, HeaderLawful

LEMMA BeginHeaderLawful ==
  ASSUME Inv, NEW r \in Requests, BeginTrack(r) \/ BeginLock(r) \/ BeginStatus(r)
  PROVE  Lawful(tx[r])'
<1>1. CASE BeginTrack(r)
  <2>1. PICK o \in Orders, tracking \in Trackings :
          Editable(order[o]) /\ SaveOrder(r, o, [order[o] EXCEPT !.tracking = tracking], {"tracking"})
    BY <1>1 DEF BeginTrack
  <2>2. PICK entity : entity = [order[o] EXCEPT !.tracking = tracking]
    OBVIOUS
  <2>3. SaveOrder(r, o, entity, {"tracking"})
    BY <2>1, <2>2
  <2> QED
    BY <2>1, <2>3, SaveOrderLawful
<1>2. CASE BeginLock(r)
  <2>1. PICK o \in Orders :
          /\ ~order[o].locked /\ order[o].status = "IN_TRANSIT"
          /\ SaveOrder(r, o, [order[o] EXCEPT !.locked = TRUE], {"locked"})
    BY <1>2 DEF BeginLock
  <2>2. PICK entity : entity = [order[o] EXCEPT !.locked = TRUE]
    OBVIOUS
  <2>3. SaveOrder(r, o, entity, {"locked"})
    BY <2>1, <2>2
  <2> QED
    BY <2>1, <2>3, SaveOrderLawful
<1>3. CASE BeginStatus(r)
  <2>1. PICK o \in Orders : Placed(o) /\ \E status \in Allowed(order[o]) :
          SaveOrder(r, o, [order[o] EXCEPT !.status = status], {"status"})
    BY <1>3 DEF BeginStatus
  <2>2. PICK status \in Allowed(order[o]) :
          SaveOrder(r, o, [order[o] EXCEPT !.status = status], {"status"})
    BY <2>1
  <2>3. PICK entity : entity = [order[o] EXCEPT !.status = status]
    OBVIOUS
  <2>4. SaveOrder(r, o, entity, {"status"}) /\ entity.status = status
    BY <2>1, <2>2, <2>3, PlacedIs DEF Header
  <2> QED
    BY <2>2, <2>4, SaveOrderLawful
<1> QED
  BY <1>1, <1>2, <1>3

LEMMA SaveLineLawful ==
  ASSUME Inv, NEW r \in Requests, NEW o \in Orders, NEW l, NEW entity, NEW set, SaveLine(r, o, l, entity, set),
         OrderOf(l) = o, set \in {{"qty"}, {"status"}},
         set = {"status"} => entity.status \in Receipts(line[l].status) /\ order[o].locked
  PROVE  Lawful(tx[r])'
<1>1. /\ order' = order /\ line' = line
      /\ tx'[r] = [at |-> "select_line", line |-> l, entity |-> entity, set |-> set, dirty |-> {}]
  BY DEF SaveLine, Start, Goto, Inv, Typed, TypeOK
<1>2. tx'[r].at = "select_line" /\ tx'[r].line = l /\ tx'[r].entity = entity /\ tx'[r].set = set
  BY <1>1
<1> QED
  BY <1>1, <1>2 DEF Lawful, LineLawful

LEMMA BeginLineLawful ==
  ASSUME Inv, NEW r \in Requests, BeginEdit(r) \/ BeginReceipt(r) \/ BeginAdd(r) \/ BeginRemove(r)
  PROVE  Lawful(tx[r])'
<1>1. CASE BeginEdit(r)
  <2>1. PICK o \in Orders, q \in Qtys :
          \E l \in LinesThere(o) : SaveLine(r, o, l, [line[l] EXCEPT !.qty = q], {"qty"})
    BY <1>1 DEF BeginEdit
  <2>2. PICK l \in LinesThere(o) : SaveLine(r, o, l, [line[l] EXCEPT !.qty = q], {"qty"})
    BY <2>1
  <2>3. PICK entity : entity = [line[l] EXCEPT !.qty = q]
    OBVIOUS
  <2>4. OrderOf(l) = o /\ SaveLine(r, o, l, entity, {"qty"})
    BY <2>2, <2>3, ThereIs
  <2> QED
    BY <2>4, SaveLineLawful
<1>2. CASE BeginReceipt(r)
  <2>1. PICK o \in Orders : Receivable(order[o]) /\ \E l \in LinesThere(o) :
          \E status \in Receipts(line[l].status) :
            SaveLine(r, o, l, [line[l] EXCEPT !.status = status], {"status"})
    BY <1>2 DEF BeginReceipt
  <2>2. PICK l \in LinesThere(o) : \E status \in Receipts(line[l].status) :
          SaveLine(r, o, l, [line[l] EXCEPT !.status = status], {"status"})
    BY <2>1
  <2>3. PICK status \in Receipts(line[l].status) :
          SaveLine(r, o, l, [line[l] EXCEPT !.status = status], {"status"})
    BY <2>2
  <2>4. PICK entity : entity = [line[l] EXCEPT !.status = status]
    OBVIOUS
  <2>5. OrderOf(l) = o /\ line[l] \in Line
    BY ThereIs
  <2>6. SaveLine(r, o, l, entity, {"status"}) /\ entity.status = status
    BY <2>3, <2>4, <2>5 DEF Line
  <2> QED
    BY <2>1, <2>3, <2>5, <2>6, SaveLineLawful DEF Receivable
<1>3. CASE BeginAdd(r)
  <2>1. PICK o \in Orders : Goto(r, [at |-> "add_line", order |-> o])
    BY <1>3 DEF BeginAdd, Start
  <2>2. tx'[r].at = "add_line"
    BY <2>1 DEF Goto, Inv, Typed, TypeOK
  <2> QED
    BY <2>2 DEF Lawful
<1>4. CASE BeginRemove(r)
  <2>1. PICK o \in Orders : \E l \in LinesThere(o) : Goto(r, [at |-> "remove_line", line |-> l])
    BY <1>4 DEF BeginRemove, Start
  <2>2. PICK l \in LinesThere(o) : Goto(r, [at |-> "remove_line", line |-> l])
    BY <2>1
  <2>3. tx'[r].at = "remove_line" /\ tx'[r].line = l /\ line' = line
    BY <1>4, <2>2 DEF Goto, BeginRemove, Start, Inv, Typed, TypeOK
  <2> QED
    BY <2>2, <2>3, ThereIs DEF Lawful, There
<1> QED
  BY <1>1, <1>2, <1>3, <1>4

\* Between the check and the write a request only reads, or locks the rows it is at.
LEMMA GoingOnLawful ==
  ASSUME LifeInv, NEW r \in Requests,
         SelectOrder(r) \/ UpdateArriving(r) \/ SelectPending(r) \/ UpdatePending(r) \/ SelectLine(r)
  PROVE  Lawful(tx[r])'
<1>0. PICK t \in Tx : t = tx[r] /\ Lawful(t) /\ Current(t)
  BY DEF LifeInv, QuietInv, Inv, Typed, TypeOK
<1>1. order' = order /\ line' = line
  BY DEF SelectOrder, UpdateArriving, SelectPending, UpdatePending, SelectLine
<1>2. CASE SelectOrder(r)
  <2>1. t.at = "select_order" /\ t \in SavingOrder
    BY <1>0, <1>2, TxKinds DEF SelectOrder
  <2>2. tx'[r] = [t EXCEPT !.at = "update_order", !.dirty = Differing(t.entity, order[t.order])]
    BY <1>0, <1>2 DEF SelectOrder, Goto, LifeInv, QuietInv, Inv, Typed, TypeOK
  <2>3. /\ tx'[r].at = "update_order" /\ tx'[r].order = t.order
        /\ tx'[r].entity = t.entity /\ tx'[r].set = t.set
    BY <2>1, <2>2 DEF SavingOrder
  <2> QED
    BY <1>0, <1>1, <2>1, <2>3 DEF Lawful, HeaderLawful
<1>3. CASE UpdateArriving(r)
  <2>1. t.at = "update_order" /\ Arrives(t) /\ t \in SavingOrder
    BY <1>0, <1>3, TxKinds DEF UpdateArriving
  <2>2. tx'[r].at = "receive" /\ tx'[r].order = t.order /\ tx'[r].entity = t.entity
    BY <1>0, <1>3 DEF UpdateArriving, Goto, LifeInv, QuietInv, Inv, Typed, TypeOK
  <2>3. ASSUME t.order \in Quiet PROVE ArrivalLawful(t)
    <3>1. HeaderCurrent(t) /\ HeaderLawful(t)
      BY <1>0, <2>1, <2>3 DEF Current, Lawful
    <3>2. t.entity.status = "IN_WAREHOUSE" /\ t.entity.status \in Allowed(order[t.order])
      BY <2>1, <3>1 DEF Arrives, HeaderCurrent, HeaderLawful
    <3> QED
      BY <3>2 DEF Allowed, ArrivalLawful
  <2> QED
    BY <1>1, <2>2, <2>3 DEF Lawful, ArrivalLawful
<1>4. CASE SelectPending(r) \/ UpdatePending(r)
  <2>1. t.at = "receive" /\ t \in Receiving
    BY <1>0, <1>4, TxKinds DEF SelectPending, UpdatePending
  <2>2. CASE SelectPending(r)
    <3>1. PICK l \in tx[r].todo :
            LET dirty == LineDirty(Received(tx[r].found[l]), l)
            IN  Goto(r, [tx[r] EXCEPT !.current = l, !.todo = tx[r].todo \ {l},
                                      !.writes = [tx[r].writes EXCEPT ![l] = dirty]])
      BY ONLY <2>2 DEF SelectPending
    <3>2. PICK todo, writes : Goto(r, [tx[r] EXCEPT !.current = l, !.todo = todo, !.writes = writes])
      BY ONLY <3>1
    <3>3. tx'[r] = [t EXCEPT !.current = l, !.todo = todo, !.writes = writes]
      BY <1>0, <3>2 DEF Goto, LifeInv, QuietInv, Inv, Typed, TypeOK
    <3> QED
      BY <1>0, <1>1, <2>1, <3>3 DEF Lawful, ArrivalLawful, Receiving
  <2>3. CASE UpdatePending(r)
    <3>1. tx'[r] = [t EXCEPT !.current = None]
      BY <1>0, <2>3 DEF UpdatePending, Goto, LifeInv, QuietInv, Inv, Typed, TypeOK
    <3> QED
      BY <1>0, <1>1, <2>1, <3>1 DEF Lawful, ArrivalLawful, Receiving
  <2> QED
    BY <1>4, <2>2, <2>3
<1>5. CASE SelectLine(r)
  <2>1. t.at = "select_line" /\ t \in SavingLine
    BY <1>0, <1>5, TxKinds DEF SelectLine
  <2>2. tx'[r] = [t EXCEPT !.at = "update_line", !.dirty = LineDirty(t.entity, t.line)]
    BY <1>0, <1>5 DEF SelectLine, Goto, LifeInv, QuietInv, Inv, Typed, TypeOK
  <2>3. /\ tx'[r].at = "update_line" /\ tx'[r].line = t.line
        /\ tx'[r].entity = t.entity /\ tx'[r].set = t.set
    BY <2>1, <2>2 DEF SavingLine
  <2> QED
    BY <1>0, <1>1, <2>1, <2>3 DEF Lawful, LineLawful
<1> QED
  BY <1>2, <1>3, <1>4, <1>5

LEMMA AnsweredLawful ==
  ASSUME Inv, NEW r \in Requests, Answer(r)
  PROVE  Lawful(tx[r])'
<1>1. tx'[r].at = "answered"
  BY DEF Answer, Goto, Inv, Typed, TypeOK
<1> QED
  BY <1>1 DEF Lawful

LEMMA LifeInit == Init => LifeInv
<1> SUFFICES ASSUME Init PROVE \A r \in Requests : Lawful(tx[r])
  BY QuietInit DEF LifeInv
<1>1. \A r \in Requests : tx[r].at = "fresh"
  BY DEF Init
<1> QED
  BY <1>1 DEF Lawful

LEMMA LifeNext == LifeInv /\ [Next]_vars => LifeInv'
<1> SUFFICES ASSUME LifeInv, [Next]_vars PROVE \A q \in Requests : Lawful(tx[q])'
  BY QuietNext DEF LifeInv
<1>0. QuietInv /\ Inv
  BY DEF LifeInv, QuietInv
<1>1. \A o \in Quiet : Placed(o) /\ order[o].locked => order'[o].locked
  BY <1>0, HeadersAdvance
<1>2. ASSUME NEW q \in Requests, tx'[q] = tx[q], KeptFor(tx[q]) PROVE Lawful(tx[q])'
  <2>1. PICK t \in Tx : t = tx[q] /\ Bound(t) /\ Lawful(t) /\ KeptFor(t)
    BY <1>0, <1>2 DEF LifeInv, Inv, Typed, TypeOK
  <2>2. Lawful(t)'
    BY <1>1, <2>1, LawfulStays
  <2> QED
    BY <1>2, <2>1, <2>2 DEF Lawful
<1>3. CASE UNCHANGED vars
  BY <1>2, <1>3 DEF vars, KeptFor
<1>4. ASSUME NEW r \in Requests, Begin(r) \/ Continue(r) \/ Fail(r) PROVE Lawful(tx[r])'
  <2>1. CASE Begin(r)
    <3>1. Place(r) => Answer(r)
      BY DEF Place
    <3> QED
      BY <1>0, <2>1, <3>1, AnsweredLawful, BeginHeaderLawful, BeginLineLawful DEF Begin
  <2>2. CASE Continue(r)
    <3>1. CommitOrder(r) \/ CommitArrival(r) \/ CommitAdd(r) \/ CommitLine(r) \/ CommitRemove(r) => Answer(r)
      BY DEF CommitOrder, CommitArrival, CommitAdd, CommitLine, CommitRemove
    <3> QED
      BY <1>0, <2>2, <3>1, AnsweredLawful, GoingOnLawful DEF Continue
  <2>3. CASE Fail(r)
    BY <1>0, <2>3, AnsweredLawful DEF Fail
  <2> QED
    BY <1>4, <2>1, <2>2, <2>3
<1>5. ASSUME NEW r \in Requests, Begin(r) \/ Continue(r) \/ Fail(r), NEW q \in Requests PROVE Lawful(tx[q])'
  BY <1>0, <1>2, <1>4, <1>5, StepKeeps
<1> QED
  BY <1>3, <1>5 DEF Next
-----------------------------------------------------------------------------
(* Every step of Orders is one of Lifecycle, or changes no quiet row *)

LEMMA QuietParts ==
  /\ Life!Parts \subseteq Lines
  /\ \A l \in Lines : l \in Life!Parts <=> OrderOf(l) \in Quiet
  /\ \A o \in Quiet : o \in Orders /\ \A l \in LinesOf[o] : l \in Life!Parts /\ l \in Lines /\ OrderOf(l) = o
  BY LinesBelong DEF Life!Parts, Quiet

LEMMA PartsAre == Life!Parts = UNION {LinesOf[o] : o \in Quiet}
  BY DEF Life!Parts

\* A step that leaves the quiet rows alone.
LEMMA Elsewhere ==
  ASSUME \A o \in Quiet : order'[o] = order[o], \A l \in Lines : OrderOf(l) \in Quiet => line'[l] = line[l]
  PROVE  UNCHANGED Life!vars
  BY QuietParts, PartsAre DEF Life!vars

\* A step that writes one quiet header, and one that writes one quiet line.
LEMMA OneHeader ==
  ASSUME NEW o \in Quiet, NEW h, order'[o] = h, \A p \in Orders \ {o} : order'[p] = order[p], line' = line
  PROVE  Life!HeaderBecomes(o, h)
  BY DEF Life!HeaderBecomes, Quiet

LEMMA OnePart ==
  ASSUME NEW l \in Lines, OrderOf(l) \in Quiet, NEW d, line'[l] = d,
         \A k \in Lines \ {l} : line'[k] = line[k], order' = order
  PROVE  Life!PartBecomes(l, d)
<1> DEFINE part == [k \in Life!Parts |-> line[k]]
<1>1. l \in Life!Parts
  BY QuietParts
<1>2. part' = [part EXCEPT ![l] = d]
  BY <1>1, QuietParts
<1> QED
  BY <1>2, PartsAre DEF Life!PartBecomes

LEMMA LifeOfCommitOrder ==
  ASSUME LifeInv, NEW r \in Requests, CommitOrder(r)
  PROVE  [Life!Next]_(Life!vars)
<1>0. PICK t \in Tx : t = tx[r] /\ Current(t) /\ Lawful(t) /\ Bound(t)
  BY DEF LifeInv, QuietInv, Inv, Typed, TypeOK
<1>1. /\ t.at = "update_order" /\ ~Arrives(t) /\ t \in SavingOrder /\ t.order \in Orders
      /\ line' = line /\ order' = [order EXCEPT ![t.order] = OverHeader(order[t.order], t.entity, t.dirty)]
  BY <1>0, TxKinds DEF CommitOrder, SavingOrder
<1>2. PICK o \in Orders, e \in Header : o = t.order /\ e = t.entity
  BY <1>1 DEF SavingOrder
<1>3. order[o] \in Header /\ order[o] # None
  BY <1>0, <1>1, <1>2, PlacedIs DEF Bound, LifeInv, QuietInv, Placed
<1>4. /\ order'[o] = OverHeader(order[o], e, t.dirty)
      /\ \A p \in Orders \ {o} : order'[p] = order[p]
  BY <1>1, <1>2 DEF LifeInv, QuietInv, Inv, Typed, TypeOK
<1>5. CASE o \notin Quiet
  BY <1>1, <1>4, <1>5, Elsewhere DEF Quiet
<1>6. CASE o \in Quiet
  <2>1. HeaderCurrent(t) /\ HeaderLawful(t)
    BY <1>0, <1>1, <1>2, <1>6 DEF Current, Lawful
  <2>2. order'[o] = e
    BY <1>1, <1>2, <1>3, <1>4, <2>1, HeaderWritten DEF HeaderCurrent
  <2>3. Life!HeaderBecomes(o, e)
    BY <1>1, <1>4, <1>6, <2>2, OneHeader
  <2>4. e = OverHeader(order[o], e, t.set)
    BY <1>2, <2>1 DEF HeaderCurrent
  <2>5. CASE t.set = {"tracking"}
    <3>1. Editable(order[o]) /\ e.tracking \in Trackings
      BY <1>2, <2>1, <2>5 DEF HeaderLawful, Header
    <3>2. e = [order[o] EXCEPT !.tracking = e.tracking]
      BY <1>3, <2>4, <2>5 DEF OverHeader, Header
    <3>3. Life!Open(order[o])
      BY <3>1 DEF Editable, Life!Open
    <3>4. Life!Retrack(o)
      <4>1. [[p \in Quiet |-> order[p]][o] EXCEPT !.tracking = e.tracking] = e
        BY <1>6, <3>2
      <4> QED
        BY <1>3, <1>6, <2>3, <3>1, <3>3, <4>1 DEF Life!Retrack, Life!HeaderBecomes
    <3> QED
      BY <1>6, <3>4 DEF Life!Next
  <2>6. CASE t.set = {"locked"}
    <3>1. ~order[o].locked /\ order[o].status = "IN_TRANSIT" /\ e.locked
      BY <1>2, <2>1, <2>6 DEF HeaderLawful, HeaderCurrent
    <3>2. e = [order[o] EXCEPT !.locked = TRUE]
      BY <1>3, <2>4, <2>6, <3>1 DEF OverHeader, Header
    <3>3. Life!Lock(o)
      <4>1. [[p \in Quiet |-> order[p]][o] EXCEPT !.locked = TRUE] = e
        BY <1>6, <3>2
      <4> QED
        BY <1>3, <1>6, <2>3, <3>1, <4>1 DEF Life!Lock, Life!HeaderBecomes
    <3> QED
      BY <1>6, <3>3 DEF Life!Next
  <2>7. CASE t.set = {"status"}
    <3>1. e.status \in Allowed(order[o]) /\ e.status # "IN_WAREHOUSE"
      BY <1>1, <1>2, <2>1, <2>7 DEF HeaderLawful, Arrives
    <3>2. e.status = "CANCELLED" /\ Life!Open(order[o])
      BY <1>3, <3>1 DEF Allowed, Life!Open, Header
    <3>3. e = [order[o] EXCEPT !.status = "CANCELLED"]
      BY <1>3, <2>4, <2>7, <3>2 DEF OverHeader, Header
    <3>4. Life!Cancel(o)
      <4>1. [[p \in Quiet |-> order[p]][o] EXCEPT !.status = "CANCELLED"] = e
        BY <1>6, <3>3
      <4> QED
        BY <1>3, <1>6, <2>3, <3>2, <4>1 DEF Life!Cancel, Life!HeaderBecomes
    <3> QED
      BY <1>6, <3>4 DEF Life!Next
  <2> QED
    BY <2>1, <2>5, <2>6, <2>7 DEF HeaderCurrent
<1> QED
  BY <1>5, <1>6
LEMMA LifeOfCommitLine ==
  ASSUME LifeInv, NEW r \in Requests, CommitLine(r)
  PROVE  [Life!Next]_(Life!vars)
<1>0. PICK t \in Tx : t = tx[r] /\ Current(t) /\ Lawful(t) /\ Bound(t)
  BY DEF LifeInv, QuietInv, Inv, Typed, TypeOK
<1>1. t.at = "update_line" /\ t \in SavingLine /\ order' = order
      /\ line' = [line EXCEPT ![t.line] = Saved(line[t.line], t.entity, t.dirty)]
  BY <1>0, TxKinds DEF CommitLine
<1>2. PICK l \in Lines, e \in Line : l = t.line /\ e = t.entity
  BY <1>1 DEF SavingLine
<1>3. /\ line'[l] = Saved(line[l], e, t.dirty)
      /\ \A k \in Lines \ {l} : line'[k] = line[k]
  BY <1>1, <1>2 DEF LifeInv, QuietInv, Inv, Typed, TypeOK
<1>4. CASE OrderOf(l) \notin Quiet
  BY <1>1, <1>3, <1>4, Elsewhere
<1>5. CASE OrderOf(l) \in Quiet
  <2>1. PICK o \in Quiet : o = OrderOf(l) /\ l \in LinesOf[o] /\ l \in Life!Parts
    BY <1>5, LinesBelong, QuietParts
  <2>2. LineCurrent(t) /\ LineLawful(t) /\ order[o] # None
    BY <1>0, <1>1, <1>2, <1>5, <2>1 DEF Current, Lawful, Bound, Placed
  <2>3. There(l) /\ line[l] \in Line /\ line[l].status # "CANCELLED"
    BY <1>2, <2>2 DEF LineCurrent, There, LifeInv, QuietInv, Inv, Typed, TypeOK
  <2>4. line'[l] = e
    BY <1>1, <1>2, <1>3, <2>2, <2>3, LineWritten DEF LineCurrent
  <2>5. Life!PartBecomes(l, e)
    BY <1>1, <1>3, <1>5, <2>4, OnePart
  <2>6. e = OverLine(line[l], e, t.set)
    BY <1>2, <2>2 DEF LineCurrent
  <2>7. Life!Here(l)
    BY <2>1, <2>3, PartsAre DEF Life!Here, There
  <2>8. CASE t.set = {"qty"}
    <3>1. e = [line[l] EXCEPT !.qty = e.qty] /\ e.qty \in Qtys
      BY <2>3, <2>6, <2>8 DEF OverLine, Line
    <3>2. [[k \in Life!Parts |-> line[k]][l] EXCEPT !.qty = e.qty] = e
      BY <2>1, <3>1
    <3>3. Life!Amend(o, l)
      BY <2>1, <2>2, <2>3, <2>5, <2>7, <3>1, <3>2, PartsAre DEF Life!Amend, Life!PartBecomes
    <3> QED
      BY <2>1, <3>3 DEF Life!Next
  <2>9. CASE t.set = {"status"}
    <3>1. e = [line[l] EXCEPT !.status = e.status]
      BY <2>3, <2>6, <2>9 DEF OverLine, Line
    <3>2. [[k \in Life!Parts |-> line[k]][l] EXCEPT !.status = e.status] = e
      BY <2>1, <3>1
    <3>3. e.status \in Receipts(line[l].status) /\ order[o].locked
      BY <1>2, <2>1, <2>2, <2>9 DEF LineLawful
    <3>4. e.status \in Life!Outcomes(line[l].status)
      BY <2>3, <3>3 DEF Receipts, Life!Outcomes, Line, LineStatus
    <3>5. Life!Settle(o, l)
      BY <2>1, <2>2, <2>5, <2>7, <3>2, <3>3, <3>4, PartsAre DEF Life!Settle, Life!PartBecomes
    <3> QED
      BY <2>1, <3>5 DEF Life!Next
  <2> QED
    BY <2>2, <2>8, <2>9 DEF LineLawful
<1> QED
  BY <1>4, <1>5

LEMMA LifeOfCommitAdd ==
  ASSUME LifeInv, NEW r \in Requests, CommitAdd(r)
  PROVE  [Life!Next]_(Life!vars)
<1>0. PICK t \in Tx : t = tx[r] /\ Bound(t)
  BY DEF LifeInv, QuietInv, Inv, Typed, TypeOK
<1>1. t.at = "add_line" /\ t.order \in Orders /\ order' = order /\ Placed(t.order)
  BY <1>0, TxKinds DEF CommitAdd, AddingLine, Bound
<1>2. PICK l \in LinesOf[t.order], q \in Qtys : line[l] = None /\ line' = [line EXCEPT ![l] = NewLine(q)]
  BY <1>0 DEF CommitAdd
<1>3. l \in Lines /\ OrderOf(l) = t.order
  BY <1>1, LinesBelong
<1>4. line'[l] = NewLine(q) /\ \A k \in Lines \ {l} : line'[k] = line[k]
  BY <1>2, <1>3 DEF LifeInv, QuietInv, Inv, Typed, TypeOK
<1>5. CASE t.order \notin Quiet
  BY <1>1, <1>3, <1>4, <1>5, Elsewhere
<1>6. CASE t.order \in Quiet
  <2>1. Life!PartBecomes(l, NewLine(q))
    BY <1>1, <1>3, <1>4, <1>6, OnePart
  <2>2. NewLine(q) \in Life!Pending
    BY DEF NewLine, Life!Pending
  <2>3. l \in Life!Parts
    BY <1>3, <1>6, QuietParts
  <2>4. Life!Add(t.order, l)
    BY <1>1, <1>2, <1>6, <2>1, <2>2, <2>3, PartsAre DEF Life!Add, Placed
  <2> QED
    BY <1>6, <2>4 DEF Life!Next
<1> QED
  BY <1>5, <1>6

LEMMA LifeOfCommitRemove ==
  ASSUME LifeInv, NEW r \in Requests, CommitRemove(r)
  PROVE  [Life!Next]_(Life!vars)
<1>0. PICK t \in Tx : t = tx[r] /\ Current(t) /\ Lawful(t) /\ Bound(t)
  BY DEF LifeInv, QuietInv, Inv, Typed, TypeOK
<1>1. t.at = "remove_line" /\ order' = order /\ line' = [line EXCEPT ![t.line] = Gone]
  BY <1>0 DEF CommitRemove
<1>2. PICK l \in Lines : l = t.line
  BY <1>0, <1>1, TxKinds DEF RemovingLine
<1>3. line'[l] = Gone /\ \A k \in Lines \ {l} : line'[k] = line[k]
  BY <1>1, <1>2 DEF LifeInv, QuietInv, Inv, Typed, TypeOK
<1>4. CASE OrderOf(l) \notin Quiet
  BY <1>1, <1>3, <1>4, Elsewhere
<1>5. CASE OrderOf(l) \in Quiet
  <2>1. PICK o \in Quiet : o = OrderOf(l) /\ l \in LinesOf[o] /\ l \in Life!Parts /\ order[o] # None
    BY <1>0, <1>1, <1>2, <1>5, LinesBelong, QuietParts DEF Bound, Placed
  <2>2. Life!PartBecomes(l, Gone)
    BY <1>1, <1>3, <1>5, OnePart
  <2>3. PICK k \in LinesOf[o] : k # l /\ There(k)
    BY <1>0, <1>1, <1>2, <1>5, <2>1 DEF Current, AnotherLine, LinesThere
  <2>4. k \in Life!Parts
    BY QuietParts
  <2>5. Life!Here(k)
    BY <2>3, <2>4, PartsAre DEF Life!Here, There
  <2>6. There(l)
    BY <1>0, <1>1, <1>2, <1>5 DEF Lawful
  <2>7. Life!Here(l)
    BY <2>1, <2>6, PartsAre DEF Life!Here, There
  <2>8. Life!Remove(o, l)
    BY <2>1, <2>2, <2>3, <2>5, <2>7 DEF Life!Remove
  <2> QED
    BY <2>1, <2>8 DEF Life!Next
<1> QED
  BY <1>4, <1>5
LEMMA LifeOfCommitArrival ==
  ASSUME LifeInv, NEW r \in Requests, CommitArrival(r)
  PROVE  [Life!Next]_(Life!vars)
<1>0. PICK t \in Tx : t = tx[r] /\ Current(t) /\ Lawful(t)
  BY DEF LifeInv, QuietInv, Inv, Typed, TypeOK
<1>1. /\ t \in Receiving /\ t.at = "receive" /\ t.todo = {}
      /\ t.order \in Orders /\ Placed(t.order) /\ t.entity \in Header /\ order[t.order] \in Header
      /\ order'[t.order] = OverHeader(order[t.order], t.entity, t.dirty)
      /\ \A p \in Orders \ {t.order} : order'[p] = order[p]
      /\ \A l \in Lines : IF t.found[l] = None
                          THEN line'[l] = line[l]
                          ELSE /\ l \in LinesOf[t.order]
                               /\ line'[l] = Saved(line[l], Received(t.found[l]), t.writes[l])
  BY <1>0, ArrivalWrites DEF LifeInv, QuietInv
<1>2. PICK o \in Orders, e \in Header : o = t.order /\ e = t.entity
  BY <1>1
<1>3. \A l \in Lines : OrderOf(l) # o => line'[l] = line[l]
  BY <1>1, <1>2, LinesBelong
<1>4. CASE o \notin Quiet
  BY <1>1, <1>2, <1>3, <1>4, Elsewhere DEF Quiet
<1>5. CASE o \in Quiet
  <2>1. ArrivalCurrent(t) /\ ArrivalLawful(t)
    BY <1>0, <1>1, <1>2, <1>5 DEF Current, Lawful
  <2>2. order'[o] = e
    BY <1>1, <1>2, <2>1, HeaderWritten DEF ArrivalCurrent
  <2>3. /\ e = OverHeader(order[o], e, {"status"}) /\ e.status = "IN_WAREHOUSE"
        /\ order[o] # None /\ order[o].locked /\ order[o].status = "IN_TRANSIT"
    BY <1>1, <1>2, <2>1 DEF ArrivalCurrent, ArrivalLawful, Placed
  <2>4. e = [order[o] EXCEPT !.status = "IN_WAREHOUSE"]
    BY <1>1, <1>2, <2>3 DEF OverHeader, Header
  <2>5. ASSUME NEW l \in LinesOf[o]
        PROVE  line'[l] = IF There(l) /\ line[l].status = "PENDING" THEN Received(line[l]) ELSE line[l]
    <3>1. l \in Lines
      BY LinesBelong
    <3>2. /\ t.found[l] # None <=> There(l) /\ line[l].status = "PENDING"
          /\ t.found[l] # None => Saved(line[l], Received(t.found[l]), t.writes[l]) = Received(line[l])
      BY <1>1, <1>2, <1>5, <2>1, ArrivalSettles DEF LifeInv, QuietInv
    <3> QED
      BY <1>1, <3>1, <3>2
  <2> DEFINE header == [p \in Quiet |-> order[p]]
             part == [l \in Life!Parts |-> line[l]]
  <2>6. [header[o] EXCEPT !.status = "IN_WAREHOUSE"] = e
    BY <1>5, <2>4
  <2>7. header' = [header EXCEPT ![o] = e]
    BY <1>1, <1>2, <1>5, <2>2 DEF Quiet
  <2>8. part' = [l \in Life!Parts |->
                   IF l \in LinesOf[o] /\ part[l] \notin {None, Gone} /\ part[l].status = "PENDING"
                   THEN [part[l] EXCEPT !.status = "RECEIVED"] ELSE part[l]]
    <3>1. ASSUME NEW l \in Life!Parts
          PROVE  line'[l] = IF l \in LinesOf[o] /\ line[l] \notin {None, Gone} /\ line[l].status = "PENDING"
                            THEN [line[l] EXCEPT !.status = "RECEIVED"] ELSE line[l]
      <4>1. l \in Lines
        BY QuietParts
      <4>2. CASE l \in LinesOf[o]
        BY <2>5, <4>2 DEF There, Received
      <4>3. CASE l \notin LinesOf[o]
        BY <1>3, <4>1, <4>3, LinesBelong
      <4> QED
        BY <4>2, <4>3
    <3> QED
      BY <3>1
  <2>9. Life!Arrive(o)
    BY <1>5, <2>3, <2>6, <2>7, <2>8, PartsAre DEF Life!Arrive, Life!Here
  <2> QED
    BY <1>5, <2>9 DEF Life!Next
<1> QED
  BY <1>4, <1>5

LEMMA LifeOfPlace ==
  ASSUME LifeInv, NEW r \in Requests, Place(r)
  PROVE  [Life!Next]_(Life!vars)
<1>1. PICK o \in Orders, tracking \in Trackings :
        /\ ~Placed(o)
        /\ \E ls \in Placements(o) :
             LET placed == [row \in {o} \cup LinesOf[o] |-> IF row = o THEN PlacedHeader(tracking) ELSE ls[row]]
             IN  /\ order' = [order EXCEPT ![o] = placed[o]]
                 /\ line' = [l \in Lines |-> IF l \in LinesOf[o] THEN placed[l] ELSE line[l]]
                 /\ told' = [row \in Orders \cup Lines |-> IF row \in DOMAIN placed THEN placed[row] ELSE told[row]]
  BY DEF Place
<1>2. PICK ls \in Placements(o) :
        LET placed == [row \in {o} \cup LinesOf[o] |-> IF row = o THEN PlacedHeader(tracking) ELSE ls[row]]
        IN  /\ order' = [order EXCEPT ![o] = placed[o]]
            /\ line' = [l \in Lines |-> IF l \in LinesOf[o] THEN placed[l] ELSE line[l]]
            /\ told' = [row \in Orders \cup Lines |-> IF row \in DOMAIN placed THEN placed[row] ELSE told[row]]
  BY <1>1
<1>3. \A l \in LinesOf[o] : l \in Lines /\ l # o
  BY LinesBelong
<1>4. PICK h : h = PlacedHeader(tracking)
  OBVIOUS
<1>5. /\ order' = [order EXCEPT ![o] = h]
      /\ line' = [l \in Lines |-> IF l \in LinesOf[o] THEN ls[l] ELSE line[l]]
  BY <1>2, <1>3, <1>4
<1>6. order'[o] = h /\ \A p \in Orders \ {o} : order'[p] = order[p]
  BY <1>5 DEF LifeInv, QuietInv, Inv, Typed, TypeOK
<1>7. CASE o \notin Quiet
  BY <1>5, <1>6, <1>7, Elsewhere, LinesBelong DEF Quiet
<1>8. CASE o \in Quiet
  <2>1. h \in Life!Announced
    BY <1>4 DEF PlacedHeader, Life!Announced
  <2>2. ls \in [LinesOf[o] -> Life!Pending \cup {None}] /\ \E l \in LinesOf[o] : ls[l] # None
    BY DEF Placements, NewLine, Life!Pending
  <2> DEFINE header == [p \in Quiet |-> order[p]]
             part == [l \in Life!Parts |-> line[l]]
  <2>3. header[o] = None
    BY <1>1, <1>8 DEF Placed
  <2>4. header' = [header EXCEPT ![o] = h]
    BY <1>6, <1>8 DEF Quiet
  <2>5. part' = [l \in Life!Parts |-> IF l \in LinesOf[o] THEN ls[l] ELSE part[l]]
    BY <1>5, QuietParts
  <2>6. \E g \in Life!Announced, ps \in [LinesOf[o] -> Life!Pending \cup {None}] :
          /\ header[o] = None
          /\ \E l \in LinesOf[o] : ps[l] # None
          /\ header' = [header EXCEPT ![o] = g]
          /\ part' = [l \in Life!Parts |-> IF l \in LinesOf[o] THEN ps[l] ELSE part[l]]
    <3> HIDE DEF header, part
    <3> QED
      BY <2>1, <2>2, <2>3, <2>4, <2>5
  <2>7. Life!Announce(o)
    BY <2>6, PartsAre DEF Life!Announce
  <2> QED
    BY <1>8, <2>7 DEF Life!Next
<1> QED
  BY <1>7, <1>8

LEMMA LifeStep == LifeInv /\ [Next]_vars => [Life!Next]_(Life!vars)
<1> SUFFICES ASSUME LifeInv, [Next]_vars PROVE [Life!Next]_(Life!vars)
  OBVIOUS
<1>1. CASE order' = order /\ line' = line
  BY <1>1, Elsewhere
<1>2. CASE order' # order
  BY <1>2, HeaderWriters, LifeOfPlace, LifeOfCommitOrder, LifeOfCommitArrival
<1>3. CASE line' # line
  BY <1>3, LineWriters, LifeOfPlace, LifeOfCommitArrival, LifeOfCommitAdd, LifeOfCommitLine,
     LifeOfCommitRemove
<1> QED
  BY <1>1, <1>2, <1>3

LEMMA LifeBegins == Init => Life!Init
<1> SUFFICES ASSUME Init PROVE Life!Init
  OBVIOUS
<1> DEFINE header == [p \in Quiet |-> order[p]]
           part == [l \in Life!Parts |-> line[l]]
<1>1. header \in [Quiet -> Life!Announced \cup {None}]
  BY DEF Init, Quiet, PlacedHeader, Life!Announced
<1>2. part \in [Life!Parts -> Life!Pending \cup {None}]
  BY QuietParts DEF Init, NewLine, Life!Pending
<1>3. \A o \in Quiet : header[o] # None <=> \E l \in LinesOf[o] : part[l] # None
  BY QuietParts DEF Init, Placed
<1> QED
  BY <1>1, <1>2, <1>3, PartsAre DEF Life!Init

-----------------------------------------------------------------------------
(* Handlers that load, check, SELECT and write in separate steps implement operations that
   happen at once, for the orders of which each row is worked on by one request at a time
   (Orders!OrdersHaveALife; order.service.ts:44-93, 202-219, 540-899). *)
THEOREM HasALife == Spec => OrdersHaveALife
<1> QED
  BY LifeInit, LifeNext, LifeBegins, LifeStep, PTL DEF Spec, OrdersHaveALife, Life!Spec
=============================================================================
