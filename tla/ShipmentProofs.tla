--------------------------- MODULE ShipmentProofs ---------------------------
(***************************************************************************)
(* Theorems about Shipments, for every set of lines, shipments and         *)
(* requests and all quantities.  Types, over-shipping, the checks under    *)
(* row locks and that requests never all wait hold whichever shipments     *)
(* have requests that overlap; that the stock matches the shipments, that  *)
(* nothing ships but via a locked shipment and that the stock is a Shelf,  *)
(* where the requests on one shipment come one at a time (Overlapping =    *)
(* {}): with two locks of one shipment at once, they fail.                 *)
(***************************************************************************)
EXTENDS Shipments, FiniteSetTheorems, TLAPS

-----------------------------------------------------------------------------
(* The stage a request is at tells what it has read. *)

LEMMA StageTyping ==
  ASSUME NEW t \in Tx
  PROVE  /\ t.at = "edit_items" => t \in EditingItems
         /\ t.at \in {"begin", "lines", "save"} => t \in Fulfilling
         /\ t.at \in {"edit_line", "save_line"} => t \in EditingLine
  BY DEF Tx, Fresh, Answered, EditingItems, Fulfilling, EditingLine

LEMMA GotoTyping ==
  ASSUME TypeOK, NEW r \in Requests, NEW t \in Tx, Goto(r, t)
  PROVE  /\ tx' \in [Requests -> Tx]
         /\ tx'[r] = t
         /\ \A q \in Requests \ {r} : tx'[q] = tx[q]
  BY DEF TypeOK, Goto

LEMMA AnswerTyping ==
  ASSUME TypeOK, NEW r \in Requests, Answer(r)
  PROVE  /\ tx' \in [Requests -> Tx]
         /\ tx'[r] = [at |-> "answered"]
         /\ \A q \in Requests \ {r} : tx'[q] = tx[q]
  <1>1. [at |-> "answered"] \in Tx
    BY DEF Tx, Answered
  <1>2. QED
    BY <1>1, GotoTyping DEF Answer

LEMMA LessTyping ==
  ASSUME NEW shipped \in Nat, NEW n \in Nat
  PROVE  Less(shipped, n) \in Nat /\ Less(shipped, n) <= shipped
  BY DEF Less

LEMMA Widening ==
  ASSUME NEW S, NEW T, NEW U, T \subseteq U, NEW f \in [S -> T]
  PROVE  f \in [S -> U]
  OBVIOUS

LEMMA ItemsAreQuantities ==
  ASSUME NEW list \in ItemLists
  PROVE  list \in [Lines -> Nat] /\ Drawn(list) \subseteq Lines
  <1>1. Qtys \cup {0} \subseteq Nat
    BY QtysAssumption
  <1>2. list \in [Lines -> Nat]
    BY <1>1, Widening DEF ItemLists
  <1>3. QED
    BY <1>2 DEF Drawn

LEMMA NothingTyping == Nothing \in [Lines -> Nat] /\ Nothing \in ItemLists
  BY DEF Nothing, ItemLists

-----------------------------------------------------------------------------
(* Type correctness.  A shipment that a request is locking or moving has a row, and
   shipments are never deleted: without this the row to save has no columns. *)

FulfilledExist ==
  \A r \in Requests : tx[r].at \in {"begin", "lines", "save"} => shipment[tx[r].shipment] # None

TypeInv == TypeOK /\ FulfilledExist

LEMMA InitTyping == Init => TypeOK
  <1> SUFFICES ASSUME Init PROVE TypeOK
    OBVIOUS
  <1>1. line \in [Lines -> Line]
    <2> DEFINE Fulls == [status: {"RECEIVED"}, qty: Qtys, shipped: {0}]
    <2>1. \A row \in Fulls : row \in Line
      <3>1. {"RECEIVED"} \subseteq LineStatus /\ Qtys \subseteq Nat /\ {0} \subseteq Nat
        BY QtysAssumption DEF LineStatus
      <3>2. QED
        BY <3>1 DEF Line
    <2>2. QED
      BY <2>1, Widening DEF Init
  <1>2. shipment \in [Shipments -> Header \cup {None}]
    <2>1. [status |-> "AWAITING", locked |-> FALSE] \in Header
      BY DEF Header, Status
    <2>2. QED
      BY <2>1 DEF Init
  <1>3. tx \in [Requests -> Tx]
    BY DEF Init, Tx, Fresh
  <1>4. QED
    BY <1>1, <1>2, <1>3 DEF Init, TypeOK

LEMMA FulfilTyping ==
  ASSUME TypeOK, NEW r \in Requests, NEW s \in Shipments, NEW entity \in Header,
         NEW effect \in {"take", "return", "none"}, BeginFulfil(r, s, entity, effect)
  PROVE  TypeOK'
  <1>1. Drawn(items[s]) \subseteq Lines
    BY DEF Drawn
  <1>2. [at |-> "begin", shipment |-> s, entity |-> entity, rows |-> Drawn(items[s]),
         effect |-> effect, want |-> Nothing, new |-> [l \in Lines |-> None], dirty |-> {}] \in Fulfilling
    BY <1>1, NothingTyping DEF Fulfilling
  <1>3. tx' \in [Requests -> Tx]
    BY <1>2, GotoTyping DEF BeginFulfil, Tx
  <1>4. QED
    BY <1>3 DEF BeginFulfil, TypeOK

LEMMA BeginTyping ==
  ASSUME TypeOK, NEW r \in Requests, Begin(r)
  PROVE  TypeOK'
  <1>1. ASSUME Place(r) PROVE TypeOK'
    <2>1. PICK s \in Shipments, want \in ItemLists :
            /\ shipment' = [shipment EXCEPT ![s] = [status |-> "AWAITING", locked |-> FALSE]]
            /\ items' = [items EXCEPT ![s] = want]
      BY <1>1 DEF Place
    <2>2. shipment' \in [Shipments -> Header \cup {None}]
      BY <2>1 DEF TypeOK, Header, Status
    <2>3. items' \in [Shipments -> ItemLists]
      BY <2>1 DEF TypeOK
    <2>4. tx' \in [Requests -> Tx]
      BY <1>1, AnswerTyping DEF Place
    <2>5. QED
      BY <1>1, <2>2, <2>3, <2>4 DEF Place, TypeOK
  <1>2. ASSUME BeginEditItems(r) PROVE TypeOK'
    <2>1. PICK s \in Shipments : Goto(r, [at |-> "edit_items", shipment |-> s])
      BY <1>2 DEF BeginEditItems
    <2>2. [at |-> "edit_items", shipment |-> s] \in Tx
      BY DEF Tx, EditingItems
    <2>3. QED
      BY <1>2, <2>1, <2>2, GotoTyping DEF BeginEditItems, TypeOK
  <1>3. ASSUME BeginLock(r) PROVE TypeOK'
    <2>1. PICK s \in Shipments :
            Placed(s) /\ BeginFulfil(r, s, [shipment[s] EXCEPT !.locked = TRUE], "take")
      BY <1>3 DEF BeginLock
    <2>2. [shipment[s] EXCEPT !.locked = TRUE] \in Header
      BY <2>1 DEF TypeOK, Placed, Header
    <2>3. QED
      BY <2>1, <2>2, FulfilTyping
  <1>4. ASSUME BeginMove(r) PROVE TypeOK'
    <2>1. PICK s \in Shipments :
            /\ Placed(s)
            /\ \E status \in Allowed(shipment[s]) \ {shipment[s].status} :
                 BeginFulfil(r, s, [shipment[s] EXCEPT !.status = status], Effect(shipment[s], status))
      BY <1>4 DEF BeginMove
    <2>2. PICK status \in Allowed(shipment[s]) :
            BeginFulfil(r, s, [shipment[s] EXCEPT !.status = status], Effect(shipment[s], status))
      BY <2>1
    <2>3. status \in Status
      BY DEF Allowed, Status
    <2>4. [shipment[s] EXCEPT !.status = status] \in Header
      BY <2>1, <2>3 DEF TypeOK, Placed, Header
    <2>5. Effect(shipment[s], status) \in {"take", "return", "none"}
      BY DEF Effect
    <2>6. QED
      BY <2>2, <2>4, <2>5, FulfilTyping
  <1>5. ASSUME LoadLine(r) PROVE TypeOK'
    <2>1. PICK l \in EditedLines :
            \E entity \in {[line[l] EXCEPT !.qty = q] : q \in {n \in Qtys : line[l].status # "CANCELLED"}}
                            \cup {[line[l] EXCEPT !.status = st] : st \in Receipts(line[l].status)} :
              Goto(r, [at |-> "edit_line", line |-> l, entity |-> entity, dirty |-> {}])
      BY <1>5 DEF LoadLine
    <2>2. line[l] \in Line
      BY LinesAssumption DEF TypeOK
    <2>3. Receipts(line[l].status) \subseteq LineStatus
      BY DEF Receipts, LineStatus
    <2>4. PICK entity \in Line :
            Goto(r, [at |-> "edit_line", line |-> l, entity |-> entity, dirty |-> {}])
      BY <2>1, <2>2, <2>3, QtysAssumption DEF Line
    <2>5. [at |-> "edit_line", line |-> l, entity |-> entity, dirty |-> {}] \in Tx
      BY DEF Tx, EditingLine
    <2>6. QED
      BY <1>5, <2>4, <2>5, GotoTyping DEF LoadLine, TypeOK
  <1>6. QED
    BY <1>1, <1>2, <1>3, <1>4, <1>5 DEF Begin

LEMMA RollBackTyping ==
  ASSUME TypeOK, NEW r \in Requests, RollBack(r)
  PROVE  TypeOK'
  <1>1. Release(r) \in [Lines -> Requests \cup {None}]
    BY DEF TypeOK, Release
  <1>2. QED
    BY <1>1, AnswerTyping DEF RollBack, TypeOK

LEMMA LockedLineTyping ==
  ASSUME TypeOK, NEW r \in Requests, tx[r] \in Fulfilling, NEW l \in Lines, NEW n \in Nat,
         rowLock' = Hold(l, r), Goto(r, [tx[r] EXCEPT !.new[l] = n]),
         UNCHANGED <<line, shipment, items>>
  PROVE  TypeOK'
  <1> DEFINE t == [tx[r] EXCEPT !.new[l] = n]
  <1>1. t \in Fulfilling
    BY DEF Fulfilling
  <1>2. Goto(r, t)
    OBVIOUS
  <1> HIDE DEF t
  <1>3. tx' \in [Requests -> Tx]
    BY <1>1, <1>2, GotoTyping DEF Tx
  <1>4. rowLock' \in [Lines -> Requests \cup {None}]
    BY DEF Hold, TypeOK
  <1>5. QED
    BY <1>3, <1>4 DEF TypeOK

LEMMA CommitShipmentTyping ==
  ASSUME TypeInv, NEW r \in Requests, CommitShipment(r)
  PROVE  TypeOK' /\ (\A s \in Shipments : shipment[s] # None => shipment'[s] # None)
  <1> USE DEF TypeInv
  <1>1. tx[r] \in Fulfilling
    BY StageTyping DEF CommitShipment, TypeOK
  <1>2. line' \in [Lines -> Line]
    <2>1. ASSUME NEW l \in Lines PROVE Restocked(r)[l] \in Line
      <3>1. line[l] \in Line /\ tx[r].new[l] \in Nat \cup {None}
        BY <1>1 DEF TypeOK, Fulfilling
      <3>2. QED
        BY <3>1 DEF Restocked, Line
    <2>2. QED
      BY <2>1 DEF CommitShipment, Restocked
  <1>3. /\ shipment' \in [Shipments -> Header \cup {None}]
        /\ \A s \in Shipments : shipment[s] # None => shipment'[s] # None
    <2>1. tx[r].shipment \in Shipments /\ tx[r].entity \in Header
      BY <1>1 DEF Fulfilling
    <2>2. shipment[tx[r].shipment] \in Header
      BY <2>1 DEF CommitShipment, TypeOK, FulfilledExist
    <2>3. Written(shipment[tx[r].shipment], tx[r].entity, tx[r].dirty) \in Header
      BY <2>1, <2>2 DEF Written, Header
    <2>4. QED
      BY <2>1, <2>3, NoneAssumption DEF CommitShipment, TypeOK
  <1>4. rowLock' \in [Lines -> Requests \cup {None}]
    BY DEF CommitShipment, Release, TypeOK
  <1>5. QED
    BY <1>2, <1>3, <1>4, AnswerTyping DEF CommitShipment, TypeOK

LEMMA ContinueTyping ==
  ASSUME TypeInv, NEW r \in Requests, Continue(r)
  PROVE  TypeOK'
  <1> USE DEF TypeInv
  <1> tx[r] \in Tx
    BY DEF TypeOK
  <1>1. ASSUME CommitEditItems(r) PROVE TypeOK'
    <2>1. tx[r].shipment \in Shipments
      BY <1>1, StageTyping DEF CommitEditItems, EditingItems
    <2>2. items' \in [Shipments -> ItemLists]
      BY <1>1, <2>1 DEF CommitEditItems, TypeOK
    <2>3. QED
      BY <1>1, <2>2, AnswerTyping DEF CommitEditItems, TypeOK
  <1>2. ASSUME ReadItems(r) PROVE TypeOK'
    <2> DEFINE t == [tx[r] EXCEPT !.at = "lines",
                        !.want = IF tx[r].effect = "none" THEN Nothing ELSE items[tx[r].shipment]]
    <2>1. tx[r] \in Fulfilling
      BY <1>2, StageTyping DEF ReadItems
    <2>2. items[tx[r].shipment] \in [Lines -> Nat]
      BY <2>1, ItemsAreQuantities DEF TypeOK, Fulfilling
    <2>3. t \in Fulfilling
      BY <2>1, <2>2, NothingTyping DEF Fulfilling
    <2>4. Goto(r, t)
      BY <1>2 DEF ReadItems
    <2> HIDE DEF t
    <2>5. tx' \in [Requests -> Tx]
      BY <2>3, <2>4, GotoTyping DEF Tx
    <2>6. QED
      BY <1>2, <2>5 DEF ReadItems, TypeOK
  <1>3. ASSUME TakeLine(r) PROVE TypeOK'
    <2>1. PICK l \in ToLock(r) :
            /\ rowLock' = Hold(l, r)
            /\ Goto(r, [tx[r] EXCEPT !.new[l] = line[l].shipped + tx[r].want[l]])
      BY <1>3 DEF TakeLine
    <2>2. tx[r] \in Fulfilling /\ l \in Lines
      BY <1>3, <2>1, StageTyping DEF TakeLine, ToLock, Drawn
    <2>3. line[l].shipped + tx[r].want[l] \in Nat
      BY <2>2 DEF TypeOK, Line, Fulfilling
    <2>4. QED
      BY <1>3, <2>1, <2>2, <2>3, LockedLineTyping DEF TakeLine
  <1>4. ASSUME ReturnLine(r) PROVE TypeOK'
    <2>1. PICK l \in ToLock(r) :
            /\ rowLock' = Hold(l, r)
            /\ Goto(r, [tx[r] EXCEPT !.new[l] = Less(line[l].shipped, tx[r].want[l])])
      BY <1>4 DEF ReturnLine
    <2>2. tx[r] \in Fulfilling /\ l \in Lines
      BY <1>4, <2>1, StageTyping DEF ReturnLine, ToLock, Drawn
    <2>3. line[l].shipped \in Nat /\ tx[r].want[l] \in Nat
      BY <2>2 DEF TypeOK, Line, Fulfilling
    <2>4. Less(line[l].shipped, tx[r].want[l]) \in Nat
      BY <2>3, LessTyping
    <2>5. QED
      BY <1>4, <2>1, <2>2, <2>4, LockedLineTyping DEF ReturnLine
  <1>5. ASSUME SelectShipment(r) PROVE TypeOK'
    <2> DEFINE t == [tx[r] EXCEPT !.at = "save", !.dirty = Dirty(tx[r].entity, shipment[tx[r].shipment])]
    <2>1. tx[r] \in Fulfilling
      BY <1>5, StageTyping DEF SelectShipment
    <2>2. Dirty(tx[r].entity, shipment[tx[r].shipment]) \subseteq Columns
      BY DEF Dirty
    <2>3. t \in Fulfilling
      BY <2>1, <2>2 DEF Fulfilling
    <2>4. Goto(r, t)
      BY <1>5 DEF SelectShipment
    <2> HIDE DEF t
    <2>5. tx' \in [Requests -> Tx]
      BY <2>3, <2>4, GotoTyping DEF Tx
    <2>6. QED
      BY <1>5, <2>5 DEF SelectShipment, TypeOK
  <1>6. ASSUME CommitShipment(r) PROVE TypeOK'
    BY <1>6, CommitShipmentTyping
  <1>7. ASSUME SelectLine(r) PROVE TypeOK'
    <2> DEFINE t == [tx[r] EXCEPT !.at = "save_line", !.dirty = DirtyLine(tx[r].entity, line[tx[r].line])]
    <2>1. tx[r] \in EditingLine
      BY <1>7, StageTyping DEF SelectLine
    <2>2. DirtyLine(tx[r].entity, line[tx[r].line]) \subseteq LineColumns
      BY DEF DirtyLine
    <2>3. t \in EditingLine
      BY <2>1, <2>2 DEF EditingLine
    <2>4. Goto(r, t)
      BY <1>7 DEF SelectLine
    <2> HIDE DEF t
    <2>5. tx' \in [Requests -> Tx]
      BY <2>3, <2>4, GotoTyping DEF Tx
    <2>6. QED
      BY <1>7, <2>5 DEF SelectLine, TypeOK
  <1>8. ASSUME SaveLine(r) PROVE TypeOK'
    <2>1. tx[r].line \in Lines /\ tx[r].entity \in Line
      BY <1>8, StageTyping, LinesAssumption DEF SaveLine, EditingLine
    <2>2. WrittenLine(line[tx[r].line], tx[r].entity, tx[r].dirty) \in Line
      BY <2>1 DEF WrittenLine, Line, TypeOK
    <2>3. line' \in [Lines -> Line]
      BY <1>8, <2>1, <2>2 DEF SaveLine, TypeOK
    <2>4. QED
      BY <1>8, <2>3, AnswerTyping DEF SaveLine, TypeOK
  <1>9. ASSUME Refuse(r) \/ AbortDeadlock(r) PROVE TypeOK'
    BY <1>9, RollBackTyping DEF Refuse, AbortDeadlock
  <1>10. QED
    BY <1>1, <1>2, <1>3, <1>4, <1>5, <1>6, <1>7, <1>8, <1>9 DEF Continue

LEMMA StageOfAnswered == [at |-> "answered"].at \notin {"begin", "lines", "save"}
  OBVIOUS

\* Only a request that begins to fulfil a shipment, which has a row, takes one on.
LEMMA FulfilledKept ==
  ASSUME TypeInv, TypeOK', NEW r \in Requests, \A q \in Requests \ {r} : tx'[q] = tx[q],
         \A s \in Shipments : shipment[s] # None => shipment'[s] # None,
         tx'[r].at \in {"begin", "lines", "save"} => shipment[tx'[r].shipment] # None
  PROVE  FulfilledExist'
  <1> SUFFICES ASSUME NEW q \in Requests, tx'[q].at \in {"begin", "lines", "save"}
               PROVE  shipment'[tx'[q].shipment] # None
    BY DEF FulfilledExist
  <1>1. tx'[q].shipment \in Shipments
    BY StageTyping DEF TypeOK, Fulfilling
  <1>2. CASE q = r
    BY <1>1, <1>2
  <1>3. CASE q # r
    BY <1>1, <1>3 DEF TypeInv, FulfilledExist
  <1>4. QED
    BY <1>2, <1>3

LEMMA StepKeepsFulfilled ==
  ASSUME TypeInv, TypeOK', NEW r \in Requests, Begin(r) \/ Continue(r) \/ Fail(r)
  PROVE  FulfilledExist'
  <1> USE DEF TypeInv
  <1> tx[r] \in Tx
    BY DEF TypeOK
  <1> DEFINE Same == \A q \in Requests \ {r} : tx'[q] = tx[q]
             Kept == \A s \in Shipments : shipment[s] # None => shipment'[s] # None
             Here == tx'[r].at \in {"begin", "lines", "save"} => shipment[tx'[r].shipment] # None
  <1>1. CASE Place(r) \/ CommitEditItems(r) \/ SaveLine(r) \/ RollBack(r)
    <2>1. Answer(r)
      BY <1>1 DEF Place, CommitEditItems, SaveLine, RollBack
    <2>2. Same /\ Here
      BY <2>1, AnswerTyping, StageOfAnswered
    <2>3. Kept
      <3>1. CASE Place(r)
        <4>1. PICK s \in Shipments :
                shipment' = [shipment EXCEPT ![s] = [status |-> "AWAITING", locked |-> FALSE]]
          BY <3>1 DEF Place
        <4>2. [status |-> "AWAITING", locked |-> FALSE] \in Header
          BY DEF Header, Status
        <4>3. QED
          BY <4>1, <4>2, NoneAssumption DEF TypeOK
      <3>2. CASE UNCHANGED shipment
        BY <3>2
      <3>3. QED
        BY <1>1, <3>1, <3>2 DEF CommitEditItems, SaveLine, RollBack
    <2>4. QED
      BY <2>2, <2>3, FulfilledKept
  <1>2. CASE CommitShipment(r)
    <2>1. Same /\ Here
      BY <1>2, AnswerTyping, StageOfAnswered DEF CommitShipment
    <2>2. Kept
      BY <1>2, CommitShipmentTyping
    <2>3. QED
      BY <2>1, <2>2, FulfilledKept
  <1>3. CASE BeginEditItems(r) \/ LoadLine(r) \/ SelectLine(r)
    <2>1. Kept /\ Same
      BY <1>3 DEF BeginEditItems, LoadLine, SelectLine, Goto, TypeOK
    <2>2. tx'[r].at \notin {"begin", "lines", "save"}
      <3>1. CASE BeginEditItems(r)
        BY <3>1 DEF BeginEditItems, Goto, TypeOK
      <3>2. CASE LoadLine(r)
        BY <3>2 DEF LoadLine, Goto, TypeOK
      <3>3. CASE SelectLine(r)
        BY <3>3, StageTyping DEF SelectLine, Goto, TypeOK, EditingLine
      <3>4. QED
        BY <1>3, <3>1, <3>2, <3>3
    <2>3. QED
      BY <2>1, <2>2, FulfilledKept
  <1>4. CASE BeginLock(r) \/ BeginMove(r)
    <2>1. PICK s \in Shipments : \E entity, effect : BeginFulfil(r, s, entity, effect)
      BY <1>4 DEF BeginLock, BeginMove
    <2>2. Kept /\ Same /\ Here
      BY <2>1 DEF BeginFulfil, Goto, Placed, TypeOK
    <2>3. QED
      BY <2>2, FulfilledKept
  <1>5. CASE ReadItems(r) \/ TakeLine(r) \/ ReturnLine(r) \/ SelectShipment(r)
    <2>1. tx[r].at \in {"begin", "lines"} /\ tx[r] \in Fulfilling
      BY <1>5, StageTyping DEF ReadItems, TakeLine, ReturnLine, SelectShipment
    <2>2. tx'[r].shipment = tx[r].shipment
      <3>1. CASE ReadItems(r)
        BY <2>1, <3>1 DEF ReadItems, Goto, TypeOK, Fulfilling
      <3>2. CASE TakeLine(r)
        BY <2>1, <3>2 DEF TakeLine, Goto, TypeOK, Fulfilling
      <3>3. CASE ReturnLine(r)
        BY <2>1, <3>3 DEF ReturnLine, Goto, TypeOK, Fulfilling
      <3>4. CASE SelectShipment(r)
        BY <2>1, <3>4 DEF SelectShipment, Goto, TypeOK, Fulfilling
      <3>5. QED
        BY <1>5, <3>1, <3>2, <3>3, <3>4
    <2>3. Kept /\ Same
      BY <1>5 DEF ReadItems, TakeLine, ReturnLine, SelectShipment, Goto, TypeOK
    <2>4. Here
      BY <2>1, <2>2 DEF FulfilledExist
    <2>5. QED
      BY <2>3, <2>4, FulfilledKept
  <1>6. QED
    BY <1>1, <1>2, <1>3, <1>4, <1>5 DEF Begin, Continue, Fail, Refuse, AbortDeadlock

LEMMA TypesHold == Spec => []TypeInv
  <1>1. Init => TypeInv
    BY InitTyping DEF TypeInv, FulfilledExist, Init
  <1>2. ASSUME TypeInv, [Next]_vars PROVE TypeInv'
    <2>1. ASSUME NEW r \in Requests, Begin(r) \/ Continue(r) \/ Fail(r) PROVE TypeInv'
      <3>1. TypeOK'
        BY <1>2, <2>1, BeginTyping, ContinueTyping, RollBackTyping DEF Fail, TypeInv
      <3>2. QED
        BY <1>2, <2>1, <3>1, StepKeepsFulfilled DEF TypeInv
    <2>2. CASE UNCHANGED vars
      BY <1>2, <2>2 DEF vars, TypeInv, TypeOK, FulfilledExist
    <2>3. QED
      BY <1>2, <2>1, <2>2 DEF Next
  <1>3. QED
    BY <1>1, <1>2, PTL DEF Spec

\* Types of the rows, of the row locks and of what each request holds.
THEOREM TypeCorrect == Spec => []TypeOK
  <1>1. TypeInv => TypeOK
    BY DEF TypeInv
  <1>2. QED
    BY TypesHold, <1>1, PTL

-----------------------------------------------------------------------------
(* Stock.  A line a request has locked keeps the value the request read until the
   request writes it: nobody else writes a line they do not hold.  So what was checked
   under the lock is still true of the row when COMMIT writes it. *)

NothingLockedYet ==
  \A r \in Requests : tx[r].at = "begin" => \A l \in Lines : tx[r].new[l] = None

StockInv == TypeInv /\ NothingLockedYet /\ LockedLinesStand /\ NeverOverShipped

LEMMA InitStock == Init => NothingLockedYet /\ LockedLinesStand /\ NeverOverShipped
  <1> SUFFICES ASSUME Init PROVE NothingLockedYet /\ LockedLinesStand /\ NeverOverShipped
    OBVIOUS
  <1>0. NothingLockedYet
    BY DEF Init, NothingLockedYet
  <1>1. LockedLinesStand
    BY DEF Init, LockedLinesStand
  <1>2. NeverOverShipped
    <2>1. \A l \in Lines : line[l].shipped = 0 /\ line[l].qty \in Nat
      BY QtysAssumption DEF Init
    <2>2. QED
      BY <2>1 DEF NeverOverShipped, SteadyLines
  <1>3. QED
    BY <1>0, <1>1, <1>2

LEMMA OthersStand ==
  ASSUME StockInv, NEW r \in Requests, \A q \in Requests \ {r} : tx'[q] = tx[q],
         \A l \in Lines : rowLock[l] \notin {None, r} => rowLock'[l] = rowLock[l] /\ line'[l] = line[l],
         tx'[r].at \in {"lines", "save"} =>
           \A l \in Lines : tx'[r].new[l] # None => LineStands(r, l)'
  PROVE  LockedLinesStand'
  <1> SUFFICES ASSUME NEW q \in Requests, tx'[q].at \in {"lines", "save"},
                      NEW l \in Lines, tx'[q].new[l] # None
               PROVE  LineStands(q, l)'
    BY DEF LockedLinesStand
  <1>1. CASE q = r
    BY <1>1
  <1>2. CASE q # r
    <2>1. tx'[q] = tx[q]
      BY <1>2
    <2>2. LineStands(q, l)
      BY <2>1 DEF StockInv, LockedLinesStand
    <2>3. rowLock'[l] = q /\ line'[l] = line[l]
      BY <1>2, <2>2, NoneAssumption DEF LineStands
    <2>4. QED
      BY <2>1, <2>2, <2>3 DEF LineStands, Takes, Less
  <1>3. QED
    BY <1>1, <1>2

\* A step that touches no line and no lock, of a request that has locked none or keeps
\* what it has locked.
LEMMA QuietStock ==
  ASSUME StockInv, NEW r \in Requests, UNCHANGED <<line, rowLock>>,
         \A q \in Requests \ {r} : tx'[q] = tx[q],
         tx'[r].at \in {"lines", "save"} =>
           \/ \A l \in Lines : tx'[r].new[l] = None
           \/ /\ tx[r].at \in {"lines", "save"}
              /\ tx'[r].new = tx[r].new /\ tx'[r].want = tx[r].want /\ tx'[r].effect = tx[r].effect
  PROVE  LockedLinesStand' /\ NeverOverShipped'
  <1>1. tx'[r].at \in {"lines", "save"} =>
          \A l \in Lines : tx'[r].new[l] # None => LineStands(r, l)'
    <2> SUFFICES ASSUME tx'[r].at \in {"lines", "save"}, NEW l \in Lines, tx'[r].new[l] # None
                 PROVE  LineStands(r, l)'
      OBVIOUS
    <2>1. LineStands(r, l)
      BY DEF StockInv, LockedLinesStand
    <2>2. QED
      BY <2>1 DEF LineStands, Takes, Less
  <1>2. LockedLinesStand'
    BY <1>1, OthersStand
  <1>3. NeverOverShipped'
    BY DEF StockInv, NeverOverShipped, SteadyLines
  <1>4. QED
    BY <1>2, <1>3

\* A request that is answered holds nothing.
LEMMA AnsweredStock ==
  ASSUME StockInv, NEW r \in Requests, Answer(r), UNCHANGED line,
         rowLock' \in {rowLock, Release(r)}
  PROVE  LockedLinesStand' /\ NeverOverShipped'
  <1>1. tx'[r].at = "answered" /\ \A q \in Requests \ {r} : tx'[q] = tx[q]
    BY AnswerTyping DEF StockInv, TypeInv
  <1>2. \A l \in Lines : rowLock[l] \notin {None, r} => rowLock'[l] = rowLock[l]
    BY DEF Release
  <1>3. LockedLinesStand'
    BY <1>1, <1>2, OthersStand
  <1>4. NeverOverShipped'
    BY DEF StockInv, NeverOverShipped, SteadyLines
  <1>5. QED
    BY <1>3, <1>4

\* A line joins the ones a request has locked: it was free, so nobody else's stands on it.
LEMMA LockingStock ==
  ASSUME StockInv, NEW r \in Requests, NEW l \in Lines, NEW n \in Nat,
         tx[r].at = "lines", Unlocked(l), rowLock' = Hold(l, r), UNCHANGED line,
         Goto(r, [tx[r] EXCEPT !.new[l] = n]),
         IF tx[r].effect = "take"
         THEN Takes(l, tx[r].want[l]) /\ n = line[l].shipped + tx[r].want[l]
         ELSE n = Less(line[l].shipped, tx[r].want[l])
  PROVE  LockedLinesStand' /\ NeverOverShipped'
  <1> USE DEF StockInv, TypeInv
  <1>1. tx[r] \in Fulfilling
    BY StageTyping DEF TypeOK
  <1>2. tx'[r] = [tx[r] EXCEPT !.new[l] = n] /\ \A q \in Requests \ {r} : tx'[q] = tx[q]
    BY DEF Goto, TypeOK
  <1>3. rowLock'[l] = r /\ \A k \in Lines \ {l} : rowLock'[k] = rowLock[k]
    BY DEF Hold, TypeOK
  <1>4. ASSUME NEW k \in Lines, tx'[r].new[k] # None PROVE LineStands(r, k)'
    <2>1. /\ tx'[r].effect = tx[r].effect /\ tx'[r].want = tx[r].want
          /\ tx'[r].new[l] = n
          /\ k # l => tx'[r].new[k] = tx[r].new[k]
      BY <1>1, <1>2 DEF Fulfilling
    <2>2. CASE k = l
      BY <1>3, <2>1, <2>2 DEF LineStands, Takes, Less
    <2>3. CASE k # l
      <3>1. LineStands(r, k)
        BY <1>4, <2>1, <2>3 DEF LockedLinesStand
      <3>2. QED
        BY <1>3, <2>1, <2>3, <3>1 DEF LineStands, Takes, Less
    <2>4. QED
      BY <2>2, <2>3
  <1>5. \A k \in Lines : rowLock[k] \notin {None, r} => rowLock'[k] = rowLock[k]
    BY <1>3 DEF Unlocked
  <1>6. LockedLinesStand'
    BY <1>2, <1>4, <1>5, OthersStand
  <1>7. NeverOverShipped'
    BY DEF NeverOverShipped, SteadyLines
  <1>8. QED
    BY <1>6, <1>7

LEMMA BeginStock ==
  ASSUME StockInv, NEW r \in Requests, Begin(r)
  PROVE  LockedLinesStand' /\ NeverOverShipped'
  <1> USE DEF StockInv, TypeInv
  <1>1. CASE Place(r)
    BY <1>1, AnsweredStock DEF Place
  <1>2. CASE BeginEditItems(r) \/ LoadLine(r)
    <2>1. UNCHANGED <<line, rowLock>> /\ \A q \in Requests \ {r} : tx'[q] = tx[q]
      BY <1>2 DEF BeginEditItems, LoadLine, Goto, TypeOK
    <2>2. tx'[r].at \notin {"lines", "save"}
      BY <1>2 DEF BeginEditItems, LoadLine, Goto, TypeOK
    <2>3. QED
      BY <2>1, <2>2, QuietStock
  <1>3. CASE BeginLock(r) \/ BeginMove(r)
    <2>1. PICK s \in Shipments : \E entity, effect : BeginFulfil(r, s, entity, effect)
      BY <1>3 DEF BeginLock, BeginMove
    <2>2. /\ UNCHANGED <<line, rowLock>>
          /\ \A q \in Requests \ {r} : tx'[q] = tx[q]
          /\ tx'[r].at = "begin"
      BY <2>1 DEF BeginFulfil, Goto, TypeOK
    <2>3. QED
      BY <2>2, QuietStock
  <1>4. QED
    BY <1>1, <1>2, <1>3 DEF Begin

LEMMA CommitShipmentStock ==
  ASSUME StockInv, NEW r \in Requests, CommitShipment(r)
  PROVE  LockedLinesStand' /\ NeverOverShipped'
  <1> USE DEF StockInv, TypeInv
  <1>1. tx[r].at = "save" /\ tx[r] \in Fulfilling
    BY StageTyping DEF CommitShipment, TypeOK
  <1>2. \A l \in Lines : line'[l] = IF tx[r].new[l] = None THEN line[l]
                                     ELSE [line[l] EXCEPT !.shipped = tx[r].new[l]]
    BY DEF CommitShipment, Restocked
  <1>3. \A l \in Lines : tx[r].new[l] # None => LineStands(r, l)
    BY <1>1 DEF LockedLinesStand
  <1>4. LockedLinesStand'
    <2>1. \A l \in Lines : rowLock[l] \notin {None, r} => rowLock'[l] = rowLock[l]
      BY DEF CommitShipment, Release
    <2>2. \A l \in Lines : rowLock[l] \notin {None, r} => line'[l] = line[l]
      BY <1>2, <1>3 DEF LineStands
    <2>3. tx'[r].at = "answered" /\ \A q \in Requests \ {r} : tx'[q] = tx[q]
      BY AnswerTyping DEF CommitShipment
    <2>4. QED
      BY <2>1, <2>2, <2>3, OthersStand
  <1>5. NeverOverShipped'
    <2> SUFFICES ASSUME NEW l \in SteadyLines PROVE line'[l].shipped <= line'[l].qty
      BY DEF NeverOverShipped
    <2>1. l \in Lines /\ line[l] \in Line /\ line[l].shipped <= line[l].qty
      BY DEF SteadyLines, NeverOverShipped, TypeOK
    <2>2. CASE tx[r].new[l] = None
      BY <1>2, <2>1, <2>2
    <2>3. CASE tx[r].new[l] # None
      <3>1. line'[l].shipped = tx[r].new[l] /\ line'[l].qty = line[l].qty
        BY <1>2, <2>1, <2>3 DEF Line
      <3>2. LineStands(r, l)
        BY <1>3, <2>1, <2>3
      <3>3. CASE tx[r].effect = "take"
        BY <3>1, <3>2, <3>3 DEF LineStands, Takes
      <3>4. CASE tx[r].effect # "take"
        <4>1. line[l].shipped \in Nat /\ line[l].qty \in Nat /\ tx[r].want[l] \in Nat
          BY <1>1, <2>1 DEF Line, Fulfilling
        <4>2. Less(line[l].shipped, tx[r].want[l]) \in Nat
              /\ Less(line[l].shipped, tx[r].want[l]) <= line[l].shipped
          BY <4>1, LessTyping
        <4>3. line'[l].shipped = Less(line[l].shipped, tx[r].want[l])
          BY <3>1, <3>2, <3>4 DEF LineStands
        <4>4. QED
          BY <2>1, <3>1, <4>1, <4>2, <4>3
      <3>5. QED
        BY <3>3, <3>4
    <2>4. QED
      BY <2>2, <2>3
  <1>6. QED
    BY <1>4, <1>5

LEMMA SaveLineStock ==
  ASSUME StockInv, NEW r \in Requests, SaveLine(r)
  PROVE  LockedLinesStand' /\ NeverOverShipped'
  <1> USE DEF StockInv, TypeInv
  <1>1. tx[r].line \in EditedLines /\ rowLock[tx[r].line] = None
    BY StageTyping DEF SaveLine, TypeOK, EditingLine, Unlocked
  <1>2. rowLock' = rowLock /\ \A l \in Lines \ {tx[r].line} : line'[l] = line[l]
    BY DEF SaveLine, TypeOK
  <1>3. tx'[r].at = "answered" /\ \A q \in Requests \ {r} : tx'[q] = tx[q]
    BY AnswerTyping DEF SaveLine
  <1>4. LockedLinesStand'
    BY <1>1, <1>2, <1>3, OthersStand
  <1>5. NeverOverShipped'
    BY <1>1, <1>2 DEF NeverOverShipped, SteadyLines
  <1>6. QED
    BY <1>4, <1>5

LEMMA ContinueStock ==
  ASSUME StockInv, NEW r \in Requests, Continue(r)
  PROVE  LockedLinesStand' /\ NeverOverShipped'
  <1> USE DEF StockInv, TypeInv
  <1> tx[r] \in Tx
    BY DEF TypeOK
  <1>1. CASE CommitEditItems(r)
    BY <1>1, AnsweredStock DEF CommitEditItems
  <1>2. CASE ReadItems(r)
    <2>1. tx[r] \in Fulfilling /\ tx[r].at = "begin"
      BY <1>2, StageTyping DEF ReadItems
    <2>2. tx'[r].new = tx[r].new
      BY <1>2, <2>1 DEF ReadItems, Goto, TypeOK, Fulfilling
    <2>3. \A l \in Lines : tx[r].new[l] = None
      BY <2>1 DEF NothingLockedYet
    <2>4. UNCHANGED <<line, rowLock>> /\ \A q \in Requests \ {r} : tx'[q] = tx[q]
      BY <1>2 DEF ReadItems, Goto, TypeOK
    <2>5. QED
      BY <2>2, <2>3, <2>4, QuietStock
  <1>3. CASE TakeLine(r)
    <2>1. PICK l \in ToLock(r) :
            /\ Unlocked(l) /\ Takes(l, tx[r].want[l])
            /\ rowLock' = Hold(l, r)
            /\ Goto(r, [tx[r] EXCEPT !.new[l] = line[l].shipped + tx[r].want[l]])
      BY <1>3 DEF TakeLine
    <2>2. tx[r] \in Fulfilling /\ l \in Lines
      BY <1>3, <2>1, StageTyping DEF TakeLine, ToLock, Drawn
    <2>3. line[l].shipped + tx[r].want[l] \in Nat
      BY <2>2 DEF TypeOK, Line, Fulfilling
    <2>4. QED
      BY <1>3, <2>1, <2>2, <2>3, LockingStock DEF TakeLine
  <1>4. CASE ReturnLine(r)
    <2>1. PICK l \in ToLock(r) :
            /\ Unlocked(l)
            /\ rowLock' = Hold(l, r)
            /\ Goto(r, [tx[r] EXCEPT !.new[l] = Less(line[l].shipped, tx[r].want[l])])
      BY <1>4 DEF ReturnLine
    <2>2. tx[r] \in Fulfilling /\ l \in Lines
      BY <1>4, <2>1, StageTyping DEF ReturnLine, ToLock, Drawn
    <2>3. line[l].shipped \in Nat /\ tx[r].want[l] \in Nat
      BY <2>2 DEF TypeOK, Line, Fulfilling
    <2>4. Less(line[l].shipped, tx[r].want[l]) \in Nat
      BY <2>3, LessTyping
    <2>5. QED
      BY <1>4, <2>1, <2>2, <2>4, LockingStock DEF ReturnLine
  <1>5. CASE SelectShipment(r)
    <2>1. tx[r] \in Fulfilling /\ tx[r].at = "lines"
      BY <1>5, StageTyping DEF SelectShipment
    <2>2. tx'[r].new = tx[r].new /\ tx'[r].want = tx[r].want /\ tx'[r].effect = tx[r].effect
      BY <1>5, <2>1 DEF SelectShipment, Goto, TypeOK, Fulfilling
    <2>3. UNCHANGED <<line, rowLock>> /\ \A q \in Requests \ {r} : tx'[q] = tx[q]
      BY <1>5 DEF SelectShipment, Goto, TypeOK
    <2>4. QED
      BY <2>1, <2>2, <2>3, QuietStock
  <1>6. CASE CommitShipment(r)
    BY <1>6, CommitShipmentStock
  <1>7. CASE SelectLine(r)
    <2>1. tx[r] \in EditingLine
      BY <1>7, StageTyping DEF SelectLine
    <2>2. tx'[r].at = "save_line"
      BY <1>7, <2>1 DEF SelectLine, Goto, TypeOK, EditingLine
    <2>3. UNCHANGED <<line, rowLock>> /\ \A q \in Requests \ {r} : tx'[q] = tx[q]
      BY <1>7 DEF SelectLine, Goto, TypeOK
    <2>4. QED
      BY <2>2, <2>3, QuietStock
  <1>8. CASE SaveLine(r)
    BY <1>8, SaveLineStock
  <1>9. CASE Refuse(r) \/ AbortDeadlock(r)
    BY <1>9, AnsweredStock DEF Refuse, AbortDeadlock, RollBack
  <1>10. QED
    BY <1>1, <1>2, <1>3, <1>4, <1>5, <1>6, <1>7, <1>8, <1>9 DEF Continue

LEMMA StepLocksNothingYet ==
  ASSUME StockInv, NEW r \in Requests, Begin(r) \/ Continue(r) \/ Fail(r)
  PROVE  NothingLockedYet'
  <1> USE DEF StockInv, TypeInv
  <1> tx[r] \in Tx
    BY DEF TypeOK
  <1>1. SUFFICES /\ \A q \in Requests \ {r} : tx'[q] = tx[q]
                 /\ tx'[r].at = "begin" => \A l \in Lines : tx'[r].new[l] = None
    BY DEF NothingLockedYet
  <1>2. CASE Place(r) \/ CommitEditItems(r) \/ CommitShipment(r) \/ SaveLine(r) \/ RollBack(r)
    BY <1>2, AnswerTyping DEF Place, CommitEditItems, CommitShipment, SaveLine, RollBack
  <1>3. CASE BeginEditItems(r) \/ LoadLine(r)
    BY <1>3 DEF BeginEditItems, LoadLine, Goto, TypeOK
  <1>4. CASE BeginLock(r) \/ BeginMove(r)
    <2>1. PICK s \in Shipments : \E entity, effect : BeginFulfil(r, s, entity, effect)
      BY <1>4 DEF BeginLock, BeginMove
    <2>2. QED
      BY <2>1 DEF BeginFulfil, Goto, TypeOK
  <1>5. CASE ReadItems(r) \/ TakeLine(r) \/ ReturnLine(r) \/ SelectShipment(r)
    <2>1. tx[r].at \in {"begin", "lines"} /\ tx[r] \in Fulfilling
      BY <1>5, StageTyping DEF ReadItems, TakeLine, ReturnLine, SelectShipment
    <2>2. \A q \in Requests \ {r} : tx'[q] = tx[q]
      BY <1>5 DEF ReadItems, TakeLine, ReturnLine, SelectShipment, Goto, TypeOK
    <2>3. tx'[r].at \in {"lines", "save"}
      <3>1. CASE ReadItems(r)
        BY <2>1, <3>1 DEF ReadItems, Goto, TypeOK, Fulfilling
      <3>2. CASE TakeLine(r)
        BY <2>1, <3>2 DEF TakeLine, Goto, TypeOK, Fulfilling
      <3>3. CASE ReturnLine(r)
        BY <2>1, <3>3 DEF ReturnLine, Goto, TypeOK, Fulfilling
      <3>4. CASE SelectShipment(r)
        BY <2>1, <3>4 DEF SelectShipment, Goto, TypeOK, Fulfilling
      <3>5. QED
        BY <1>5, <3>1, <3>2, <3>3, <3>4
    <2>4. QED
      BY <2>2, <2>3
  <1>6. CASE SelectLine(r)
    <2>1. tx[r] \in EditingLine
      BY <1>6, StageTyping DEF SelectLine
    <2>2. QED
      BY <1>6, <2>1 DEF SelectLine, Goto, TypeOK, EditingLine
  <1>7. QED
    BY <1>2, <1>3, <1>4, <1>5, <1>6 DEF Begin, Continue, Fail, Refuse, AbortDeadlock

LEMMA StockHolds == Spec => []StockInv
  <1>1. ASSUME StockInv, TypeInv', [Next]_vars PROVE StockInv'
    <2>1. ASSUME NEW r \in Requests, Begin(r) \/ Continue(r) \/ Fail(r)
          PROVE  NothingLockedYet' /\ LockedLinesStand' /\ NeverOverShipped'
      BY <1>1, <2>1, BeginStock, ContinueStock, AnsweredStock, StepLocksNothingYet DEF Fail, RollBack
    <2>2. CASE UNCHANGED vars
      BY <1>1, <2>2 DEF vars, StockInv, NothingLockedYet, LockedLinesStand, LineStands, Takes, Less,
                        NeverOverShipped, SteadyLines
    <2>3. QED
      BY <1>1, <2>1, <2>2 DEF Next, StockInv
  <1>2. Init /\ TypeInv => StockInv
    BY InitStock DEF StockInv
  <1>3. QED
    BY <1>1, <1>2, TypesHold, PTL DEF Spec

(* However many shipments are locked and cancelled at once, and whichever of them
   overlap, no more leaves a line than was received (shipment.service.ts:575, 675-676). *)
THEOREM NeverMoreThanReceived == Spec => []NeverOverShipped
  <1>1. StockInv => NeverOverShipped
    BY DEF StockInv
  <1>2. QED
    BY StockHolds, <1>1, PTL

(* The check a lock makes of a line under FOR UPDATE is still true when the COMMIT writes
   it, though all lines are written at the end (shipment.service.ts:677-700, 805-815). *)
THEOREM ChecksStand == Spec => []LockedLinesStand
  <1>1. StockInv => LockedLinesStand
    BY DEF StockInv
  <1>2. QED
    BY StockHolds, <1>1, PTL

-----------------------------------------------------------------------------
(* Waiting.  A line is held by a request that is locking lines or about to save, and
   that has computed what it will write to this line: so it does not ask for it again. *)

Holding(r, l) == tx[r].at \in {"lines", "save"} /\ tx[r].new[l] # None

HoldersWork == \A r \in Requests : \A l \in Lines : rowLock[l] = r => Holding(r, l)

WaitInv == TypeInv /\ HoldersWork

\* A step of a request that holds no line, or that lets all of its lines go.
LEMMA HoldersKept ==
  ASSUME TypeOK, HoldersWork, NEW r \in Requests,
         \A q \in Requests \ {r} : tx'[q] = tx[q],
         \/ rowLock' = rowLock /\ tx[r].at \notin {"lines", "save"}
         \/ rowLock' = Release(r)
  PROVE  HoldersWork'
  <1> SUFFICES ASSUME NEW q \in Requests, NEW l \in Lines, rowLock'[l] = q
               PROVE  Holding(q, l)'
    BY DEF HoldersWork
  <1>1. q # r /\ rowLock[l] = q
    <2>1. CASE rowLock' = rowLock /\ tx[r].at \notin {"lines", "save"}
      BY <2>1 DEF HoldersWork, Holding
    <2>2. CASE rowLock' = Release(r)
      BY <2>2, NoneAssumption DEF Release
    <2>3. QED
      BY <2>1, <2>2
  <1>2. QED
    BY <1>1 DEF HoldersWork, Holding

\* A request that takes the lock of one more line.
LEMMA HolderAdded ==
  ASSUME TypeOK, HoldersWork, NEW r \in Requests, tx[r] \in Fulfilling, tx[r].at = "lines",
         NEW k \in Lines, NEW n \in Nat,
         rowLock' = Hold(k, r), Goto(r, [tx[r] EXCEPT !.new[k] = n])
  PROVE  HoldersWork'
  <1> SUFFICES ASSUME NEW q \in Requests, NEW l \in Lines, rowLock'[l] = q
               PROVE  Holding(q, l)'
    BY DEF HoldersWork
  <1>1. tx'[r].at = "lines" /\ \A m \in Lines : tx'[r].new[m] = IF m = k THEN n ELSE tx[r].new[m]
    BY DEF Goto, TypeOK, Fulfilling
  <1>2. \A p \in Requests \ {r} : tx'[p] = tx[p]
    BY DEF Goto, TypeOK
  <1>3. CASE l = k
    <2>1. q = r
      BY <1>3 DEF Hold, TypeOK
    <2>2. QED
      BY <1>1, <1>3, <2>1, NoneAssumption DEF Holding
  <1>4. CASE l # k
    <2>1. rowLock[l] = q
      BY <1>4 DEF Hold, TypeOK
    <2>2. Holding(q, l)
      BY <2>1 DEF HoldersWork
    <2>3. QED
      BY <1>1, <1>2, <1>4, <2>2 DEF Holding
  <1>5. QED
    BY <1>3, <1>4

LEMMA StepKeepsHolders ==
  ASSUME TypeInv, HoldersWork, NEW r \in Requests, Begin(r) \/ Continue(r) \/ Fail(r)
  PROVE  HoldersWork'
  <1> USE DEF TypeInv
  <1> tx[r] \in Tx
    BY DEF TypeOK
  <1>1. CASE Begin(r) \/ CommitEditItems(r) \/ ReadItems(r) \/ SelectLine(r) \/ SaveLine(r)
    <2>1. tx[r].at \notin {"lines", "save"} /\ rowLock' = rowLock
      BY <1>1 DEF Begin, Place, BeginEditItems, BeginLock, BeginMove, BeginFulfil, LoadLine,
                  CommitEditItems, ReadItems, SelectLine, SaveLine
    <2>2. \A q \in Requests \ {r} : tx'[q] = tx[q]
      BY <1>1 DEF Begin, Place, BeginEditItems, BeginLock, BeginMove, BeginFulfil, LoadLine,
                  CommitEditItems, ReadItems, SelectLine, SaveLine, Answer, Goto, TypeOK
    <2>3. QED
      BY <2>1, <2>2, HoldersKept
  <1>2. CASE CommitShipment(r) \/ RollBack(r)
    <2>1. \A q \in Requests \ {r} : tx'[q] = tx[q]
      BY <1>2, AnswerTyping DEF CommitShipment, RollBack
    <2>2. rowLock' = Release(r)
      BY <1>2 DEF CommitShipment, RollBack
    <2>3. QED
      BY <2>1, <2>2, HoldersKept
  <1>3. CASE TakeLine(r) \/ ReturnLine(r)
    <2>1. tx[r] \in Fulfilling /\ tx[r].at = "lines"
      BY <1>3, StageTyping DEF TakeLine, ReturnLine
    <2>2. PICK l \in ToLock(r) : \E n \in Nat :
            rowLock' = Hold(l, r) /\ Goto(r, [tx[r] EXCEPT !.new[l] = n])
      <3>1. \A l \in Lines : /\ line[l].shipped + tx[r].want[l] \in Nat
                             /\ Less(line[l].shipped, tx[r].want[l]) \in Nat
        <4>1. \A l \in Lines : line[l].shipped \in Nat /\ tx[r].want[l] \in Nat
          BY <2>1 DEF TypeOK, Line, Fulfilling
        <4>2. QED
          BY <4>1 DEF Less
      <3>2. ToLock(r) \subseteq Lines
        BY DEF ToLock, Drawn
      <3>3. QED
        BY <1>3, <3>1, <3>2 DEF TakeLine, ReturnLine
    <2>3. l \in Lines
      BY DEF ToLock, Drawn
    <2>4. QED
      BY <2>1, <2>2, <2>3, HolderAdded
  <1>4. CASE SelectShipment(r)
    <2>1. tx[r] \in Fulfilling /\ tx[r].at = "lines"
      BY <1>4, StageTyping DEF SelectShipment
    <2>2. tx'[r].at = "save" /\ tx'[r].new = tx[r].new /\ rowLock' = rowLock
      BY <1>4, <2>1 DEF SelectShipment, Goto, TypeOK, Fulfilling
    <2>3. \A q \in Requests \ {r} : tx'[q] = tx[q]
      BY <1>4 DEF SelectShipment, Goto, TypeOK
    <2>4. QED
      BY <2>1, <2>2, <2>3 DEF HoldersWork, Holding
  <1>5. QED
    BY <1>1, <1>2, <1>3, <1>4 DEF Continue, Fail, Refuse, AbortDeadlock

LEMMA WaitHolds == Spec => []WaitInv
  <1>1. Init => HoldersWork
    BY NoneAssumption DEF Init, HoldersWork
  <1>2. ASSUME WaitInv, TypeInv', [Next]_vars PROVE WaitInv'
    <2>1. CASE Next
      BY <1>2, <2>1, StepKeepsHolders DEF Next, WaitInv
    <2>2. CASE UNCHANGED vars
      BY <1>2, <2>2 DEF vars, WaitInv, HoldersWork, Holding
    <2>3. QED
      BY <1>2, <2>1, <2>2
  <1>3. Init /\ TypeInv => WaitInv
    BY <1>1 DEF WaitInv
  <1>4. QED
    BY <1>2, <1>3, TypesHold, PTL DEF Spec

(* If no request were ready, each would wait for a line of one that is locking lines too:
   all of those wait for each other, and the database aborts one of them. *)
LEMMA SomeoneIsReady == WaitInv => SomeoneReady
  <1> SUFFICES ASSUME WaitInv, NEW r \in Requests, InFlight(r),
                      \A q \in Requests : ~Ready(q)
               PROVE  FALSE
    BY DEF SomeoneReady
  <1> USE DEF WaitInv, TypeInv
  <1>1. \A q \in Requests : tx[q].at \in {"fresh", "answered", "lines", "save_line"}
    <2>1. \A q \in Requests : tx[q].at \in {"fresh", "answered", "edit_items", "begin", "lines",
                                            "save", "edit_line", "save_line"}
      BY DEF TypeOK, Tx, Fresh, Answered, EditingItems, Fulfilling, EditingLine
    <2>2. QED
      BY <2>1 DEF Ready
  <1>2. ASSUME NEW l \in Lines, ~Unlocked(l)
        PROVE  rowLock[l] \in Requests /\ tx[rowLock[l]].at = "lines"
    <2>1. rowLock[l] \in Requests
      BY <1>2 DEF Unlocked, TypeOK
    <2>2. tx[rowLock[l]].at \in {"lines", "save"}
      BY <2>1 DEF HoldersWork, Holding
    <2>3. QED
      BY <1>1, <2>1, <2>2
  <1>3. \E q \in Requests : tx[q].at = "lines"
    <2>1. CASE tx[r].at = "save_line"
      <3>1. tx[r].line \in Lines
        BY <2>1, StageTyping, LinesAssumption DEF TypeOK, EditingLine
      <3>2. ~Unlocked(tx[r].line)
        BY <2>1 DEF Ready
      <3>3. QED
        BY <1>2, <3>1, <3>2
    <2>2. QED
      BY <1>1, <2>1 DEF InFlight
  <1>4. PICK p \in Requests : tx[p].at = "lines"
    BY <1>3
  <1>5. PICK S \in SUBSET Requests : S = {q \in Requests : tx[q].at = "lines"}
    OBVIOUS
  <1>6. \A q \in S : \E h \in AwaitedBy(q) : h \in S
    <2> SUFFICES ASSUME NEW q \in S PROVE \E h \in AwaitedBy(q) : h \in S
      OBVIOUS
    <2>1. q \in Requests /\ tx[q].at = "lines"
      BY <1>5
    <2>2. PICK l \in ToLock(q) : ~Unlocked(l)
      BY <2>1 DEF Ready
    <2>3. l \in Lines
      BY DEF ToLock, Drawn
    <2>4. rowLock[l] \in AwaitedBy(q)
      BY <2>1 DEF AwaitedBy
    <2>5. QED
      BY <1>2, <1>5, <2>2, <2>3, <2>4
  <1>7. Deadlocked(p)
    BY <1>4, <1>5, <1>6 DEF Deadlocked
  <1>8. QED
    BY <1>7 DEF Ready

(* However many shipments lock the same lines, in whatever order, and whichever of them
   fail: while any request is in flight one of them is ready, that is, waits for no
   line, or is one the database aborts (shipment.service.ts:674-723, 784-793). *)
THEOREM NeverAllWaiting == Spec => []SomeoneReady
  BY WaitHolds, SomeoneIsReady, PTL

(* A request that moves: from stage to stage, or by one more line that it has locked. *)
LockedBy(t) == {l \in Lines : t.new[l] # None}

Forward(t, u) ==
  \/ t.at = "fresh" /\ u.at # "fresh"
  \/ t.at \notin {"fresh", "answered"} /\ u.at = "answered"
  \/ t.at = "begin" /\ u.at = "lines"
  \/ t.at = "lines" /\ u.at = "lines" /\ LockedBy(t) \subseteq LockedBy(u) /\ LockedBy(t) # LockedBy(u)
  \/ t.at = "lines" /\ u.at = "save"
  \/ t.at = "edit_line" /\ u.at = "save_line"

MovesOn(r) == Forward(tx[r], tx'[r]) /\ \A q \in Requests \ {r} : tx'[q] = tx[q]

OneMovesOn == \E r \in Requests : MovesOn(r)

LEMMA StepMovesOn ==
  ASSUME TypeInv, NEW r \in Requests, Begin(r) \/ Continue(r) \/ Fail(r)
  PROVE  MovesOn(r)
  <1> USE DEF TypeInv, MovesOn
  <1> tx[r] \in Tx
    BY DEF TypeOK
  <1>1. CASE Place(r) \/ CommitEditItems(r) \/ CommitShipment(r) \/ SaveLine(r)
             \/ (InFlight(r) /\ RollBack(r))
    BY <1>1, AnswerTyping DEF Place, CommitEditItems, CommitShipment, SaveLine, RollBack, InFlight, Forward
  <1>2. CASE BeginEditItems(r) \/ BeginLock(r) \/ BeginMove(r) \/ LoadLine(r)
    BY <1>2 DEF BeginEditItems, BeginLock, BeginMove, BeginFulfil, LoadLine, Goto, TypeOK, Forward
  <1>3. CASE ReadItems(r) \/ SelectShipment(r)
    <2>1. tx[r] \in Fulfilling
      BY <1>3, StageTyping DEF ReadItems, SelectShipment
    <2>2. \/ tx[r].at = "begin" /\ tx'[r].at = "lines"
          \/ tx[r].at = "lines" /\ tx'[r].at = "save"
      <3>1. CASE ReadItems(r)
        BY <2>1, <3>1 DEF ReadItems, Goto, TypeOK, Fulfilling
      <3>2. CASE SelectShipment(r)
        BY <2>1, <3>2 DEF SelectShipment, Goto, TypeOK, Fulfilling
      <3>3. QED
        BY <1>3, <3>1, <3>2
    <2>3. \A q \in Requests \ {r} : tx'[q] = tx[q]
      BY <1>3 DEF ReadItems, SelectShipment, Goto, TypeOK
    <2>4. QED
      BY <2>2, <2>3 DEF Forward
  <1>4. CASE TakeLine(r) \/ ReturnLine(r)
    <2>1. tx[r] \in Fulfilling /\ tx[r].at = "lines"
      BY <1>4, StageTyping DEF TakeLine, ReturnLine
    <2>2. PICK l \in ToLock(r) : \E n \in Nat : Goto(r, [tx[r] EXCEPT !.new[l] = n])
      <3>1. \A l \in Lines : /\ line[l].shipped + tx[r].want[l] \in Nat
                             /\ Less(line[l].shipped, tx[r].want[l]) \in Nat
        <4>1. \A l \in Lines : line[l].shipped \in Nat /\ tx[r].want[l] \in Nat
          BY <2>1 DEF TypeOK, Line, Fulfilling
        <4>2. QED
          BY <4>1 DEF Less
      <3>2. ToLock(r) \subseteq Lines
        BY DEF ToLock, Drawn
      <3>3. QED
        BY <1>4, <3>1, <3>2 DEF TakeLine, ReturnLine
    <2>3. l \in Lines /\ tx[r].new[l] = None
      BY DEF ToLock, Drawn
    <2>4. PICK n \in Nat : Goto(r, [tx[r] EXCEPT !.new[l] = n])
      BY <2>2
    <2>5. /\ tx'[r].at = "lines"
          /\ \A m \in Lines : tx'[r].new[m] = IF m = l THEN n ELSE tx[r].new[m]
      BY <2>1, <2>3, <2>4 DEF Goto, TypeOK, Fulfilling
    <2>6. LockedBy(tx[r]) \subseteq LockedBy(tx'[r]) /\ l \in LockedBy(tx'[r]) \ LockedBy(tx[r])
      BY <2>3, <2>5, NoneAssumption DEF LockedBy
    <2>7. \A q \in Requests \ {r} : tx'[q] = tx[q]
      BY <2>4 DEF Goto, TypeOK
    <2>8. QED
      BY <2>1, <2>5, <2>6, <2>7 DEF Forward
  <1>5. CASE SelectLine(r)
    <2>1. tx[r] \in EditingLine
      BY <1>5, StageTyping DEF SelectLine
    <2>2. QED
      BY <1>5, <2>1 DEF SelectLine, Goto, TypeOK, EditingLine, Forward
  <1>6. CASE Refuse(r) \/ AbortDeadlock(r) \/ Fail(r)
    <2>1. InFlight(r) /\ RollBack(r)
      <3>1. CASE Refuse(r)
        BY <3>1 DEF Refuse, InFlight
      <3>2. CASE AbortDeadlock(r)
        <4>1. tx[r].at = "lines"
          BY <3>2 DEF AbortDeadlock, Deadlocked, AwaitedBy
        <4>2. QED
          BY <3>2, <4>1 DEF AbortDeadlock, InFlight
      <3>3. QED
        BY <1>6, <3>1, <3>2 DEF Fail
    <2>2. QED
      BY <1>1, <2>1
  <1>7. QED
    BY <1>1, <1>2, <1>3, <1>4, <1>5, <1>6 DEF Begin, Continue

(* No step is taken in vain: each takes one request to a later stage, or to one more
   locked line, and no request is set back.  With NeverAllWaiting: over finitely many
   lines and requests there is nothing left but for all of them to be answered
   (shipment.service.ts:674-723, 784-793). *)
THEOREM EveryStepMovesOn == Spec => [][OneMovesOn]_vars
  <1>1. TypeInv /\ [Next]_vars => [OneMovesOn]_vars
    BY StepMovesOn DEF Next, OneMovesOn
  <1>2. QED
    BY <1>1, TypesHold, PTL DEF Spec

-----------------------------------------------------------------------------
(* Requests on one shipment one at a time.  What a request found when it loaded its
   shipment is then still so when it saves it, and the items it reads in its transaction
   are the ones it returns or takes. *)

Works(r) == tx[r].at \in {"edit_items", "begin", "lines", "save"}

Alone ==
  \A q, r \in Requests : Works(q) /\ Works(r) /\ tx[q].shipment = tx[r].shipment => q = r

Shows(s, status, locked) == shipment[s] = [status |-> status, locked |-> locked]
Saves(r, status, locked) == tx[r].entity = [status |-> status, locked |-> locked]

\* The four changes lockShipment and updateStatus make, and the row each is made of.
Changing(r) ==
  \/ tx[r].effect = "take"   /\ Shows(tx[r].shipment, "AWAITING", FALSE) /\ Saves(r, "AWAITING", TRUE)
  \/ tx[r].effect = "return" /\ Shows(tx[r].shipment, "AWAITING", TRUE)  /\ Saves(r, "CANCELLED", TRUE)
  \/ tx[r].effect = "none"   /\ Shows(tx[r].shipment, "AWAITING", TRUE)  /\ Saves(r, "DONE", TRUE)
  \/ tx[r].effect = "none"   /\ Shows(tx[r].shipment, "AWAITING", FALSE) /\ Saves(r, "CANCELLED", FALSE)

\* Once it has read the items: the quantities to move, and no lines locked but theirs.
Moving(r) ==
  /\ tx[r].want = IF tx[r].effect = "none" THEN Nothing ELSE items[tx[r].shipment]
  /\ \A l \in Lines : tx[r].new[l] # None => tx[r].want[l] # 0

\* Once it is about to save: all of their lines.
Moved(r) ==
  /\ \A l \in Lines : tx[r].want[l] # 0 => tx[r].new[l] # None
  /\ tx[r].dirty = Dirty(tx[r].entity, shipment[tx[r].shipment])

Settled(r) ==
  /\ tx[r].at = "edit_items" => Shows(tx[r].shipment, "AWAITING", FALSE)
  /\ tx[r].at \in {"begin", "lines", "save"} => Changing(r)
  /\ tx[r].at \in {"lines", "save"} => Moving(r)
  /\ tx[r].at = "save" => Moved(r)

AloneInv == StockInv /\ Alone /\ \A r \in Requests : Settled(r)

LEMMA WorksOn ==
  ASSUME TypeOK, NEW r \in Requests, Works(r)
  PROVE  tx[r].shipment \in Shipments
  BY StageTyping DEF TypeOK, Works, EditingItems, Fulfilling

\* A shipment somebody works on has a row.
LEMMA WorkedOnIsPlaced ==
  ASSUME AloneInv, NEW r \in Requests, Works(r)
  PROVE  Placed(tx[r].shipment)
  <1>1. CASE tx[r].at = "edit_items"
    <2>1. Shows(tx[r].shipment, "AWAITING", FALSE)
      BY <1>1 DEF AloneInv, Settled
    <2>2. [status |-> "AWAITING", locked |-> FALSE] \in Header
      BY DEF Header, Status
    <2>3. QED
      BY <2>1, <2>2, NoneAssumption DEF Shows, Placed
  <1>2. CASE tx[r].at \in {"begin", "lines", "save"}
    BY <1>2 DEF AloneInv, StockInv, TypeInv, FulfilledExist, Placed
  <1>3. QED
    BY <1>1, <1>2 DEF Works

LEMMA AloneKept ==
  ASSUME AloneInv, NEW r \in Requests, \A q \in Requests \ {r} : tx'[q] = tx[q],
         Works(r)' => \/ Works(r) /\ tx'[r].shipment = tx[r].shipment
                      \/ \A q \in Requests : Works(q) => tx[q].shipment # tx'[r].shipment
  PROVE  Alone'
  <1> SUFFICES ASSUME NEW p \in Requests, NEW q \in Requests, Works(p)', Works(q)',
                      tx'[p].shipment = tx'[q].shipment
               PROVE  p = q
    BY DEF Alone
  <1>1. CASE p # r /\ q # r
    BY <1>1 DEF AloneInv, Alone, Works
  <1>2. ASSUME NEW o \in Requests \ {r}, Works(o)', Works(r)' PROVE tx'[o].shipment # tx'[r].shipment
    <2>1. Works(o) /\ tx'[o].shipment = tx[o].shipment
      BY <1>2 DEF Works
    <2>2. Works(r) => tx[o].shipment # tx[r].shipment
      BY <1>2, <2>1 DEF AloneInv, Alone
    <2>3. QED
      BY <1>2, <2>1, <2>2
  <1>3. QED
    BY <1>1, <1>2

\* The rows others work on stay, and so does what they have found in them.
LEMMA OthersSettled ==
  ASSUME AloneInv, NEW r \in Requests, \A q \in Requests \ {r} : tx'[q] = tx[q],
         \A q \in Requests \ {r} : Works(q) =>
           /\ shipment'[tx[q].shipment] = shipment[tx[q].shipment]
           /\ items'[tx[q].shipment] = items[tx[q].shipment],
         Settled(r)'
  PROVE  \A q \in Requests : Settled(q)'
  <1> SUFFICES ASSUME NEW q \in Requests, q # r PROVE Settled(q)'
    OBVIOUS
  <1>1. tx'[q] = tx[q] /\ Settled(q)
    BY DEF AloneInv
  <1>2. CASE ~Works(q)
    BY <1>1, <1>2 DEF Settled, Works
  <1>3. CASE Works(q)
    <2>1. /\ shipment'[tx[q].shipment] = shipment[tx[q].shipment]
          /\ items'[tx[q].shipment] = items[tx[q].shipment]
      BY <1>3
    <2>2. QED
      BY <1>1, <2>1 DEF Settled, Changing, Moving, Moved, Shows, Saves, Nothing, Dirty, Columns
  <1>4. QED
    BY <1>2, <1>3

LEMMA HeaderIs ==
  ASSUME NEW header \in Header
  PROVE  /\ header = [status |-> header.status, locked |-> header.locked]
         /\ \A status \in Status :
              [header EXCEPT !.status = status] = [status |-> status, locked |-> header.locked]
         /\ \A locked \in BOOLEAN :
              [header EXCEPT !.locked = locked] = [status |-> header.status, locked |-> locked]
  BY DEF Header

\* A request that takes on a shipment nobody works on.
LEMMA FulfilAlone ==
  ASSUME AloneInv, Overlapping = {}, NEW r \in Requests, NEW s \in Shipments,
         NEW entity, NEW effect, BeginFulfil(r, s, entity, effect),
         \/ effect = "take"   /\ Shows(s, "AWAITING", FALSE) /\ entity = [status |-> "AWAITING", locked |-> TRUE]
         \/ effect = "return" /\ Shows(s, "AWAITING", TRUE)  /\ entity = [status |-> "CANCELLED", locked |-> TRUE]
         \/ effect = "none"   /\ Shows(s, "AWAITING", TRUE)  /\ entity = [status |-> "DONE", locked |-> TRUE]
         \/ effect = "none"   /\ Shows(s, "AWAITING", FALSE) /\ entity = [status |-> "CANCELLED", locked |-> FALSE]
  PROVE  Alone' /\ \A q \in Requests : Settled(q)'
  <1>1. /\ tx'[r] = [at |-> "begin", shipment |-> s, entity |-> entity, rows |-> Drawn(items[s]),
                     effect |-> effect, want |-> Nothing, new |-> [l \in Lines |-> None], dirty |-> {}]
        /\ \A q \in Requests \ {r} : tx'[q] = tx[q]
    BY DEF BeginFulfil, Goto, AloneInv, StockInv, TypeInv, TypeOK
  <1>2. \A q \in Requests : Works(q) => tx[q].shipment # s
    BY DEF BeginFulfil, Idle, Works
  <1>3. Alone'
    BY <1>1, <1>2, AloneKept
  <1>4. tx'[r].at = "begin" /\ tx'[r].shipment = s /\ tx'[r].entity = entity /\ tx'[r].effect = effect
    BY <1>1
  <1>5. Settled(r)'
    BY <1>4 DEF BeginFulfil, Settled, Changing, Shows, Saves
  <1>6. UNCHANGED <<shipment, items>>
    BY DEF BeginFulfil
  <1>7. QED
    BY <1>1, <1>3, <1>5, <1>6, OthersSettled

LEMMA BeginAlone ==
  ASSUME AloneInv, Overlapping = {}, NEW r \in Requests, Begin(r)
  PROVE  Alone' /\ \A q \in Requests : Settled(q)'
  <1> USE DEF AloneInv, StockInv, TypeInv
  <1>1. CASE Place(r)
    <2>1. PICK s \in Shipments, want \in ItemLists :
            /\ ~Placed(s)
            /\ shipment' = [shipment EXCEPT ![s] = [status |-> "AWAITING", locked |-> FALSE]]
            /\ items' = [items EXCEPT ![s] = want]
      BY <1>1 DEF Place
    <2>2. tx'[r].at = "answered" /\ \A q \in Requests \ {r} : tx'[q] = tx[q]
      BY <1>1, AnswerTyping DEF Place
    <2>3. \A q \in Requests : Works(q) => tx[q].shipment # s
      BY <2>1, WorkedOnIsPlaced
    <2>4. \A q \in Requests \ {r} : Works(q) =>
            /\ shipment'[tx[q].shipment] = shipment[tx[q].shipment]
            /\ items'[tx[q].shipment] = items[tx[q].shipment]
      <3>1. \A q \in Shipments \ {s} : shipment'[q] = shipment[q] /\ items'[q] = items[q]
        BY <2>1 DEF TypeOK
      <3>2. QED
        BY <2>3, <3>1, WorksOn
    <2>5. ~Works(r)' /\ Settled(r)'
      BY <2>2 DEF Works, Settled
    <2>6. QED
      BY <2>2, <2>4, <2>5, AloneKept, OthersSettled
  <1>2. CASE BeginEditItems(r)
    <2>1. PICK s \in Shipments :
            /\ Placed(s) /\ Idle(s)
            /\ ~shipment[s].locked /\ shipment[s].status = "AWAITING"
            /\ Goto(r, [at |-> "edit_items", shipment |-> s])
      BY <1>2 DEF BeginEditItems
    <2>2. tx'[r] = [at |-> "edit_items", shipment |-> s] /\ \A q \in Requests \ {r} : tx'[q] = tx[q]
      BY <2>1 DEF Goto, TypeOK
    <2>3. \A q \in Requests : Works(q) => tx[q].shipment # s
      BY <2>1 DEF Idle, Works
    <2>4. Shows(s, "AWAITING", FALSE)
      BY <2>1, HeaderIs DEF Placed, TypeOK, Shows, Header
    <2>5. Settled(r)'
      BY <1>2, <2>2, <2>4 DEF BeginEditItems, Settled, Shows
    <2>6. UNCHANGED <<shipment, items>>
      BY <1>2 DEF BeginEditItems
    <2>7. Alone'
      BY <2>2, <2>3, AloneKept
    <2>8. QED
      BY <2>2, <2>5, <2>6, <2>7, OthersSettled
  <1>3. CASE BeginLock(r)
    <2>1. PICK s \in Shipments :
            /\ Placed(s) /\ ~shipment[s].locked /\ shipment[s].status = "AWAITING"
            /\ BeginFulfil(r, s, [shipment[s] EXCEPT !.locked = TRUE], "take")
      BY <1>3 DEF BeginLock
    <2>2. shipment[s] \in Header
      BY <2>1 DEF Placed, TypeOK
    <2>3. shipment[s].status = "AWAITING" /\ shipment[s].locked = FALSE
      BY <2>1, <2>2 DEF Header
    <2>4. Shows(s, "AWAITING", FALSE)
      BY <2>2, <2>3, HeaderIs DEF Shows
    <2>5. [shipment[s] EXCEPT !.locked = TRUE] = [status |-> "AWAITING", locked |-> TRUE]
      BY <2>2, <2>3, HeaderIs
    <2>6. QED
      BY <2>1, <2>4, <2>5, FulfilAlone
  <1>4. CASE BeginMove(r)
    <2>1. PICK s \in Shipments, status \in Status :
            /\ Placed(s)
            /\ status \in Allowed(shipment[s])
            /\ BeginFulfil(r, s, [shipment[s] EXCEPT !.status = status], Effect(shipment[s], status))
      BY <1>4 DEF BeginMove, Allowed, Status
    <2> DEFINE entity == [shipment[s] EXCEPT !.status = status]
               effect == Effect(shipment[s], status)
    <2>2. shipment[s] \in Header
      BY <2>1 DEF Placed, TypeOK
    <2>3. shipment[s].status = "AWAITING" /\ status \in {"DONE", "CANCELLED"}
          /\ (~shipment[s].locked => status = "CANCELLED")
      BY <2>1 DEF Allowed
    <2>4. entity = [status |-> status, locked |-> shipment[s].locked]
          /\ Shows(s, "AWAITING", shipment[s].locked)
      BY <2>2, <2>3, HeaderIs DEF Shows
    <2>5. effect = IF shipment[s].locked /\ status = "CANCELLED" THEN "return" ELSE "none"
      BY DEF Effect
    <2>6. BeginFulfil(r, s, entity, effect)
      BY <2>1
    <2> HIDE DEF entity, effect
    <2>7. shipment[s].locked \in BOOLEAN
      BY <2>2 DEF Header
    <2>8. \/ effect = "return" /\ Shows(s, "AWAITING", TRUE)  /\ entity = [status |-> "CANCELLED", locked |-> TRUE]
          \/ effect = "none"   /\ Shows(s, "AWAITING", TRUE)  /\ entity = [status |-> "DONE", locked |-> TRUE]
          \/ effect = "none"   /\ Shows(s, "AWAITING", FALSE) /\ entity = [status |-> "CANCELLED", locked |-> FALSE]
      <3>1. CASE shipment[s].locked = TRUE
        BY <2>3, <2>4, <2>5, <3>1
      <3>2. CASE shipment[s].locked = FALSE
        BY <2>3, <2>4, <2>5, <3>2
      <3>3. QED
        BY <2>7, <3>1, <3>2
    <2>9. QED
      BY <2>6, <2>8, FulfilAlone
  <1>5. CASE LoadLine(r)
    <2>1. UNCHANGED <<shipment, items>> /\ (\A q \in Requests \ {r} : tx'[q] = tx[q])
          /\ tx'[r].at = "edit_line"
      BY <1>5 DEF LoadLine, Goto, TypeOK
    <2>2. ~Works(r)' /\ Settled(r)'
      BY <2>1 DEF Works, Settled
    <2>3. QED
      BY <2>1, <2>2, AloneKept, OthersSettled
  <1>6. QED
    BY <1>1, <1>2, <1>3, <1>4, <1>5 DEF Begin

LEMMA ContinueAlone ==
  ASSUME AloneInv, NEW r \in Requests, Continue(r) \/ Fail(r)
  PROVE  Alone' /\ \A q \in Requests : Settled(q)'
  <1> USE DEF AloneInv, StockInv, TypeInv
  <1> tx[r] \in Tx
    BY DEF TypeOK
  <1> DEFINE Same == \A q \in Requests \ {r} : tx'[q] = tx[q]
             Kept == \A q \in Requests \ {r} : Works(q) =>
                       /\ shipment'[tx[q].shipment] = shipment[tx[q].shipment]
                       /\ items'[tx[q].shipment] = items[tx[q].shipment]
  <1>1. CASE CommitEditItems(r) \/ CommitShipment(r) \/ SaveLine(r) \/ RollBack(r)
    <2>1. tx'[r].at = "answered" /\ Same
      BY <1>1, AnswerTyping DEF CommitEditItems, CommitShipment, SaveLine, RollBack
    <2>2. ~Works(r)' /\ Settled(r)'
      BY <2>1 DEF Works, Settled
    <2>3. Kept
      <3>1. CASE SaveLine(r) \/ RollBack(r)
        BY <3>1 DEF SaveLine, RollBack
      <3>2. CASE CommitEditItems(r) \/ CommitShipment(r)
        <4>1. Works(r)
          BY <3>2 DEF CommitEditItems, CommitShipment, Works
        <4>2. \A q \in Requests \ {r} : Works(q) => tx[q].shipment # tx[r].shipment
          BY <4>1 DEF Alone
        <4>3. \A s \in Shipments \ {tx[r].shipment} : shipment'[s] = shipment[s] /\ items'[s] = items[s]
          BY <3>2 DEF CommitEditItems, CommitShipment, TypeOK
        <4>4. QED
          BY <4>2, <4>3, WorksOn
      <3>3. QED
        BY <1>1, <3>1, <3>2
    <2>4. QED
      BY <2>1, <2>2, <2>3, AloneKept, OthersSettled
  <1>2. CASE ReadItems(r) \/ TakeLine(r) \/ ReturnLine(r) \/ SelectShipment(r)
    <2>1. tx[r] \in Fulfilling /\ Works(r) /\ Settled(r) /\ Changing(r)
      BY <1>2, StageTyping DEF ReadItems, TakeLine, ReturnLine, SelectShipment, Works, Settled
    <2>2. UNCHANGED <<shipment, items>> /\ Same
      BY <1>2 DEF ReadItems, TakeLine, ReturnLine, SelectShipment, Goto, TypeOK
    <2>3. /\ tx'[r].at \in {"lines", "save"}
          /\ tx'[r].shipment = tx[r].shipment /\ tx'[r].effect = tx[r].effect /\ tx'[r].entity = tx[r].entity
          /\ Moving(r)'
          /\ tx'[r].at = "save" => Moved(r)'
      <3>1. CASE ReadItems(r)
        <4>1. /\ tx'[r].at = "lines" /\ tx'[r].new = tx[r].new
              /\ tx'[r].shipment = tx[r].shipment /\ tx'[r].effect = tx[r].effect /\ tx'[r].entity = tx[r].entity
              /\ tx'[r].want = IF tx[r].effect = "none" THEN Nothing ELSE items[tx[r].shipment]
          BY <2>1, <3>1 DEF ReadItems, Goto, TypeOK, Fulfilling
        <4>2. \A l \in Lines : tx[r].new[l] = None
          BY <3>1 DEF ReadItems, NothingLockedYet
        <4>3. QED
          BY <2>2, <4>1, <4>2 DEF Moving, Nothing
      <3>2. CASE TakeLine(r) \/ ReturnLine(r)
        <4>1. PICK l \in ToLock(r) : \E n : Goto(r, [tx[r] EXCEPT !.new[l] = n])
          BY <3>2 DEF TakeLine, ReturnLine
        <4>0. PICK n : Goto(r, [tx[r] EXCEPT !.new[l] = n])
          BY <4>1
        <4>2. l \in Lines /\ tx[r].want[l] # 0 /\ tx[r].at = "lines"
          BY <3>2, <4>1 DEF TakeLine, ReturnLine, ToLock, Drawn
        <4>3. /\ tx'[r].at = "lines" /\ tx'[r].want = tx[r].want
              /\ tx'[r].shipment = tx[r].shipment /\ tx'[r].effect = tx[r].effect /\ tx'[r].entity = tx[r].entity
              /\ tx'[r].new = [tx[r].new EXCEPT ![l] = n]
          BY <2>1, <4>0, <4>2 DEF Goto, TypeOK, Fulfilling
        <4>4. Moving(r)
          BY <2>1, <4>2 DEF Settled
        <4>5. \A k \in Lines : tx'[r].new[k] # None => tx'[r].want[k] # 0
          BY <2>1, <4>2, <4>3, <4>4 DEF Moving, Fulfilling
        <4>6. QED
          BY <2>2, <4>3, <4>4, <4>5 DEF Moving, Nothing
      <3>3. CASE SelectShipment(r)
        <4>1. /\ tx'[r].at = "save" /\ tx'[r].want = tx[r].want /\ tx'[r].new = tx[r].new
              /\ tx'[r].shipment = tx[r].shipment /\ tx'[r].effect = tx[r].effect /\ tx'[r].entity = tx[r].entity
              /\ tx'[r].dirty = Dirty(tx[r].entity, shipment[tx[r].shipment])
          BY <2>1, <3>3 DEF SelectShipment, Goto, TypeOK, Fulfilling
        <4>2. Moving(r)
          BY <2>1, <3>3 DEF Settled, SelectShipment
        <4>3. \A l \in Lines : tx[r].want[l] # 0 => tx[r].new[l] # None
          BY <3>3 DEF SelectShipment, ToLock, Drawn
        <4>4. QED
          BY <2>2, <4>1, <4>2, <4>3 DEF Moving, Moved, Nothing, Dirty, Columns
      <3>4. QED
        BY <1>2, <3>1, <3>2, <3>3
    <2>4. Changing(r)'
      BY <2>1, <2>2, <2>3 DEF Changing, Shows, Saves
    <2>5. Settled(r)'
      BY <2>3, <2>4 DEF Settled
    <2>6. QED
      BY <2>1, <2>2, <2>3, <2>5, AloneKept, OthersSettled
  <1>3. CASE SelectLine(r)
    <2>1. tx[r] \in EditingLine
      BY <1>3, StageTyping DEF SelectLine
    <2>2. UNCHANGED <<shipment, items>> /\ Same /\ tx'[r].at = "save_line"
      BY <1>3, <2>1 DEF SelectLine, Goto, TypeOK, EditingLine
    <2>3. ~Works(r)' /\ Settled(r)'
      BY <2>2 DEF Works, Settled
    <2>4. QED
      BY <2>2, <2>3, AloneKept, OthersSettled
  <1>4. QED
    BY <1>1, <1>2, <1>3 DEF Continue, Fail, Refuse, AbortDeadlock

LEMMA AloneHolds ==
  ASSUME Overlapping = {}
  PROVE  Spec => []AloneInv
  <1>1. Init /\ StockInv => AloneInv
    <2> SUFFICES ASSUME Init, StockInv PROVE Alone /\ \A r \in Requests : Settled(r)
      BY DEF AloneInv
    <2>1. \A r \in Requests : tx[r].at = "fresh"
      BY DEF Init
    <2>2. QED
      BY <2>1 DEF Alone, Works, Settled
  <1>2. ASSUME AloneInv, StockInv', [Next]_vars PROVE AloneInv'
    <2>1. ASSUME NEW r \in Requests, Begin(r) \/ Continue(r) \/ Fail(r)
          PROVE  Alone' /\ \A q \in Requests : Settled(q)'
      BY <1>2, <2>1, BeginAlone, ContinueAlone
    <2>2. CASE UNCHANGED vars
      <3>1. Alone'
        BY <1>2, <2>2 DEF vars, AloneInv, Alone, Works
      <3>2. ASSUME NEW r \in Requests PROVE Settled(r)'
        <4>1. Settled(r)
          BY <1>2 DEF AloneInv
        <4>2. QED
          BY <2>2, <4>1 DEF vars, Settled, Changing, Shows, Saves, Moving, Moved, Dirty, Columns, Nothing
      <3>3. QED
        BY <1>2, <3>1, <3>2 DEF AloneInv
    <2>3. QED
      BY <1>2, <2>1, <2>2 DEF Next, AloneInv
  <1>3. QED
    BY <1>1, <1>2, StockHolds, PTL DEF Spec

-----------------------------------------------------------------------------
(* Goods shipped out, counted: the units of all shipments are those of one of them and
   those of the others. *)

Units(of, some) == UNION {{s} \X (1 .. of[s]) : s \in some}

LEMMA UnitsOfOne ==
  ASSUME NEW s, NEW n \in Nat
  PROVE  IsFiniteSet({s} \X (1 .. n)) /\ Cardinality({s} \X (1 .. n)) = n
  <1>1. IsFiniteSet(1 .. n) /\ Cardinality(1 .. n) = n
    BY FS_Interval
  <1>2. IsFiniteSet({s}) /\ Cardinality({s}) = 1
    BY FS_Singleton
  <1>3. /\ IsFiniteSet({s} \X (1 .. n))
        /\ Cardinality({s} \X (1 .. n)) = Cardinality({s}) * Cardinality(1 .. n)
    BY <1>1, <1>2, FS_Product
  <1>4. QED
    BY <1>1, <1>2, <1>3

LEMMA UnitsFinite ==
  ASSUME NEW of \in [Shipments -> Nat], NEW some \in SUBSET Shipments
  PROVE  IsFiniteSet(Units(of, some))
  <1> DEFINE Pile(s) == {s} \X (1 .. of[s])
             Piles == {Pile(s) : s \in some}
  <1>1. \A s \in some : IsFiniteSet(Pile(s))
    BY UnitsOfOne
  <1> HIDE DEF Pile
  <1>2. IsFiniteSet(some)
    BY ShipmentsAssumption, FS_Subset
  <1>3. [s \in some |-> Pile(s)] \in Surjection(some, Piles)
    BY DEF Surjection
  <1>4. IsFiniteSet(Piles)
    BY <1>2, <1>3, FS_Surjection
  <1>5. \A P \in Piles : IsFiniteSet(P)
    BY <1>1
  <1>6. IsFiniteSet(UNION Piles)
    <2> HIDE DEF Piles
    <2> QED
      BY <1>4, <1>5, FS_UNION
  <1>7. QED
    BY <1>6 DEF Units, Pile

LEMMA UnitsSplit ==
  ASSUME NEW of \in [Shipments -> Nat], NEW s \in Shipments
  PROVE  /\ Cardinality(Units(of, Shipments)) = Cardinality(Units(of, Shipments \ {s})) + of[s]
         /\ Cardinality(Units(of, Shipments \ {s})) \in Nat
  <1> DEFINE One == {s} \X (1 .. of[s])
             Rest == Units(of, Shipments \ {s})
  <1>1. Units(of, Shipments) = Rest \cup One
    BY DEF Units
  <1>2. Rest \cap One = {}
    BY DEF Units
  <1>3. IsFiniteSet(Rest)
    BY UnitsFinite
  <1>4. of[s] \in Nat
    OBVIOUS
  <1>5. IsFiniteSet(One) /\ Cardinality(One) = of[s]
    BY <1>4, UnitsOfOne
  <1> HIDE DEF One, Rest
  <1>6. Cardinality(Rest) \in Nat
    BY <1>3, FS_CardinalityType
  <1>7. Cardinality(Rest \cup One) = Cardinality(Rest) + Cardinality(One) - Cardinality(Rest \cap One)
    BY <1>3, <1>5, FS_Union
  <1>8. Cardinality(Rest \cap One) = 0
    BY <1>2, FS_EmptySet
  <1>9. Cardinality(Rest \cup One) = Cardinality(Rest) + of[s]
    BY <1>4, <1>5, <1>6, <1>7, <1>8
  <1>10. QED
    BY <1>1, <1>6, <1>9 DEF Rest

\* Other quantities of one shipment are other totals by the difference.
LEMMA UnitsChange ==
  ASSUME NEW of \in [Shipments -> Nat], NEW then \in [Shipments -> Nat], NEW s \in Shipments,
         \A q \in Shipments \ {s} : then[q] = of[q]
  PROVE  /\ Cardinality(Units(then, Shipments)) = Cardinality(Units(of, Shipments)) - of[s] + then[s]
         /\ Cardinality(Units(of, Shipments)) \in Nat
         /\ of[s] <= Cardinality(Units(of, Shipments))
  <1>1. Units(then, Shipments \ {s}) = Units(of, Shipments \ {s})
    BY DEF Units
  <1>2. /\ Cardinality(Units(of, Shipments)) = Cardinality(Units(of, Shipments \ {s})) + of[s]
        /\ Cardinality(Units(of, Shipments \ {s})) \in Nat
    BY UnitsSplit
  <1>3. Cardinality(Units(then, Shipments)) = Cardinality(Units(then, Shipments \ {s})) + then[s]
    BY UnitsSplit
  <1>4. of[s] \in Nat /\ then[s] \in Nat
    OBVIOUS
  <1>5. QED
    BY <1>1, <1>2, <1>3, <1>4

\* What each shipment has out of one line.
OutOf(l) == [s \in Shipments |-> Out(s)[l]]

LEMMA OutTyping ==
  ASSUME TypeOK, NEW s \in Shipments
  PROVE  Out(s) \in [Lines -> Nat]
  BY NothingTyping, ItemsAreQuantities DEF Out, TypeOK

OutCounted ==
  \A l \in Lines :
    /\ OutOf(l) \in [Shipments -> Nat]
    /\ ShippedOut(l) = Cardinality(Units(OutOf(l), Shipments))

LEMMA OutIsCounted ==
  ASSUME TypeOK
  PROVE  OutCounted
  <1> SUFFICES ASSUME NEW l \in Lines
               PROVE  /\ OutOf(l) \in [Shipments -> Nat]
                      /\ ShippedOut(l) = Cardinality(Units(OutOf(l), Shipments))
    BY DEF OutCounted
  <1>1. OutOf(l) \in [Shipments -> Nat]
    BY OutTyping DEF OutOf
  <1>2. \A s \in Shipments : OutOf(l)[s] = Out(s)[l]
    BY DEF OutOf
  <1>3. Units(OutOf(l), Shipments) = UNION {{s} \X (1 .. Out(s)[l]) : s \in Shipments}
    BY <1>2 DEF Units
  <1>4. QED
    BY <1>1, <1>3 DEF ShippedOut

-----------------------------------------------------------------------------
(* What a step does to the stock: nothing, or it takes out all the goods of one shipment,
   or puts all of them back. *)

OthersOut(s) == \A q \in Shipments \ {s} : Out(q)' = Out(q)

MovesNothing ==
  /\ \A s \in Shipments : Out(s)' = Out(s)
  /\ \A l \in SteadyLines : line'[l] = line[l]

TakesOut(s) ==
  /\ Out(s) = Nothing
  /\ OthersOut(s)
  /\ \A l \in SteadyLines :
       line'[l].qty = line[l].qty /\ line'[l].shipped = line[l].shipped + Out(s)'[l]

PutsBack(s) ==
  /\ Out(s)' = Nothing
  /\ OthersOut(s)
  /\ \A l \in SteadyLines :
       line'[l].qty = line[l].qty /\ line'[l].shipped = Less(line[l].shipped, Out(s)[l])

LEMMA OutKept ==
  ASSUME UNCHANGED <<shipment, items>>
  PROVE  \A s \in Shipments : Out(s)' = Out(s)
  BY DEF Out, Placed, Nothing

LEMMA CommitMoves ==
  ASSUME AloneInv, NEW r \in Requests, CommitShipment(r)
  PROVE  MovesNothing \/ \E s \in Shipments : TakesOut(s) \/ PutsBack(s)
  <1> USE DEF AloneInv, StockInv, TypeInv
  <1>0. PICK s \in Shipments : s = tx[r].shipment
    BY WorksOn DEF CommitShipment, Works
  <1>1. /\ tx[r].at = "save" /\ tx[r] \in Fulfilling /\ s \in Shipments
        /\ Changing(r) /\ Moving(r) /\ Moved(r)
    <2>1. tx[r].at = "save" /\ tx[r] \in Fulfilling /\ Settled(r)
      BY StageTyping DEF CommitShipment, TypeOK
    <2>2. QED
      BY <2>1 DEF Settled, Fulfilling
  <1>2. tx[r].entity \in Header /\ shipment[s] \in Header /\ tx[r].dirty = Dirty(tx[r].entity, shipment[s])
    <2>1. tx[r].entity \in Header
      BY <1>1 DEF Fulfilling
    <2>2. shipment[s] \in Header
      BY <1>0, <1>1 DEF TypeOK, FulfilledExist
    <2>3. QED
      BY <1>0, <1>1, <2>1, <2>2 DEF Moved
  <1>3. shipment'[s] = tx[r].entity
    <2>1. shipment'[s] = Written(shipment[s], tx[r].entity, tx[r].dirty)
      BY <1>0, <1>1 DEF CommitShipment, TypeOK
    <2>2. Written(shipment[s], tx[r].entity, tx[r].dirty)
            = [status |-> tx[r].entity.status, locked |-> tx[r].entity.locked]
      BY <1>0, <1>2 DEF Written, Dirty, Columns
    <2>3. QED
      BY <1>0, <1>2, <2>1, <2>2, HeaderIs
  <1>4. items' = items /\ \A q \in Shipments \ {s} : shipment'[q] = shipment[q]
    BY <1>0 DEF CommitShipment, TypeOK
  <1>5. OthersOut(s)
    BY <1>0, <1>4 DEF OthersOut, Out, Placed, Nothing
  <1>6. ASSUME NEW l \in SteadyLines
        PROVE  /\ tx[r].want[l] \in Nat /\ line[l].shipped \in Nat
               /\ line'[l].qty = line[l].qty
               /\ tx[r].effect = "none" => line'[l] = line[l]
               /\ tx[r].effect = "take" => line'[l].shipped = line[l].shipped + tx[r].want[l]
               /\ tx[r].effect = "return" => line'[l].shipped = Less(line[l].shipped, tx[r].want[l])
    <2>1. l \in Lines /\ line[l] \in Line /\ tx[r].want[l] \in Nat /\ line[l].shipped \in Nat
      BY <1>0, <1>1 DEF SteadyLines, TypeOK, Line, Fulfilling
    <2>2. line'[l] = IF tx[r].new[l] = None THEN line[l] ELSE [line[l] EXCEPT !.shipped = tx[r].new[l]]
      BY <2>1 DEF CommitShipment, Restocked
    <2>3. tx[r].new[l] # None <=> tx[r].want[l] # 0
      BY <1>0, <1>1, <2>1 DEF Moving, Moved
    <2>4. tx[r].effect = "none" => tx[r].want[l] = 0
      BY <1>0, <1>1, <2>1 DEF Moving, Nothing
    <2>5. CASE tx[r].want[l] = 0
      <3>1. line'[l] = line[l] /\ Less(line[l].shipped, tx[r].want[l]) = line[l].shipped
        BY <2>1, <2>2, <2>3, <2>5 DEF Less
      <3>2. QED
        BY <2>1, <2>5, <3>1
    <2>6. CASE tx[r].want[l] # 0
      <3>1. LineStands(r, l)
        BY <1>0, <1>1, <2>1, <2>3, <2>6 DEF LockedLinesStand
      <3>2. line'[l].qty = line[l].qty /\ line'[l].shipped = tx[r].new[l]
        BY <2>1, <2>2, <2>3, <2>6 DEF Line
      <3>3. tx[r].effect = "take" => tx[r].new[l] = line[l].shipped + tx[r].want[l]
        BY <3>1 DEF LineStands
      <3>4. tx[r].effect = "return" => tx[r].new[l] = Less(line[l].shipped, tx[r].want[l])
        BY <3>1 DEF LineStands
      <3>5. QED
        BY <2>1, <2>4, <2>6, <3>2, <3>3, <3>4
    <2>7. QED
      BY <2>5, <2>6
  <1>7. shipment[s] # None /\ shipment'[s] # None
    BY <1>0, <1>2, <1>3, NoneAssumption
  <1>8. CASE tx[r].effect = "take"
    <2>1. Shows(s, "AWAITING", FALSE) /\ Saves(r, "AWAITING", TRUE)
      BY <1>0, <1>1, <1>8 DEF Changing
    <2>2. Out(s) = Nothing
      BY <2>1 DEF Shows, Out
    <2>3. Out(s)' = items[s]
      BY <1>0, <1>3, <1>4, <1>7, <2>1 DEF Saves, Out, Placed
    <2>4. tx[r].want = items[s]
      BY <1>0, <1>1, <1>8 DEF Moving
    <2>5. TakesOut(s)
      BY <1>0, <1>5, <1>6, <1>8, <2>2, <2>3, <2>4 DEF TakesOut
    <2>6. QED
      BY <1>0, <1>1, <2>5
  <1>9. CASE tx[r].effect = "return"
    <2>1. Shows(s, "AWAITING", TRUE) /\ Saves(r, "CANCELLED", TRUE)
      BY <1>0, <1>1, <1>9 DEF Changing
    <2>2. Out(s) = items[s]
      BY <1>0, <1>7, <2>1 DEF Shows, Out, Placed
    <2>3. Out(s)' = Nothing
      BY <1>0, <1>3, <2>1 DEF Saves, Out, Nothing
    <2>4. tx[r].want = items[s]
      BY <1>0, <1>1, <1>9 DEF Moving
    <2>5. PutsBack(s)
      BY <1>0, <1>5, <1>6, <1>9, <2>2, <2>3, <2>4 DEF PutsBack
    <2>6. QED
      BY <1>0, <1>1, <2>5
  <1>10. CASE tx[r].effect = "none"
    <2>1. \/ Shows(s, "AWAITING", TRUE) /\ Saves(r, "DONE", TRUE)
          \/ Shows(s, "AWAITING", FALSE) /\ Saves(r, "CANCELLED", FALSE)
      BY <1>0, <1>1, <1>10 DEF Changing
    <2>2. Out(s)' = Out(s)
      BY <1>0, <1>3, <1>4, <1>7, <2>1 DEF Shows, Saves, Out, Placed, Nothing
    <2>3. MovesNothing
      BY <1>0, <1>5, <1>6, <1>10, <2>2 DEF MovesNothing, OthersOut
    <2>4. QED
      BY <2>3
  <1>11. QED
    BY <1>0, <1>1, <1>8, <1>9, <1>10 DEF Fulfilling

LEMMA StepMoves ==
  ASSUME AloneInv, NEW r \in Requests, Begin(r) \/ Continue(r) \/ Fail(r)
  PROVE  MovesNothing \/ \E s \in Shipments : TakesOut(s) \/ PutsBack(s)
  <1> USE DEF AloneInv, StockInv, TypeInv
  <1>1. CASE CommitShipment(r)
    BY <1>1, CommitMoves
  <1>2. CASE Place(r)
    <2>1. PICK s \in Shipments, want \in ItemLists :
            /\ ~Placed(s)
            /\ shipment' = [shipment EXCEPT ![s] = [status |-> "AWAITING", locked |-> FALSE]]
            /\ items' = [items EXCEPT ![s] = want]
      BY <1>2 DEF Place
    <2>2. shipment'[s].locked = FALSE /\ \A q \in Shipments \ {s} : shipment'[q] = shipment[q] /\ items'[q] = items[q]
      BY <2>1 DEF TypeOK
    <2>3. \A q \in Shipments : Out(q)' = Out(q)
      BY <2>1, <2>2 DEF Out, Placed, Nothing
    <2>4. QED
      BY <1>2, <2>3 DEF Place, MovesNothing
  <1>3. CASE CommitEditItems(r)
    <2>1. tx[r].shipment \in Shipments /\ Shows(tx[r].shipment, "AWAITING", FALSE)
      BY <1>3, WorksOn DEF CommitEditItems, Works, Settled
    <2>2. shipment' = shipment /\ \A q \in Shipments \ {tx[r].shipment} : items'[q] = items[q]
      BY <1>3 DEF CommitEditItems, TypeOK
    <2>3. \A q \in Shipments : Out(q)' = Out(q)
      BY <2>1, <2>2 DEF Out, Placed, Nothing, Shows
    <2>4. QED
      BY <1>3, <2>3 DEF CommitEditItems, MovesNothing
  <1>4. CASE SaveLine(r)
    <2>1. tx[r].line \in EditedLines
      BY <1>4, StageTyping DEF SaveLine, TypeOK, EditingLine
    <2>2. \A l \in SteadyLines : line'[l] = line[l]
      BY <1>4, <2>1 DEF SaveLine, TypeOK, SteadyLines
    <2>3. QED
      BY <1>4, <2>2, OutKept DEF SaveLine, MovesNothing
  <1>5. CASE UNCHANGED <<line, shipment, items>>
    BY <1>5, OutKept DEF MovesNothing
  <1>6. QED
    BY <1>1, <1>2, <1>3, <1>4, <1>5
       DEF Begin, Continue, Fail, Refuse, AbortDeadlock, RollBack, BeginEditItems, BeginLock, BeginMove,
           BeginFulfil, LoadLine, ReadItems, TakeLine, ReturnLine, SelectShipment, SelectLine

-----------------------------------------------------------------------------
(* The stock is what the shipments have out.  It is also what makes the Math.max of a
   return idle: a shipment that is out is part of what its lines have shipped. *)

StockIs == AloneInv /\ StockMatchesShipments

LEMMA LineStock ==
  ASSUME StockIs, NEW l \in SteadyLines
  PROVE  /\ l \in Lines /\ line[l].shipped \in Nat
         /\ OutOf(l) \in [Shipments -> Nat]
         /\ line[l].shipped = Cardinality(Units(OutOf(l), Shipments))
  <1>1. l \in Lines /\ line[l].shipped = ShippedOut(l)
    BY DEF StockIs, StockMatchesShipments, SteadyLines
  <1>2. TypeOK
    BY DEF StockIs, AloneInv, StockInv, TypeInv
  <1>3. QED
    BY <1>1, <1>2, OutIsCounted DEF OutCounted, TypeOK, Line

LEMMA ReturnIsWhole ==
  ASSUME StockIs, NEW l \in SteadyLines, NEW s \in Shipments
  PROVE  /\ Out(s)[l] \in Nat /\ line[l].shipped \in Nat /\ Out(s)[l] <= line[l].shipped
         /\ Less(line[l].shipped, Out(s)[l]) = line[l].shipped - Out(s)[l]
  <1>1. /\ OutOf(l) \in [Shipments -> Nat]
        /\ line[l].shipped \in Nat
        /\ line[l].shipped = Cardinality(Units(OutOf(l), Shipments))
    BY LineStock
  <1>2. OutOf(l)[s] <= line[l].shipped
    BY <1>1, UnitsChange
  <1>3. OutOf(l)[s] = Out(s)[l]
    BY DEF OutOf
  <1>4. QED
    BY <1>1, <1>2, <1>3 DEF Less

LEMMA StepKeepsStock ==
  ASSUME StockIs, OutCounted', MovesNothing \/ \E s \in Shipments : TakesOut(s) \/ PutsBack(s)
  PROVE  StockMatchesShipments'
  <1> SUFFICES ASSUME NEW l \in SteadyLines
               PROVE  line'[l].shipped = ShippedOut(l)'
    BY DEF StockMatchesShipments, SteadyLines
  <1>1. /\ l \in Lines /\ line[l].shipped \in Nat
        /\ OutOf(l) \in [Shipments -> Nat]
        /\ line[l].shipped = Cardinality(Units(OutOf(l), Shipments))
    BY LineStock
  <1>2. /\ OutOf(l)' \in [Shipments -> Nat]
        /\ ShippedOut(l)' = Cardinality(Units(OutOf(l)', Shipments))
    BY <1>1 DEF OutCounted, Units
  <1>3. \A s \in Shipments : OutOf(l)[s] = Out(s)[l] /\ OutOf(l)'[s] = Out(s)'[l]
    BY DEF OutOf
  <1>4. CASE MovesNothing
    <2>1. line'[l] = line[l] /\ OutOf(l)' = OutOf(l)
      BY <1>4 DEF MovesNothing, OutOf
    <2>2. QED
      BY <1>1, <1>2, <2>1
  <1>5. ASSUME NEW s \in Shipments, TakesOut(s) \/ PutsBack(s) PROVE line'[l].shipped = ShippedOut(l)'
    <2>1. \A q \in Shipments \ {s} : OutOf(l)'[q] = OutOf(l)[q]
      BY <1>3, <1>5 DEF TakesOut, PutsBack, OthersOut
    <2>2. Cardinality(Units(OutOf(l)', Shipments))
            = Cardinality(Units(OutOf(l), Shipments)) - OutOf(l)[s] + OutOf(l)'[s]
      BY <1>1, <1>2, <2>1, UnitsChange
    <2>3. OutOf(l)[s] = Out(s)[l] /\ OutOf(l)'[s] = Out(s)'[l]
      BY <1>3
    <2>4. ShippedOut(l)' = line[l].shipped - Out(s)[l] + Out(s)'[l]
      BY <1>1, <1>2, <2>2, <2>3
    <2>5. OutOf(l)[s] \in Nat /\ OutOf(l)'[s] \in Nat
      BY <1>1, <1>2
    <2>6. CASE TakesOut(s)
      <3>1. Out(s)[l] = 0 /\ line'[l].shipped = line[l].shipped + Out(s)'[l]
        BY <1>1, <2>6 DEF TakesOut, Nothing
      <3>2. QED
        BY <1>1, <2>3, <2>4, <2>5, <3>1
    <2>7. CASE PutsBack(s)
      <3>1. Out(s)'[l] = 0 /\ line'[l].shipped = Less(line[l].shipped, Out(s)[l])
        BY <1>1, <2>7 DEF PutsBack, Nothing
      <3>2. Less(line[l].shipped, Out(s)[l]) = line[l].shipped - Out(s)[l]
        BY ReturnIsWhole
      <3>3. QED
        BY <1>1, <2>3, <2>4, <2>5, <3>1, <3>2
    <2>8. QED
      BY <1>5, <2>6, <2>7
  <1>6. QED
    BY <1>4, <1>5

LEMMA InitStockIs ==
  ASSUME Init, AloneInv
  PROVE  StockMatchesShipments
  <1> SUFFICES ASSUME NEW l \in SteadyLines PROVE line[l].shipped = ShippedOut(l)
    BY DEF StockMatchesShipments
  <1>1. l \in Lines /\ line[l].shipped = 0
    BY DEF Init, SteadyLines
  <1>2. \A s \in Shipments : Out(s)[l] = 0
    BY <1>1 DEF Init, Out, Placed, Nothing
  <1>3. UNION {{s} \X (1 .. Out(s)[l]) : s \in Shipments} = {}
    BY <1>2
  <1>4. QED
    BY <1>1, <1>3, FS_EmptySet DEF ShippedOut

LEMMA StockIsHolds ==
  ASSUME Overlapping = {}
  PROVE  Spec => []StockIs
  <1>1. ASSUME StockIs, AloneInv', OutCounted', [Next]_vars PROVE StockIs'
    <2>1. ASSUME NEW r \in Requests, Begin(r) \/ Continue(r) \/ Fail(r) PROVE StockMatchesShipments'
      BY <1>1, <2>1, StepMoves, StepKeepsStock DEF StockIs
    <2>2. CASE UNCHANGED vars
      <3>1. MovesNothing
        BY <2>2, OutKept DEF vars, MovesNothing
      <3>2. QED
        BY <1>1, <3>1, StepKeepsStock DEF StockIs
    <2>3. QED
      BY <1>1, <2>1, <2>2 DEF Next, StockIs
  <1>2. Init /\ AloneInv => StockIs
    BY InitStockIs DEF StockIs
  <1>3. AloneInv => OutCounted
    BY OutIsCounted DEF AloneInv, StockInv, TypeInv
  <1>4. QED
    BY <1>1, <1>2, <1>3, AloneHolds, PTL DEF Spec

(* Served one request at a time on each shipment, the shipped quantity of every line that
   no order-side edit saves is what the locked shipments draw from it, however the
   shipments interleave on their lines and wherever they fail (shipment.service.ts:674-700,
   764-768). *)
THEOREM StockMatches ==
  ASSUME Overlapping = {}
  PROVE  Spec => []StockMatchesShipments
  <1>1. StockIs => StockMatchesShipments
    BY DEF StockIs
  <1>2. QED
    BY StockIsHolds, <1>1, PTL

(* "How much of this line has already been shipped back out via locked shipments"
   (order-detail.entity.ts:55) is true of every line, once no order-side edit saves a line
   while shipments run and no two requests work on one shipment at a time: nothing but
   these two races breaks it. *)
THEOREM ShippedViaLocked ==
  ASSUME Overlapping = {}, EditedLines = {}
  PROVE  Spec => []ShippedViaLockedShipments
  <1>1. StockMatchesShipments => ShippedViaLockedShipments
    BY DEF StockMatchesShipments, ShippedViaLockedShipments, SteadyLines
  <1>2. QED
    BY StockMatches, <1>1, PTL

-----------------------------------------------------------------------------
(* The shelf: what a commit does to the stock, all at once. *)

LEMMA InitIsStocked ==
  ASSUME Init, TypeOK
  PROVE  TheShelf!Stocked
  <1>1. \A l \in SteadyLines : l \in Lines /\ line[l].qty \in Nat /\ line[l].shipped = 0
    BY DEF Init, TypeOK, Line, SteadyLines
  <1>2. [l \in SteadyLines |-> line[l].qty] \in [SteadyLines -> Nat]
    BY <1>1
  <1>3. [l \in SteadyLines |-> line[l].shipped] = [l \in SteadyLines |-> 0]
    BY <1>1
  <1>4. \A s \in Shipments : Out(s) = Nothing
    BY DEF Init, Out, Placed
  <1>5. OfSteady(Nothing) = [l \in SteadyLines |-> 0]
    BY DEF OfSteady, Nothing, SteadyLines
  <1>6. [s \in Shipments |-> OfSteady(Out(s))] = [s \in Shipments |-> [l \in SteadyLines |-> 0]]
    BY <1>4, <1>5
  <1>7. QED
    BY <1>2, <1>3, <1>6 DEF TheShelf!Stocked, TheShelf!Nothing

LEMMA StepIsOnTheShelf ==
  ASSUME StockIs, TypeOK', NeverOverShipped',
         MovesNothing \/ \E s \in Shipments : TakesOut(s) \/ PutsBack(s)
  PROVE  [(\E p \in Shipments : TheShelf!Dispatch(p) \/ TheShelf!Recall(p))
            /\ [l \in SteadyLines |-> line[l].qty]' = [l \in SteadyLines |-> line[l].qty]]_(TheShelf!shelf)
  <1> DEFINE Qty == [l \in SteadyLines |-> line[l].qty]
             Shipped == [l \in SteadyLines |-> line[l].shipped]
             OutNow == [s \in Shipments |-> OfSteady(Out(s))]
  <1>1. CASE MovesNothing
    <2>1. \A s \in Shipments : OfSteady(Out(s))' = OfSteady(Out(s))
      BY <1>1 DEF MovesNothing, OfSteady, SteadyLines
    <2>2. Qty' = Qty /\ Shipped' = Shipped
      BY <1>1 DEF MovesNothing, SteadyLines
    <2>3. OutNow' = OutNow
      BY <2>1
    <2>4. QED
      BY <2>2, <2>3 DEF TheShelf!shelf
  <1>2. ASSUME NEW s \in Shipments, TakesOut(s) \/ PutsBack(s)
        PROVE  (TheShelf!Dispatch(s) \/ TheShelf!Recall(s)) /\ Qty' = Qty
    <2>1. \A l \in SteadyLines : line'[l].qty = line[l].qty
      BY <1>2 DEF TakesOut, PutsBack
    <2>2. Qty' = Qty
      BY <2>1 DEF SteadyLines
    <2>3. \A q \in Shipments \ {s} : OfSteady(Out(q))' = OfSteady(Out(q))
      BY <1>2 DEF TakesOut, PutsBack, OthersOut, OfSteady, SteadyLines
    <2>4. TheShelf!Others(s)
      BY <2>3 DEF TheShelf!Others
    <2>5. OfSteady(Nothing) = [l \in SteadyLines |-> 0]
      BY DEF OfSteady, Nothing, SteadyLines
    <2>6. CASE TakesOut(s)
      <3>1. OutNow[s] = [l \in SteadyLines |-> 0]
        BY <2>5, <2>6 DEF TakesOut
      <3>2. OutNow'[s] = [l \in SteadyLines |-> Out(s)'[l]]
        BY DEF OfSteady, SteadyLines
      <3>3. Shipped' = [l \in SteadyLines |-> Shipped[l] + OutNow'[s][l]]
        <4>1. \A l \in SteadyLines : line'[l].shipped = line[l].shipped + Out(s)'[l]
          BY <2>6 DEF TakesOut
        <4>2. QED
          BY <3>2, <4>1 DEF SteadyLines
      <3>4. \A l \in SteadyLines : Shipped'[l] <= Qty[l]
        BY <2>1 DEF NeverOverShipped, SteadyLines
      <3>5. TheShelf!Dispatch(s)
        BY <2>4, <3>1, <3>3, <3>4 DEF TheShelf!Dispatch, TheShelf!Nothing
      <3>6. QED
        BY <2>2, <3>5
    <2>7. CASE PutsBack(s)
      <3>1. OutNow'[s] = [l \in SteadyLines |-> 0]
        BY <2>5, <2>7 DEF PutsBack, OfSteady, SteadyLines, Nothing
      <3>2. Shipped' = [l \in SteadyLines |-> Shipped[l] - OutNow[s][l]]
        <4>1. \A l \in SteadyLines : line'[l].shipped = line[l].shipped - Out(s)[l]
          BY <2>7, ReturnIsWhole DEF PutsBack
        <4>2. \A l \in SteadyLines : OutNow[s][l] = Out(s)[l]
          BY DEF OfSteady
        <4>3. QED
          BY <4>1, <4>2 DEF SteadyLines
      <3>3. TheShelf!Recall(s)
        BY <2>4, <3>1, <3>2 DEF TheShelf!Recall, TheShelf!Nothing
      <3>4. QED
        BY <2>2, <3>3
    <2>8. QED
      BY <1>2, <2>6, <2>7
  <1>3. QED
    BY <1>1, <1>2

(* Shipments implement the shelf: seen from the received lines, lockShipment takes all the
   goods of a shipment at once out of what is left, and a cancellation puts all of them
   back or none, though each is a transaction of many steps that can fail at any of them
   (shipment.service.ts:589-723, 764-793). *)
THEOREM IsAShelf ==
  ASSUME Overlapping = {}
  PROVE  Spec => StockIsAShelf
  <1>1. Init /\ StockIs => TheShelf!Stocked
    BY InitIsStocked DEF StockIs, AloneInv, StockInv, TypeInv
  <1>2. ASSUME StockIs, StockIs', [Next]_vars
        PROVE  [(\E p \in Shipments : TheShelf!Dispatch(p) \/ TheShelf!Recall(p))
                  /\ [l \in SteadyLines |-> line[l].qty]' = [l \in SteadyLines |-> line[l].qty]]_(TheShelf!shelf)
    <2>1. MovesNothing \/ \E s \in Shipments : TakesOut(s) \/ PutsBack(s)
      <3>1. CASE UNCHANGED vars
        BY <3>1, OutKept DEF vars, MovesNothing
      <3>2. QED
        BY <1>2, <3>1, StepMoves DEF Next, StockIs
    <2>2. TypeOK' /\ NeverOverShipped'
      BY <1>2 DEF StockIs, AloneInv, StockInv, TypeInv
    <2>3. QED
      BY <1>2, <2>1, <2>2, StepIsOnTheShelf
  <1>3. QED
    BY <1>1, <1>2, StockIsHolds, PTL DEF Spec, StockIsAShelf, TheShelf!Spec
=============================================================================
