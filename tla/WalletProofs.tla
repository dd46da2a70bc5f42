---------------------------- MODULE WalletProofs ----------------------------
(***************************************************************************)
(* Theorems about Wallet, for every set of users, targets and requests and *)
(* all rates, quantities and prices: first that no balance is overdrawn,   *)
(* then that the ledger of a user adds up to the balance, that fee rows    *)
(* and ledger rows are only ever added to, that what is locked has been    *)
(* billed, that the wallets keep the books of Bookkeeping, that a live fee *)
(* has been charged once and in full, and last that requests never all     *)
(* wait and no step is taken in vain.                                      *)
(***************************************************************************)
EXTENDS Wallet, FiniteSetTheorems, TLAPS

-----------------------------------------------------------------------------
(* The stage a request is at tells what it has read. *)

LEMMA StageTyping ==
  ASSUME NEW t \in Tx
  PROVE  /\ t.at = "add_fee" => t \in AddingFee
         /\ t.at = "void_fee" => t \in VoidingFee
         /\ t.at \in {"edit_user", "save_user"} => t \in EditingUser
         /\ t.at = "lock" => t \in Locking
         /\ t.at = "charged" => t \in Charging
         /\ t.at = "save_lock" => t \in SavingLock
         /\ t.at = "edit" => t \in Editing
         /\ t.at = "save_edit" => t \in SavingEdit
  BY DEF Tx, Fresh, Answered, AddingFee, VoidingFee, EditingUser, Locking, Charging,
         SavingLock, Editing, SavingEdit

LEMMA NatProduct == \A a, b \in Nat : a * b \in Nat
  OBVIOUS

LEMMA BillTyping ==
  ASSUME NEW u \in Users, NEW bill \in Bills(u)
  PROVE  bill \in Bill
  <1> USE UsersAssumption, AmountsAssumption, NatProduct DEF Bill
  <1>1. ASSUME NEW rate \in Rates, NEW qty \in Qtys
        PROVE  PlainBill(rate, qty) \in Bill
    BY <1>1 DEF PlainBill
  <1>2. ASSUME NEW rate \in Rates, NEW groupRate \in Rates, NEW qty \in Qtys,
               NEW owner \in OwnersOf[u]
        PROVE  GroupBill(rate, groupRate, qty, owner) \in Bill
    <2>1. AtLeast(groupRate, rate) \in Nat
      BY DEF AtLeast
    <2>2. AtLeast(groupRate, rate) * qty \in Nat /\ rate * qty \in Nat
      BY <2>1
    <2>3. owner \in Users \cup {None}
      OBVIOUS
    <2>4. QED
      BY <2>2, <2>3 DEF GroupBill
  <1>3. QED
    BY <1>1, <1>2 DEF Bills

-----------------------------------------------------------------------------
(* Type correctness.  A request about to refund a fee has seen the fee's row, and
   fee rows are never deleted: without this the refund has no amount. *)

VoidedFeesExist == \A r \in Requests : tx[r].at = "void_fee" => fees[tx[r].fee] # None

TypeInv == TypeOK /\ VoidedFeesExist

LEMMA PostTyping ==
  ASSUME TypeOK, NEW u \in Users, NEW type \in EntryType, NEW amount \in Int,
         NEW f \in Requests \cup {None}, Post(u, type, amount, f)
  PROVE  credit' \in [Users -> Int] /\ ledger' \in [Users -> Seq(Entry)]
  <1>1. credit[u] \in Int
    BY DEF TypeOK
  <1>2. Posting(type, credit[u], amount, f) \in Entry
    BY <1>1 DEF Posting, Entry
  <1>3. credit' \in [Users -> Int]
    BY <1>1 DEF Post, TypeOK
  <1>4. Append(ledger[u], Posting(type, credit[u], amount, f)) \in Seq(Entry)
    BY <1>2 DEF TypeOK
  <1>5. ledger' \in [Users -> Seq(Entry)]
    BY <1>4 DEF Post, TypeOK
  <1>6. QED
    BY <1>3, <1>5

LEMMA GotoTyping ==
  ASSUME TypeOK, NEW r \in Requests, NEW t \in Tx, Goto(r, t)
  PROVE  /\ tx' \in [Requests -> Tx]
         /\ tx'[r] = t
         /\ \A q \in Requests \ {r} : tx'[q] = tx[q]
  BY DEF TypeOK, Goto

LEMMA AnswerTyping ==
  ASSUME TypeOK, NEW r \in Requests, Answer(r)
  PROVE  /\ tx' \in [Requests -> Tx]
         /\ tx'[r] = [at |-> "answered"]
         /\ \A q \in Requests \ {r} : tx'[q] = tx[q]
  <1>1. [at |-> "answered"] \in Tx
    BY DEF Tx, Answered
  <1>2. QED
    BY <1>1, GotoTyping DEF Answer

LEMMA ReleaseTyping ==
  ASSUME TypeOK, NEW r \in Requests
  PROVE  Release(r) \in [Users -> Requests \cup {None}]
  BY DEF TypeOK, Release

LEMMA InitTyping == Init => TypeInv
  <1> SUFFICES ASSUME Init PROVE TypeInv
    OBVIOUS
  <1> USE UsersAssumption, TargetsAssumption
  <1>1. credit \in [Users -> Int]
    BY DEF Init
  <1>2. ledger \in [Users -> Seq(Entry)]
    <2>1. ASSUME NEW u \in Users
          PROVE  Posting("top_up", 0, Opening[u], None) \in Entry
      BY DEF Posting, Entry, EntryType
    <2>2. ASSUME NEW u \in Users
          PROVE  (IF Opening[u] = 0 THEN <<>> ELSE <<Posting("top_up", 0, Opening[u], None)>>)
                   \in Seq(Entry)
      BY <2>1
    <2>3. QED
      BY <2>2 DEF Init
  <1>3. fees \in [Requests -> Fee \cup {None}] /\ rowLock \in [Users -> Requests \cup {None}]
    BY DEF Init
  <1>4. header \in [Targets -> Header]
    BY DEF Init, Header
  <1>5. tx \in [Requests -> Tx]
    BY DEF Init, Tx, Fresh
  <1>6. VoidedFeesExist
    BY DEF Init, VoidedFeesExist
  <1>7. QED
    BY <1>1, <1>2, <1>3, <1>4, <1>5, <1>6 DEF TypeInv, TypeOK

(* Fee rows stay fee rows: what keeps VoidedFeesExist true. *)
LEMMA FeesKept ==
  ASSUME TypeInv, tx' \in [Requests -> Tx], NEW r \in Requests,
         \A q \in Requests \ {r} : tx'[q] = tx[q],
         tx'[r].at # "void_fee",
         \A f \in Requests : fees[f] # None => fees'[f] # None
  PROVE  VoidedFeesExist'
  <1> SUFFICES ASSUME NEW q \in Requests, tx'[q].at = "void_fee"
               PROVE  fees'[tx'[q].fee] # None
    BY DEF VoidedFeesExist
  <1>1. q # r /\ tx'[q] = tx[q]
    OBVIOUS
  <1>2. fees[tx[q].fee] # None
    BY <1>1 DEF TypeInv, VoidedFeesExist
  <1>3. tx[q].fee \in Requests
    BY <1>1, StageTyping DEF TypeInv, TypeOK, VoidingFee
  <1>4. QED
    BY <1>1, <1>2, <1>3

LEMMA BeginTyping ==
  ASSUME TypeInv, NEW r \in Requests, Begin(r)
  PROVE  TypeInv'
  <1> USE DEF TypeInv
  <1>1. ASSUME NEW u \in Users, NEW type \in EntryType, NEW amount \in Int,
               Post(u, type, amount, None), Answer(r), UNCHANGED <<fees, header, rowLock>>
        PROVE  TypeInv'
    <2>1. tx' \in [Requests -> Tx] /\ tx'[r] = [at |-> "answered"]
          /\ \A q \in Requests \ {r} : tx'[q] = tx[q]
      BY <1>1, AnswerTyping
    <2>2. credit' \in [Users -> Int] /\ ledger' \in [Users -> Seq(Entry)]
      BY <1>1, PostTyping
    <2>3. VoidedFeesExist'
      BY <1>1, <2>1, FeesKept
    <2>4. QED
      BY <1>1, <2>1, <2>2, <2>3 DEF TypeOK
  <1>2. ASSUME NEW t \in Tx, t.at # "void_fee" \/ fees[t.fee] # None, Goto(r, t),
               UNCHANGED <<credit, ledger, fees, header, rowLock>>
        PROVE  TypeInv'
    <2>1. tx' \in [Requests -> Tx] /\ tx'[r] = t /\ \A q \in Requests \ {r} : tx'[q] = tx[q]
      BY <1>2, GotoTyping
    <2>2. VoidedFeesExist'
      BY <1>2, <2>1 DEF VoidedFeesExist
    <2>3. QED
      BY <1>2, <2>1, <2>2 DEF TypeOK
  <1>3. CASE TopUp(r)
    <2>1. PICK u \in Users, amount \in Prices :
            Post(u, "top_up", amount, None) /\ Answer(r) /\ UNCHANGED <<fees, header, rowLock>>
      BY <1>3 DEF TopUp
    <2>2. QED
      BY <1>1, <2>1, AmountsAssumption DEF EntryType
  <1>4. CASE Adjust(r)
    <2>1. PICK u \in Users, amount \in Corrections :
            Post(u, "adjustment", amount, None) /\ Answer(r) /\ UNCHANGED <<fees, header, rowLock>>
      BY <1>4 DEF Adjust
    <2>2. QED
      BY <1>1, <2>1, AmountsAssumption DEF EntryType
  <1>5. CASE BeginAddFee(r)
    <2>1. PICK t \in Targets, amount \in Prices :
            /\ Goto(r, [at |-> "add_fee", target |-> t, amount |-> amount])
            /\ UNCHANGED <<credit, ledger, fees, header, rowLock>>
      BY <1>5 DEF BeginAddFee
    <2>2. [at |-> "add_fee", target |-> t, amount |-> amount] \in Tx
      BY AmountsAssumption DEF Tx, AddingFee
    <2>3. QED
      BY <1>2, <2>1, <2>2
  <1>6. CASE BeginVoidFee(r)
    <2>1. PICK f \in Requests :
            /\ fees[f] # None
            /\ Goto(r, [at |-> "void_fee", fee |-> f])
            /\ UNCHANGED <<credit, ledger, fees, header, rowLock>>
      BY <1>6 DEF BeginVoidFee, Voidable
    <2>2. [at |-> "void_fee", fee |-> f] \in Tx
      BY DEF Tx, VoidingFee
    <2>3. QED
      BY <1>2, <2>1, <2>2
  <1>7. CASE LoadUser(r)
    <2>1. PICK u \in ProfileUsers :
            /\ Goto(r, [at |-> "edit_user", user |-> u, seen |-> credit[u]])
            /\ UNCHANGED <<credit, ledger, fees, header, rowLock>>
      BY <1>7 DEF LoadUser
    <2>2. [at |-> "edit_user", user |-> u, seen |-> credit[u]] \in Tx
      BY UsersAssumption DEF TypeOK, Tx, EditingUser
    <2>3. QED
      BY <1>2, <2>1, <2>2
  <1>8. CASE BeginLock(r)
    <2>1. PICK t \in Targets :
            /\ Goto(r, [at |-> "lock", target |-> t, entity |-> [header[t] EXCEPT !.locked = TRUE]])
            /\ UNCHANGED <<credit, ledger, fees, header, rowLock>>
      BY <1>8 DEF BeginLock
    <2>2. [header[t] EXCEPT !.locked = TRUE] \in Header
      BY DEF TypeOK, Header
    <2>3. [at |-> "lock", target |-> t, entity |-> [header[t] EXCEPT !.locked = TRUE]] \in Tx
      BY <2>2 DEF Tx, Locking
    <2>4. QED
      BY <1>2, <2>1, <2>3
  <1>9. CASE LoadHeader(r)
    <2>1. PICK t \in Targets, close \in BOOLEAN :
            /\ Goto(r, [at |-> "edit", target |-> t, entity |-> [header[t] EXCEPT !.open = ~close]])
            /\ UNCHANGED <<credit, ledger, fees, header, rowLock>>
      BY <1>9 DEF LoadHeader
    <2>2. [header[t] EXCEPT !.open = ~close] \in Header
      BY DEF TypeOK, Header
    <2>3. [at |-> "edit", target |-> t, entity |-> [header[t] EXCEPT !.open = ~close]] \in Tx
      BY <2>2 DEF Tx, Editing
    <2>4. QED
      BY <1>2, <2>1, <2>3
  <1>10. QED
    BY <1>3, <1>4, <1>5, <1>6, <1>7, <1>8, <1>9 DEF Begin

LEMMA ContinueTyping ==
  ASSUME TypeInv, NEW r \in Requests, Continue(r) \/ Fail(r)
  PROVE  TypeInv'
  <1> USE DEF TypeInv
  <1> DEFINE Others == \A q \in Requests \ {r} : tx'[q] = tx[q]
  <1>1. tx[r] \in Tx
    BY DEF TypeOK
  <1>2. ASSUME Answer(r), UNCHANGED <<credit, ledger, fees, header>>,
               rowLock' \in [Users -> Requests \cup {None}]
        PROVE  TypeInv'
    <2>1. tx' \in [Requests -> Tx] /\ tx'[r] = [at |-> "answered"] /\ Others
      BY <1>2, AnswerTyping
    <2>2. VoidedFeesExist'
      BY <1>2, <2>1, FeesKept
    <2>3. QED
      BY <1>2, <2>1, <2>2 DEF TypeOK
  <1>3. ASSUME NEW t \in Tx, t.at # "void_fee", Goto(r, t),
               UNCHANGED <<credit, ledger, fees, header>>,
               rowLock' \in [Users -> Requests \cup {None}]
        PROVE  TypeInv'
    <2>1. tx' \in [Requests -> Tx] /\ tx'[r] = t /\ Others
      BY <1>3, GotoTyping
    <2>2. VoidedFeesExist'
      BY <1>3, <2>1, FeesKept
    <2>3. QED
      BY <1>3, <2>1, <2>2 DEF TypeOK
  <1>4. CASE CommitAddFee(r)
    <2> DEFINE t == tx[r].target
               row == [target |-> t, amount |-> tx[r].amount, protected |-> FALSE, voided |-> FALSE]
    <2>1. t \in Targets /\ tx[r].amount \in Nat /\ Client[t] \in Users
      BY <1>1, <1>4, StageTyping, TargetsAssumption DEF CommitAddFee, AddingFee
    <2>2. row \in Fee /\ row # None
      <3>1. row \in Fee
        BY <2>1 DEF Fee
      <3> HIDE DEF row
      <3>2. QED
        BY <3>1, NoneAssumption
    <2>3. fees' \in [Requests -> Fee \cup {None}] /\ fees'[r] = row
          /\ \A f \in Requests \ {r} : fees'[f] = fees[f]
      BY <1>4, <2>2 DEF CommitAddFee, TypeOK
    <2>4. credit' \in [Users -> Int] /\ ledger' \in [Users -> Seq(Entry)]
      <3>1. Post(Client[t], "extra_fee", -tx[r].amount, r)
        BY <1>4 DEF CommitAddFee
      <3>2. QED
        BY <2>1, <3>1, PostTyping DEF EntryType
    <2>5. tx' \in [Requests -> Tx] /\ tx'[r] = [at |-> "answered"] /\ Others
      BY <1>4, AnswerTyping DEF CommitAddFee
    <2>6. VoidedFeesExist'
      BY <2>2, <2>3, <2>5, FeesKept
    <2>7. QED
      BY <1>4, <2>3, <2>4, <2>5, <2>6 DEF CommitAddFee, TypeOK
  <1>5. CASE CommitVoidFee(r)
    <2> DEFINE f == tx[r].fee
    <2>1. f \in Requests /\ fees[f] \in Fee
      <3>1. f \in Requests
        BY <1>1, <1>5, StageTyping DEF CommitVoidFee, VoidingFee
      <3>2. fees[f] # None
        BY <1>5 DEF CommitVoidFee, VoidedFeesExist
      <3>3. QED
        BY <3>1, <3>2 DEF TypeOK
    <2>2. fees[f].amount \in Int /\ Client[fees[f].target] \in Users
      BY <2>1, TargetsAssumption DEF Fee
    <2>3. [fees[f] EXCEPT !.voided = TRUE] \in Fee /\ [fees[f] EXCEPT !.voided = TRUE] # None
      BY <2>1, NoneAssumption DEF Fee
    <2>4. fees' \in [Requests -> Fee \cup {None}] /\ fees'[f] # None
          /\ \A g \in Requests \ {f} : fees'[g] = fees[g]
      BY <1>5, <2>1, <2>3 DEF CommitVoidFee, TypeOK
    <2>5. credit' \in [Users -> Int] /\ ledger' \in [Users -> Seq(Entry)]
      <3>1. Post(Client[fees[f].target], "extra_fee", fees[f].amount, f)
        BY <1>5 DEF CommitVoidFee
      <3>2. QED
        BY <2>1, <2>2, <3>1, PostTyping DEF EntryType
    <2>6. tx' \in [Requests -> Tx] /\ tx'[r] = [at |-> "answered"] /\ Others
      BY <1>5, AnswerTyping DEF CommitVoidFee
    <2>7. VoidedFeesExist'
      BY <2>4, <2>6, FeesKept
    <2>8. QED
      BY <1>5, <2>4, <2>5, <2>6, <2>7 DEF CommitVoidFee, TypeOK
  <1>6. CASE SelectUser(r)
    <2>1. tx[r] \in EditingUser
      BY <1>1, <1>6, StageTyping DEF SelectUser
    <2>2. [tx[r] EXCEPT !.at = "save_user"] \in EditingUser
      BY <2>1 DEF EditingUser
    <2>3. [tx[r] EXCEPT !.at = "save_user"] \in Tx /\ [tx[r] EXCEPT !.at = "save_user"].at # "void_fee"
      BY <2>1, <2>2 DEF Tx, EditingUser
    <2>4. UNCHANGED <<credit, ledger, fees, header, rowLock>>
      BY <1>6 DEF SelectUser
    <2>5. Answer(r) \/ Goto(r, [tx[r] EXCEPT !.at = "save_user"])
      BY <1>6 DEF SelectUser
    <2>6. QED
      BY <1>2, <1>3, <2>3, <2>4, <2>5 DEF TypeOK
  <1>7. CASE SaveUser(r)
    <2>1. tx[r].user \in Users /\ tx[r].seen \in Int
      BY <1>1, <1>7, StageTyping, UsersAssumption DEF SaveUser, EditingUser
    <2>2. credit' \in [Users -> Int]
      BY <1>7, <2>1 DEF SaveUser, TypeOK
    <2>3. tx' \in [Requests -> Tx] /\ tx'[r] = [at |-> "answered"] /\ Others
      BY <1>7, AnswerTyping DEF SaveUser
    <2>4. VoidedFeesExist'
      BY <1>7, <2>3, FeesKept DEF SaveUser
    <2>5. QED
      BY <1>7, <2>2, <2>3, <2>4 DEF SaveUser, TypeOK
  <1>8. CASE ChargeClient(r)
    <2>1. tx[r] \in Locking
      BY <1>1, <1>8, StageTyping DEF ChargeClient
    <2>2. tx[r].target \in Targets /\ tx[r].entity \in Header /\ Client[tx[r].target] \in Users
      BY <2>1, TargetsAssumption DEF Locking
    <2>3. PICK bill \in Bills(Client[tx[r].target]) :
            /\ rowLock' \in {rowLock, [rowLock EXCEPT ![Client[tx[r].target]] = r]}
            /\ Goto(r, [at |-> "charged", target |-> tx[r].target, entity |-> tx[r].entity,
                        bill |-> bill, clientPrev |-> credit[Client[tx[r].target]]])
      BY <1>8 DEF ChargeClient, Hold
    <2>4. bill \in Bill
      BY <2>2, BillTyping
    <2>5. [at |-> "charged", target |-> tx[r].target, entity |-> tx[r].entity,
           bill |-> bill, clientPrev |-> credit[Client[tx[r].target]]] \in Tx
      BY <2>2, <2>4 DEF TypeOK, Tx, Charging
    <2>6. rowLock' \in [Users -> Requests \cup {None}]
      BY <2>2, <2>3 DEF TypeOK
    <2>7. UNCHANGED <<credit, ledger, fees, header>>
      BY <1>8 DEF ChargeClient
    <2>8. QED
      BY <1>3, <2>3, <2>5, <2>6, <2>7
  <1>9. CASE CreditOwner(r)
    <2> DEFINE next(p) ==
          [at |-> "save_lock", target |-> tx[r].target, entity |-> tx[r].entity,
           dirty |-> Dirty(tx[r].entity, header[tx[r].target]),
           bill |-> tx[r].bill, clientPrev |-> tx[r].clientPrev, ownerPrev |-> p]
    <2>1. tx[r] \in Charging
      BY <1>1, <1>9, StageTyping DEF CreditOwner
    <2>2. /\ tx[r].target \in Targets
          /\ tx[r].entity \in Header
          /\ tx[r].bill \in Bill
          /\ tx[r].clientPrev \in Int
      BY <2>1 DEF Charging
    <2>3. Dirty(tx[r].entity, header[tx[r].target]) \in SUBSET Columns
      BY DEF Dirty
    <2>4. ASSUME NEW p \in Int PROVE next(p) \in Tx /\ next(p).at # "void_fee"
      BY <2>2, <2>3 DEF Tx, SavingLock
    <2>5. UNCHANGED <<credit, ledger, fees, header>>
      BY <1>9 DEF CreditOwner
    <2>6. CASE PaysOwner(tx[r].bill)
      <3>1. tx[r].bill.owner \in Users
        BY <2>2, <2>6 DEF PaysOwner, Bill
      <3>2. OwnerBalance(r, tx[r].bill) \in Int
        BY <2>2, <3>1 DEF OwnerBalance, TypeOK, Bill
      <3>3. Goto(r, next(OwnerBalance(r, tx[r].bill)))
            /\ rowLock' = [rowLock EXCEPT ![tx[r].bill.owner] = r]
        BY <1>9, <2>6 DEF CreditOwner, Hold
      <3>4. rowLock' \in [Users -> Requests \cup {None}]
        BY <3>1, <3>3 DEF TypeOK
      <3>5. next(OwnerBalance(r, tx[r].bill)) \in Tx
            /\ next(OwnerBalance(r, tx[r].bill)).at # "void_fee"
        BY <2>4, <3>2
      <3> HIDE DEF next
      <3>6. QED
        BY <1>3, <2>5, <3>3, <3>4, <3>5
    <2>7. CASE ~PaysOwner(tx[r].bill)
      <3>1. Goto(r, next(0)) /\ rowLock' = rowLock
        BY <1>9, <2>7 DEF CreditOwner
      <3>2. next(0) \in Tx /\ next(0).at # "void_fee"
        BY <2>4
      <3> HIDE DEF next
      <3>3. QED
        BY <1>3, <2>5, <3>1, <3>2 DEF TypeOK
    <2>8. QED
      BY <2>6, <2>7
  <1>10. CASE CommitLock(r)
    <2> DEFINE bill == tx[r].bill
               u == Client[tx[r].target]
               row == [target |-> tx[r].target, amount |-> bill.charged,
                       protected |-> TRUE, voided |-> FALSE]
    <2>1. tx[r] \in SavingLock
      BY <1>1, <1>10, StageTyping DEF CommitLock
    <2>2. /\ tx[r].target \in Targets /\ u \in Users
          /\ tx[r].entity \in Header
          /\ bill \in Bill /\ bill.charged \in Nat /\ Markup(bill) \in Int
          /\ tx[r].clientPrev \in Int
          /\ tx[r].ownerPrev \in Int
      BY <2>1, TargetsAssumption DEF SavingLock, Bill, Markup
    <2>3. PaysOwner(bill) => bill.owner \in Users
      BY <2>2 DEF PaysOwner, Bill
    <2>4. credit' \in [Users -> Int]
      <3>1. Charged(credit, r) \in [Users -> Int]
        BY <2>2 DEF Charged, TypeOK
      <3>2. Commissioned(Charged(credit, r), r) \in [Users -> Int]
        BY <2>2, <2>3, <3>1 DEF Commissioned
      <3>3. QED
        BY <1>10, <3>2 DEF CommitLock
    <2>5. ledger' \in [Users -> Seq(Entry)]
      <3>1. Posting("lock", tx[r].clientPrev, -bill.charged, r) \in Entry
        BY <2>2 DEF Posting, Entry, EntryType
      <3>2. Posting("commission", tx[r].ownerPrev, Markup(bill), r) \in Entry
        BY <2>2 DEF Posting, Entry, EntryType
      <3>3. ChargeEntry(ledger, r) \in [Users -> Seq(Entry)]
        BY <2>2, <3>1 DEF ChargeEntry, TypeOK
      <3>4. CommissionEntry(ChargeEntry(ledger, r), r) \in [Users -> Seq(Entry)]
        BY <2>3, <3>2, <3>3 DEF CommissionEntry
      <3>5. QED
        BY <1>10, <3>4 DEF CommitLock
    <2>6. row \in Fee /\ row # None
      <3>1. row \in Fee
        BY <2>2 DEF Fee
      <3> HIDE DEF row
      <3>2. QED
        BY <3>1, NoneAssumption
    <2>7. fees' \in [Requests -> Fee \cup {None}] /\ fees'[r] = row
          /\ \A f \in Requests \ {r} : fees'[f] = fees[f]
      BY <1>10, <2>6 DEF CommitLock, WithLockFee, TypeOK
    <2>8. header' \in [Targets -> Header]
      BY <1>10, <2>2 DEF CommitLock, TypeOK, Written, Header
    <2>9. rowLock' \in [Users -> Requests \cup {None}]
      BY <1>10, ReleaseTyping DEF CommitLock
    <2>10. tx' \in [Requests -> Tx] /\ tx'[r] = [at |-> "answered"] /\ Others
      BY <1>10, AnswerTyping DEF CommitLock
    <2>11. VoidedFeesExist'
      BY <2>6, <2>7, <2>10, FeesKept
    <2>12. QED
      BY <2>4, <2>5, <2>7, <2>8, <2>9, <2>10, <2>11 DEF TypeOK
  <1>11. CASE SelectHeader(r)
    <2>1. tx[r] \in Editing
      BY <1>1, <1>11, StageTyping DEF SelectHeader
    <2>2. [at |-> "save_edit", target |-> tx[r].target, entity |-> tx[r].entity,
           dirty |-> Dirty(tx[r].entity, header[tx[r].target])] \in Tx
      BY <2>1 DEF Editing, Tx, SavingEdit, Dirty
    <2>3. QED
      BY <1>3, <1>11, <2>2 DEF SelectHeader, TypeOK
  <1>12. CASE SaveHeader(r)
    <2>1. tx[r].target \in Targets /\ tx[r].entity \in Header
      BY <1>1, <1>12, StageTyping DEF SaveHeader, SavingEdit
    <2>2. header' \in [Targets -> Header]
      BY <1>12, <2>1 DEF SaveHeader, TypeOK, Written, Header
    <2>3. tx' \in [Requests -> Tx] /\ tx'[r] = [at |-> "answered"] /\ Others
      BY <1>12, AnswerTyping DEF SaveHeader
    <2>4. VoidedFeesExist'
      BY <1>12, <2>3, FeesKept DEF SaveHeader
    <2>5. QED
      BY <1>12, <2>2, <2>3, <2>4 DEF SaveHeader, TypeOK
  <1>13. CASE Refuse(r) \/ AbortDeadlock(r) \/ Fail(r)
    <2>1. RollBack(r)
      BY <1>13 DEF Refuse, AbortDeadlock, Fail
    <2>2. QED
      BY <1>2, <2>1, ReleaseTyping DEF RollBack
  <1>14. QED
    BY <1>4, <1>5, <1>6, <1>7, <1>8, <1>9, <1>10, <1>11, <1>12, <1>13 DEF Continue

(* Every variable always holds rows, snapshots and lock holders of its kind: no path
   refunds a fee that does not exist, pays a commission to nobody, or saves columns
   that are not columns (states TypeOK). *)
THEOREM TypeCorrect == Spec => []TypeOK
  <1>1. Init => TypeInv
    BY InitTyping
  <1>2. TypeInv /\ [Next]_vars => TypeInv'
    <2> SUFFICES ASSUME TypeInv, [Next]_vars PROVE TypeInv'
      OBVIOUS
    <2>1. ASSUME NEW r \in Requests, Begin(r) \/ Continue(r) \/ Fail(r)
          PROVE  TypeInv'
      BY <2>1, BeginTyping, ContinueTyping
    <2>2. CASE UNCHANGED vars
      BY <2>2 DEF TypeInv, TypeOK, VoidedFeesExist, vars
    <2>3. QED
      BY <2>1, <2>2 DEF Next
  <1>3. TypeInv => TypeOK
    BY DEF TypeInv
  <1>4. QED
    BY <1>1, <1>2, <1>3, PTL DEF Spec

-----------------------------------------------------------------------------
(* Money.  NoOverdraft is not inductive: a commit writes what was read and checked
   steps earlier.  The invariant adds that reads made under a row lock still stand
   (HeldBalanceIsCurrent) and that a profile edit can only restore a balance that was
   once committed, hence not negative. *)

SeenNotNegative ==
  \A r \in Requests : tx[r].at \in {"edit_user", "save_user"} => tx[r].seen >= 0

MoneyInv == TypeInv /\ NoOverdraft /\ HeldBalanceIsCurrent /\ SeenNotNegative

\* What a step of r may do to the others: it leaves alone the rows they have locked.
Considerate(r) ==
  /\ \A q \in Requests \ {r} : tx'[q] = tx[q]
  /\ \A u \in Users : rowLock[u] \notin {None, r} =>
       rowLock'[u] = rowLock[u] /\ credit'[u] = credit[u]

LEMMA OthersStand ==
  ASSUME MoneyInv, NEW r \in Requests, Considerate(r), NEW q \in Requests \ {r}
  PROVE  ReadsStand(q)' /\ (tx'[q].at \in {"edit_user", "save_user"} => tx'[q].seen >= 0)
  <1>1. tx'[q] = tx[q] /\ tx[q] \in Tx /\ q # None
    BY NoneAssumption DEF Considerate, MoneyInv, TypeInv, TypeOK
  <1>2. ReadsStand(q)
    BY DEF MoneyInv, HeldBalanceIsCurrent
  <1>3. ASSUME HoldsClient(q)
        PROVE  LET u == Client[tx[q].target]
               IN  rowLock'[u] = q /\ credit'[u] = tx[q].clientPrev /\ credit'[u] >= tx[q].bill.charged
    <2>1. Client[tx[q].target] \in Users
      BY <1>1, <1>3, StageTyping, TargetsAssumption DEF HoldsClient, Charging, SavingLock
    <2>2. QED
      BY <1>1, <1>2, <1>3, <2>1 DEF ReadsStand, Considerate
  <1>4. ASSUME HoldsOwner(q)
        PROVE  /\ rowLock'[tx[q].bill.owner] = q
               /\ credit'[tx[q].bill.owner] = credit[tx[q].bill.owner]
    <2>1. tx[q].bill.owner \in Users
      BY <1>1, <1>4, StageTyping DEF HoldsOwner, PaysOwner, SavingLock, Bill
    <2>2. QED
      BY <1>1, <1>2, <1>4, <2>1 DEF ReadsStand, Considerate
  <1>5. ReadsStand(q)'
    BY <1>1, <1>2, <1>3, <1>4 DEF ReadsStand, HoldsClient, HoldsOwner, OwnerBalance
  <1>6. QED
    BY <1>1, <1>5 DEF MoneyInv, SeenNotNegative

(* Enough to show MoneyInv': the step is considerate, no balance ends below zero, and
   the request itself stands at a stage with nothing to answer for. *)
LEMMA MoneyStep ==
  ASSUME MoneyInv, TypeInv', NEW r \in Requests, Considerate(r), NoOverdraft',
         ReadsStand(r)', tx'[r].at \in {"edit_user", "save_user"} => tx'[r].seen >= 0
  PROVE  MoneyInv'
  <1>1. \A q \in Requests : ReadsStand(q)'
    BY OthersStand
  <1>2. SeenNotNegative'
    BY OthersStand DEF SeenNotNegative
  <1>3. QED
    BY <1>1, <1>2 DEF MoneyInv, HeldBalanceIsCurrent

LEMMA PostMoney ==
  ASSUME MoneyInv, TypeInv', NEW r \in Requests, NEW u \in Users, NEW type, NEW amount \in Int,
         NEW f, Unlocked(u), credit[u] + amount >= 0, Post(u, type, amount, f), Answer(r),
         UNCHANGED rowLock
  PROVE  MoneyInv'
  <1>1. tx'[r].at = "answered" /\ \A q \in Requests \ {r} : tx'[q] = tx[q]
    BY AnswerTyping DEF MoneyInv, TypeInv
  <1>2. /\ credit'[u] = credit[u] + amount
        /\ \A v \in Users \ {u} : credit'[v] = credit[v]
    BY DEF Post, MoneyInv, TypeInv, TypeOK
  <1>3. Considerate(r)
    BY <1>1, <1>2 DEF Considerate, Unlocked
  <1>4. NoOverdraft'
    BY <1>2 DEF NoOverdraft, MoneyInv
  <1>5. ReadsStand(r)'
    BY <1>1 DEF ReadsStand, HoldsClient, HoldsOwner
  <1>6. QED
    BY <1>1, <1>3, <1>4, <1>5, MoneyStep

\* A step that moves no money and ends at a stage that holds no row.
LEMMA QuietMoney ==
  ASSUME MoneyInv, TypeInv', NEW r \in Requests, NEW t \in Tx, Goto(r, t),
         t.at \notin {"charged", "save_lock"},
         t.at \in {"edit_user", "save_user"} => t.seen >= 0,
         UNCHANGED credit, rowLock' = rowLock \/ rowLock' = Release(r)
  PROVE  MoneyInv'
  <1>1. tx'[r] = t /\ \A q \in Requests \ {r} : tx'[q] = tx[q]
    BY GotoTyping DEF MoneyInv, TypeInv
  <1>2. Considerate(r)
    BY <1>1 DEF Considerate, Release
  <1>3. ReadsStand(r)'
    BY <1>1 DEF ReadsStand, HoldsClient, HoldsOwner
  <1>4. NoOverdraft'
    BY DEF MoneyInv, NoOverdraft
  <1>5. QED
    BY <1>1, <1>2, <1>3, <1>4, MoneyStep

LEMMA AnsweredTx == [at |-> "answered"] \in Tx
  BY DEF Tx, Answered

LEMMA InitMoney == Init => MoneyInv
  <1> SUFFICES ASSUME Init PROVE MoneyInv
    OBVIOUS
  <1>1. TypeInv
    BY InitTyping
  <1>2. NoOverdraft
    BY UsersAssumption DEF Init, NoOverdraft
  <1>3. HeldBalanceIsCurrent /\ SeenNotNegative
    BY DEF Init, HeldBalanceIsCurrent, ReadsStand, HoldsClient, HoldsOwner, SeenNotNegative
  <1>4. QED
    BY <1>1, <1>2, <1>3 DEF MoneyInv

LEMMA BeginMoney ==
  ASSUME MoneyInv, TypeInv', NEW r \in Requests, Begin(r)
  PROVE  MoneyInv'
  <1> USE DEF MoneyInv, TypeInv
  <1>1. CASE TopUp(r)
    <2>1. PICK u \in Users, amount \in Prices :
            Unlocked(u) /\ Post(u, "top_up", amount, None) /\ Answer(r) /\ UNCHANGED rowLock
      BY <1>1 DEF TopUp
    <2>2. amount \in Int /\ credit[u] + amount >= 0
      BY AmountsAssumption DEF TypeOK, NoOverdraft
    <2>3. QED
      BY <2>1, <2>2, PostMoney
  <1>2. CASE Adjust(r)
    <2>1. PICK u \in Users, amount \in Corrections :
            /\ Unlocked(u) /\ credit[u] + amount >= 0
            /\ Post(u, "adjustment", amount, None) /\ Answer(r) /\ UNCHANGED rowLock
      BY <1>2 DEF Adjust
    <2>2. QED
      BY <2>1, PostMoney, AmountsAssumption
  <1>3. CASE BeginAddFee(r)
    <2>1. PICK t \in Targets, amount \in Prices :
            /\ Goto(r, [at |-> "add_fee", target |-> t, amount |-> amount])
            /\ UNCHANGED <<credit, rowLock>>
      BY <1>3 DEF BeginAddFee
    <2>2. [at |-> "add_fee", target |-> t, amount |-> amount] \in Tx
      BY AmountsAssumption DEF Tx, AddingFee
    <2>3. QED
      BY <2>1, <2>2, QuietMoney
  <1>4. CASE BeginVoidFee(r)
    <2>1. PICK f \in Requests :
            Goto(r, [at |-> "void_fee", fee |-> f]) /\ UNCHANGED <<credit, rowLock>>
      BY <1>4 DEF BeginVoidFee
    <2>2. [at |-> "void_fee", fee |-> f] \in Tx
      BY DEF Tx, VoidingFee
    <2>3. QED
      BY <2>1, <2>2, QuietMoney
  <1>5. CASE LoadUser(r)
    <2>1. PICK u \in ProfileUsers :
            /\ Goto(r, [at |-> "edit_user", user |-> u, seen |-> credit[u]])
            /\ UNCHANGED <<credit, rowLock>>
      BY <1>5 DEF LoadUser
    <2>2. [at |-> "edit_user", user |-> u, seen |-> credit[u]] \in Tx /\ credit[u] >= 0
      BY UsersAssumption DEF TypeOK, Tx, EditingUser, NoOverdraft
    <2>3. QED
      BY <2>1, <2>2, QuietMoney
  <1>6. CASE BeginLock(r)
    <2>1. PICK t \in Targets :
            /\ Goto(r, [at |-> "lock", target |-> t, entity |-> [header[t] EXCEPT !.locked = TRUE]])
            /\ UNCHANGED <<credit, rowLock>>
      BY <1>6 DEF BeginLock
    <2>2. [header[t] EXCEPT !.locked = TRUE] \in Header
      BY DEF TypeOK, Header
    <2>3. [at |-> "lock", target |-> t, entity |-> [header[t] EXCEPT !.locked = TRUE]] \in Tx
      BY <2>2 DEF Tx, Locking
    <2>4. QED
      BY <2>1, <2>3, QuietMoney
  <1>7. CASE LoadHeader(r)
    <2>1. PICK t \in Targets, close \in BOOLEAN :
            /\ Goto(r, [at |-> "edit", target |-> t, entity |-> [header[t] EXCEPT !.open = ~close]])
            /\ UNCHANGED <<credit, rowLock>>
      BY <1>7 DEF LoadHeader
    <2>2. [header[t] EXCEPT !.open = ~close] \in Header
      BY DEF TypeOK, Header
    <2>3. [at |-> "edit", target |-> t, entity |-> [header[t] EXCEPT !.open = ~close]] \in Tx
      BY <2>2 DEF Tx, Editing
    <2>4. QED
      BY <2>1, <2>3, QuietMoney
  <1>8. QED
    BY <1>1, <1>2, <1>3, <1>4, <1>5, <1>6, <1>7 DEF Begin

(* A commission is paid only out of a charge. *)
LEMMA MarkupCharged ==
  ASSUME NEW bill \in Bill, PaysOwner(bill)
  PROVE  bill.owner \in Users /\ Markup(bill) \in Nat /\ bill.charged > 0
                              /\ Markup(bill) <= bill.charged
  BY DEF Bill, PaysOwner, Markup

(* The commit of a lock writes only balances of rows it holds, none below zero. *)
LEMMA CommitLockMoney ==
  ASSUME MoneyInv, TypeInv', NEW r \in Requests, CommitLock(r)
  PROVE  MoneyInv'
  <1> USE DEF MoneyInv, TypeInv
  <1> DEFINE u == Client[tx[r].target]
             bill == tx[r].bill
  <1>1. /\ tx[r].at = "save_lock"
        /\ credit' = Commissioned(Charged(credit, r), r)
        /\ rowLock' = Release(r)
        /\ Answer(r)
    BY DEF CommitLock
  <1>2. /\ bill \in Bill /\ tx[r].clientPrev \in Int /\ tx[r].ownerPrev \in Int
        /\ u \in Users /\ r # None
    BY <1>1, StageTyping, TargetsAssumption, NoneAssumption DEF TypeOK, SavingLock
  <1>3. bill.charged \in Nat
    BY <1>2 DEF Bill
  <1>4. tx'[r].at = "answered" /\ \A q \in Requests \ {r} : tx'[q] = tx[q]
    BY <1>1, AnswerTyping
  <1>5. ReadsStand(r)
    BY DEF HeldBalanceIsCurrent
  <1>6. bill.charged > 0 =>
          rowLock[u] = r /\ credit[u] = tx[r].clientPrev /\ tx[r].clientPrev >= bill.charged
    BY <1>1, <1>5 DEF ReadsStand, HoldsClient
  <1>7. PaysOwner(bill) =>
          rowLock[bill.owner] = r /\ tx[r].ownerPrev = OwnerBalance(r, bill)
    BY <1>1, <1>5 DEF ReadsStand, HoldsOwner
  <1>8. PaysOwner(bill) => tx[r].ownerPrev >= 0 /\ bill.owner \in Users /\ Markup(bill) \in Nat
    <2> SUFFICES ASSUME PaysOwner(bill)
                 PROVE  tx[r].ownerPrev >= 0 /\ bill.owner \in Users /\ Markup(bill) \in Nat
      OBVIOUS
    <2>1. bill.owner \in Users /\ Markup(bill) \in Nat /\ bill.charged > 0
      BY <1>2, MarkupCharged
    <2>2. credit[bill.owner] >= 0
      BY <2>1 DEF NoOverdraft
    <2>3. tx[r].clientPrev - bill.charged >= 0
      BY <1>2, <1>3, <1>6, <2>1
    <2>4. QED
      BY <1>7, <2>1, <2>2, <2>3 DEF OwnerBalance
  <1> DEFINE c1 == Charged(credit, r)
  <1>9. /\ c1 \in [Users -> Int]
        /\ \A v \in Users : c1[v] >= 0
        /\ \A v \in Users : rowLock[v] # r => c1[v] = credit[v]
    <2>1. CASE bill.charged > 0
      <3>1. c1 = [credit EXCEPT ![u] = tx[r].clientPrev - bill.charged]
        BY <2>1 DEF Charged
      <3>2. tx[r].clientPrev - bill.charged \in Int /\ tx[r].clientPrev - bill.charged >= 0
        BY <1>2, <1>3, <1>6, <2>1
      <3>3. QED
        BY <1>2, <1>6, <2>1, <3>1, <3>2 DEF TypeOK, NoOverdraft
    <2>2. CASE ~(bill.charged > 0)
      BY <2>2 DEF Charged, TypeOK, NoOverdraft
    <2>3. QED
      BY <2>1, <2>2
  <1>10. /\ \A v \in Users : credit'[v] >= 0
         /\ \A v \in Users : rowLock[v] # r => credit'[v] = credit[v]
    <2> HIDE DEF c1
    <2>1. CASE PaysOwner(bill)
      <3>1. credit' = [c1 EXCEPT ![bill.owner] = tx[r].ownerPrev + Markup(bill)]
        BY <1>1, <2>1 DEF Commissioned, c1
      <3>2. tx[r].ownerPrev + Markup(bill) >= 0
        BY <1>2, <1>8, <2>1
      <3>3. QED
        BY <1>7, <1>8, <1>9, <2>1, <3>1, <3>2
    <2>2. CASE ~PaysOwner(bill)
      <3>1. credit' = c1
        BY <1>1, <2>2 DEF Commissioned, c1
      <3>2. QED
        BY <1>9, <3>1
    <2>3. QED
      BY <2>1, <2>2
  <1>11. Considerate(r)
    BY <1>1, <1>4, <1>10 DEF Considerate, Release
  <1>12. NoOverdraft'
    BY <1>10 DEF NoOverdraft
  <1>13. ReadsStand(r)'
    BY <1>4 DEF ReadsStand, HoldsClient, HoldsOwner
  <1>14. QED
    BY <1>4, <1>11, <1>12, <1>13, MoneyStep

LEMMA ChargeClientMoney ==
  ASSUME MoneyInv, TypeInv', NEW r \in Requests, ChargeClient(r)
  PROVE  MoneyInv'
  <1> USE DEF MoneyInv, TypeInv
  <1> DEFINE u == Client[tx[r].target]
  <1>1. tx[r] \in Locking /\ tx[r].target \in Targets /\ tx[r].entity \in Header /\ u \in Users
    BY StageTyping, TargetsAssumption DEF ChargeClient, TypeOK, Locking
  <1>2. PICK bill \in Bills(u) :
          /\ IF bill.charged > 0
               THEN /\ Unlocked(u)
                    /\ credit[u] >= bill.charged
                    /\ rowLock' = [rowLock EXCEPT ![u] = r]
               ELSE UNCHANGED rowLock
          /\ Goto(r, [at |-> "charged", target |-> tx[r].target, entity |-> tx[r].entity,
                      bill |-> bill, clientPrev |-> credit[u]])
    BY DEF ChargeClient, Hold, Covers
  <1>3. bill \in Bill
    BY <1>1, BillTyping
  <1> DEFINE next == [at |-> "charged", target |-> tx[r].target, entity |-> tx[r].entity,
                      bill |-> bill, clientPrev |-> credit[u]]
  <1>4. next \in Tx
    BY <1>1, <1>3 DEF TypeOK, Tx, Charging
  <1>5. tx'[r] = next /\ \A q \in Requests \ {r} : tx'[q] = tx[q]
    BY <1>2, <1>4, GotoTyping
  <1>6. credit' = credit
    BY DEF ChargeClient
  <1>7. Considerate(r)
    <2>1. \A v \in Users : rowLock[v] \notin {None, r} => rowLock'[v] = rowLock[v]
      BY <1>1, <1>2 DEF TypeOK, Unlocked
    <2>2. QED
      BY <1>5, <1>6, <2>1 DEF Considerate
  <1>8. bill.charged > 0 => rowLock'[u] = r /\ credit'[u] >= bill.charged
    BY <1>1, <1>2, <1>6 DEF TypeOK
  <1>9. ReadsStand(r)'
    BY <1>5, <1>6, <1>8 DEF ReadsStand, HoldsClient, HoldsOwner
  <1>10. NoOverdraft'
    BY <1>6 DEF NoOverdraft
  <1>11. QED
    BY <1>5, <1>7, <1>9, <1>10, MoneyStep

LEMMA CreditOwnerMoney ==
  ASSUME MoneyInv, TypeInv', NEW r \in Requests, CreditOwner(r)
  PROVE  MoneyInv'
  <1> USE DEF MoneyInv, TypeInv
  <1> DEFINE u == Client[tx[r].target]
             bill == tx[r].bill
             next(p) ==
               [at |-> "save_lock", target |-> tx[r].target, entity |-> tx[r].entity,
                dirty |-> Dirty(tx[r].entity, header[tx[r].target]),
                bill |-> bill, clientPrev |-> tx[r].clientPrev, ownerPrev |-> p]
  <1>1. /\ tx[r].at = "charged"
        /\ tx[r] \in Charging /\ bill \in Bill /\ u \in Users
    BY StageTyping, TargetsAssumption DEF CreditOwner, TypeOK, Charging
  <1>2. PICK p : /\ tx' = [tx EXCEPT ![r] = next(p)]
                 /\ \/ /\ PaysOwner(bill) /\ p = OwnerBalance(r, bill)
                       /\ Grantable(bill.owner, r)
                       /\ rowLock' = [rowLock EXCEPT ![bill.owner] = r]
                    \/ ~PaysOwner(bill) /\ rowLock' = rowLock
    BY DEF CreditOwner, Goto, Hold
  <1>3. tx'[r] = next(p) /\ \A q \in Requests \ {r} : tx'[q] = tx[q]
    BY <1>2 DEF TypeOK
  <1>4. credit' = credit
    BY DEF CreditOwner
  <1>5. ReadsStand(r)
    BY DEF HeldBalanceIsCurrent
  <1>6. PaysOwner(bill) => bill.owner \in Users
    BY <1>1, MarkupCharged
  <1>7. /\ \A v \in Users : rowLock[v] \notin {None, r} => rowLock'[v] = rowLock[v]
        /\ \A v \in Users : rowLock[v] = r => rowLock'[v] = r
    BY <1>2, <1>6 DEF TypeOK, Grantable
  <1>8. Considerate(r)
    BY <1>3, <1>4, <1>7 DEF Considerate
  <1>9. bill.charged > 0 =>
          rowLock'[u] = r /\ credit'[u] = tx[r].clientPrev /\ credit'[u] >= bill.charged
    BY <1>1, <1>4, <1>5, <1>7 DEF ReadsStand, HoldsClient
  <1>10. PaysOwner(bill) => rowLock'[bill.owner] = r /\ p = OwnerBalance(r, bill)
    BY <1>2, <1>6 DEF TypeOK
  <1>11. OwnerBalance(r, bill)' = OwnerBalance(r, bill)
    BY <1>3, <1>4 DEF OwnerBalance
  <1>12. ReadsStand(r)'
    <2>1. tx'[r].bill = bill /\ tx'[r].target = tx[r].target /\ tx'[r].ownerPrev = p
          /\ tx'[r].clientPrev = tx[r].clientPrev
      BY <1>3
    <2>2. HoldsClient(r)' =>
            LET v == Client[tx'[r].target]
            IN  rowLock'[v] = r /\ credit'[v] = tx'[r].clientPrev /\ credit'[v] >= tx'[r].bill.charged
      BY <1>9, <2>1 DEF HoldsClient
    <2>3. HoldsOwner(r)' =>
            rowLock'[tx'[r].bill.owner] = r /\ tx'[r].ownerPrev = OwnerBalance(r, tx[r].bill)'
      BY <1>10, <1>11, <2>1 DEF HoldsOwner
    <2>4. QED
      BY <2>1, <2>2, <2>3 DEF ReadsStand, OwnerBalance
  <1>13. NoOverdraft'
    BY <1>4 DEF NoOverdraft
  <1>14. QED
    BY <1>3, <1>8, <1>12, <1>13, MoneyStep

LEMMA ContinueMoney ==
  ASSUME MoneyInv, TypeInv', NEW r \in Requests, Continue(r) \/ Fail(r)
  PROVE  MoneyInv'
  <1> USE DEF MoneyInv, TypeInv
  <1>1. tx[r] \in Tx
    BY DEF TypeOK
  <1>2. ASSUME Answer(r), UNCHANGED credit, rowLock' = rowLock \/ rowLock' = Release(r)
        PROVE  MoneyInv'
    BY <1>2, AnsweredTx, QuietMoney DEF Answer
  <1>3. CASE CommitAddFee(r)
    <2>1. /\ Unlocked(Client[tx[r].target]) /\ credit[Client[tx[r].target]] >= tx[r].amount
          /\ Post(Client[tx[r].target], "extra_fee", -tx[r].amount, r) /\ Answer(r)
          /\ UNCHANGED rowLock
      BY <1>3 DEF CommitAddFee, Covers
    <2>2. tx[r].amount \in Nat /\ Client[tx[r].target] \in Users
      BY <1>1, <1>3, StageTyping, TargetsAssumption DEF CommitAddFee, AddingFee
    <2>3. -tx[r].amount \in Int /\ credit[Client[tx[r].target]] + (-tx[r].amount) >= 0
      BY <2>1, <2>2 DEF TypeOK
    <2>4. QED
      BY <2>1, <2>2, <2>3, PostMoney
  <1>4. CASE CommitVoidFee(r)
    <2> DEFINE f == tx[r].fee
               u == Client[fees[f].target]
    <2>1. Unlocked(u) /\ Post(u, "extra_fee", fees[f].amount, f) /\ Answer(r) /\ UNCHANGED rowLock
      BY <1>4 DEF CommitVoidFee
    <2>2. fees[f] \in Fee
      BY <1>1, <1>4, StageTyping DEF CommitVoidFee, VoidingFee, VoidedFeesExist, TypeOK
    <2>3. fees[f].amount \in Nat /\ u \in Users
      BY <2>2, TargetsAssumption DEF Fee
    <2>4. credit[u] + fees[f].amount >= 0
      BY <2>3 DEF TypeOK, NoOverdraft
    <2>5. QED
      BY <2>1, <2>3, <2>4, PostMoney
  <1>5. CASE SelectUser(r)
    <2>1. tx[r] \in EditingUser /\ tx[r].seen >= 0
      BY <1>1, <1>5, StageTyping DEF SelectUser, SeenNotNegative
    <2> DEFINE next == [tx[r] EXCEPT !.at = "save_user"]
    <2>2. next \in Tx /\ next.at = "save_user" /\ next.seen >= 0
      BY <2>1 DEF Tx, EditingUser
    <2>3. Answer(r) \/ Goto(r, next)
      BY <1>5 DEF SelectUser
    <2>4. UNCHANGED <<credit, rowLock>>
      BY <1>5 DEF SelectUser
    <2>5. CASE Goto(r, next)
      BY <2>2, <2>4, <2>5, QuietMoney
    <2>6. QED
      BY <1>2, <2>3, <2>4, <2>5
  <1>6. CASE SaveUser(r)
    <2> DEFINE u == tx[r].user
    <2>1. /\ Unlocked(u) /\ credit' = [credit EXCEPT ![u] = tx[r].seen]
          /\ Answer(r) /\ UNCHANGED rowLock
      BY <1>6 DEF SaveUser
    <2>2. u \in Users /\ tx[r].seen >= 0
      BY <1>1, <1>6, StageTyping, UsersAssumption DEF SaveUser, EditingUser, SeenNotNegative
    <2>3. tx'[r].at = "answered" /\ \A q \in Requests \ {r} : tx'[q] = tx[q]
      BY <2>1, AnswerTyping
    <2>4. Considerate(r)
      BY <2>1, <2>3 DEF Considerate, TypeOK, Unlocked
    <2>5. NoOverdraft'
      BY <2>1, <2>2 DEF NoOverdraft, TypeOK
    <2>6. ReadsStand(r)'
      BY <2>3 DEF ReadsStand, HoldsClient, HoldsOwner
    <2>7. QED
      BY <2>3, <2>4, <2>5, <2>6, MoneyStep
  <1>7. CASE SelectHeader(r)
    <2> DEFINE next == [at |-> "save_edit", target |-> tx[r].target, entity |-> tx[r].entity,
                        dirty |-> Dirty(tx[r].entity, header[tx[r].target])]
    <2>1. tx[r] \in Editing
      BY <1>1, <1>7, StageTyping DEF SelectHeader
    <2>2. next \in Tx
      BY <2>1 DEF Tx, Editing, SavingEdit, Dirty
    <2>3. Goto(r, next) /\ UNCHANGED <<credit, rowLock>>
      BY <1>7 DEF SelectHeader
    <2>4. QED
      BY <2>2, <2>3, QuietMoney
  <1>8. CASE SaveHeader(r)
    BY <1>2, <1>8 DEF SaveHeader
  <1>9. CASE Refuse(r) \/ AbortDeadlock(r) \/ Fail(r)
    BY <1>2, <1>9 DEF Refuse, AbortDeadlock, Fail, RollBack
  <1>10. QED
    BY <1>3, <1>4, <1>5, <1>6, <1>7, <1>8, <1>9, ChargeClientMoney, CreditOwnerMoney,
       CommitLockMoney DEF Continue

LEMMA MoneyCorrect == Spec => []MoneyInv
  <1>1. Init => MoneyInv
    BY InitMoney
  <1>2. TypeInv /\ MoneyInv /\ [Next]_vars => MoneyInv'
    <2> SUFFICES ASSUME MoneyInv, [Next]_vars PROVE MoneyInv'
      OBVIOUS
    <2>1. TypeInv
      BY DEF MoneyInv
    <2>2. ASSUME NEW r \in Requests, Begin(r) \/ Continue(r) \/ Fail(r)
          PROVE  MoneyInv'
      BY <2>1, <2>2, BeginTyping, ContinueTyping, BeginMoney, ContinueMoney
    <2>3. CASE UNCHANGED vars
      BY <2>3 DEF MoneyInv, TypeInv, TypeOK, VoidedFeesExist, NoOverdraft, HeldBalanceIsCurrent,
         ReadsStand, HoldsClient, HoldsOwner, OwnerBalance, SeenNotNegative, vars
    <2>4. QED
      BY <2>2, <2>3 DEF Next
  <1>3. MoneyInv => TypeInv
    BY DEF MoneyInv
  <1>4. QED
    BY <1>1, <1>2, <1>3, PTL DEF Spec

(* No wallet is ever overdrawn, for any number of users, requests and amounts: the
   charges of lockOrder, lockShipment and createFee, the corrections of adjustCredit,
   the commissions and the stale balances a profile edit restores, in any order. *)
THEOREM NeverOverdrawn == Spec => []NoOverdraft
  <1>1. MoneyInv => NoOverdraft
    BY DEF MoneyInv
  <1>2. QED
    BY <1>1, MoneyCorrect, PTL

(* A balance read FOR UPDATE by lockOrder, lockShipment or creditCommission is the
   committed one until that transaction ends. *)
THEOREM HeldReadsStand == Spec => []HeldBalanceIsCurrent
  <1>1. MoneyInv => HeldBalanceIsCurrent
    BY DEF MoneyInv
  <1>2. QED
    BY <1>1, MoneyCorrect, PTL

-----------------------------------------------------------------------------
(* The ledger explains the balance *)

LEMMA ChainAppend ==
  ASSUME NEW l \in Seq(Entry), NEW e \in Entry,
         Chained(l), e.prev = Closing(l), e.new = e.prev + e.amount
  PROVE  Chained(Append(l, e)) /\ Closing(Append(l, e)) = e.new
  <1> DEFINE k == Append(l, e)
  <1>1. /\ Len(l) \in Nat /\ Len(k) = Len(l) + 1 /\ DOMAIN k = 1 .. Len(l) + 1
        /\ DOMAIN l = 1 .. Len(l)
        /\ k[Len(l) + 1] = e /\ \A i \in 1 .. Len(l) : k[i] = l[i]
    OBVIOUS
  <1>2. Closing(k) = e.new
    BY <1>1 DEF Closing
  <1>3. l = <<>> <=> Len(l) = 0
    OBVIOUS
  <1> HIDE DEF k
  <1>4. ASSUME NEW i \in DOMAIN k
        PROVE  k[i].new = k[i].prev + k[i].amount
               /\ k[i].prev = IF i = 1 THEN 0 ELSE k[i - 1].new
    <2>1. CASE i \in 1 .. Len(l)
      <3>1. i = 1 \/ i - 1 \in 1 .. Len(l)
        BY <1>1, <2>1
      <3>2. QED
        BY <1>1, <2>1, <3>1 DEF Chained
    <2>2. CASE i = Len(l) + 1
      <3>1. CASE Len(l) = 0
        BY <1>1, <1>3, <2>2, <3>1 DEF Closing
      <3>2. CASE Len(l) # 0
        <4>1. Len(l) \in 1 .. Len(l) /\ i # 1 /\ i - 1 = Len(l)
          BY <1>1, <2>2, <3>2
        <4>2. k[i - 1] = l[Len(l)] /\ Closing(l) = l[Len(l)].new
          BY <1>1, <1>3, <3>2, <4>1 DEF Closing
        <4>3. QED
          BY <1>1, <2>2, <4>1, <4>2
      <3>3. QED
        BY <3>1, <3>2
    <2>3. QED
      BY <1>1, <1>4, <2>1, <2>2
  <1>5. Chained(k)
    BY <1>4 DEF Chained
  <1>6. QED
    BY <1>2, <1>5 DEF k

\* Balances c and ledgers l agree, for the users whose profile nobody edits.
Agree(c, l) ==
  \A u \in Users \ ProfileUsers : Chained(l[u]) /\ c[u] = Closing(l[u])

\* What one posting does to the balances and to the ledgers.
Balanced(c, u, e) == [c EXCEPT ![u] = e.new]
Booked(l, u, e) == [l EXCEPT ![u] = Append(l[u], e)]

(* Posting on the balance of the account keeps the books in agreement. *)
LEMMA PostingAgrees ==
  ASSUME NEW c \in [Users -> Int], NEW l \in [Users -> Seq(Entry)], Agree(c, l),
         NEW u \in Users, NEW e \in Entry, e.prev = c[u], e.new = e.prev + e.amount
  PROVE  /\ Balanced(c, u, e) \in [Users -> Int]
         /\ Booked(l, u, e) \in [Users -> Seq(Entry)]
         /\ Agree(Balanced(c, u, e), Booked(l, u, e))
  <1> DEFINE c1 == Balanced(c, u, e)
             l1 == Booked(l, u, e)
  <1>1. Append(l[u], e) \in Seq(Entry) /\ e.new \in Int
    <2>1. l[u] \in Seq(Entry)
      OBVIOUS
    <2>2. Append(l[u], e) \in Seq(Entry)
      BY <2>1
    <2>3. e.new \in Int
      BY DEF Entry
    <2>4. QED
      BY <2>2, <2>3
  <1>2. /\ c1[u] = e.new /\ l1[u] = Append(l[u], e)
        /\ \A v \in Users \ {u} : c1[v] = c[v] /\ l1[v] = l[v]
        /\ c1 \in [Users -> Int] /\ l1 \in [Users -> Seq(Entry)]
    BY <1>1 DEF Balanced, Booked
  <1> HIDE DEF c1, l1
  <1>3. ASSUME u \notin ProfileUsers
        PROVE  Chained(l1[u]) /\ c1[u] = Closing(l1[u])
    <2>1. Chained(l[u]) /\ e.prev = Closing(l[u]) /\ l[u] \in Seq(Entry)
      BY <1>3 DEF Agree
    <2>2. Chained(Append(l[u], e)) /\ Closing(Append(l[u], e)) = e.new
      BY <2>1, ChainAppend
    <2>3. QED
      BY <1>2, <2>2
  <1>4. Agree(c1, l1)
    BY <1>2, <1>3 DEF Agree
  <1>5. QED
    BY <1>2, <1>4 DEF c1, l1

LEMMA PostingTyping ==
  ASSUME NEW type \in EntryType, NEW prev \in Int, NEW amount \in Int,
         NEW f \in Requests \cup {None}
  PROVE  LET e == Posting(type, prev, amount, f)
         IN  /\ e \in Entry /\ e.prev = prev /\ e.new = prev + amount
             /\ e.amount = amount /\ e.new = e.prev + e.amount
  BY DEF Posting, Entry

LEMMA PostAgrees ==
  ASSUME TypeOK, LedgerExplainsCredit, NEW u \in Users, NEW type \in EntryType,
         NEW amount \in Int, NEW f \in Requests \cup {None}, Post(u, type, amount, f)
  PROVE  LedgerExplainsCredit'
  <1> DEFINE e == Posting(type, credit[u], amount, f)
  <1>1. credit \in [Users -> Int] /\ ledger \in [Users -> Seq(Entry)] /\ credit[u] \in Int
    BY DEF TypeOK
  <1>2. e \in Entry /\ e.prev = credit[u] /\ e.new = credit[u] + amount
        /\ e.new = e.prev + e.amount
    BY <1>1, PostingTyping
  <1>3. credit' = Balanced(credit, u, e) /\ ledger' = Booked(ledger, u, e)
    BY <1>2 DEF Post, Balanced, Booked
  <1>4. Agree(credit, ledger)
    BY DEF LedgerExplainsCredit, Agree
  <1> HIDE DEF e
  <1>5. Agree(credit', ledger')
    BY <1>1, <1>2, <1>3, <1>4, PostingAgrees
  <1>6. QED
    BY <1>5 DEF LedgerExplainsCredit, Agree

(* The commit of a lock is a posting e1 for the client, on the balance committed before,
   and a posting e2 for the owner of the group, on the balances c1 the first one leaves. *)
LockPosts(r, c1, l1, e1, e2) ==
  LET u == Client[tx[r].target]
      bill == tx[r].bill
      follows(e, prev, amount) == e.prev = prev /\ e.amount = amount /\ e.new = e.prev + e.amount
  IN  /\ u \in Users /\ bill \in Bill
      /\ bill.charged > 0 =>
           /\ follows(e1, credit[u], -bill.charged)
           /\ c1 = Balanced(credit, u, e1) /\ l1 = Booked(ledger, u, e1)
      /\ ~(bill.charged > 0) => c1 = credit /\ l1 = ledger
      /\ PaysOwner(bill) =>
           /\ bill.owner \in Users
           /\ follows(e2, c1[bill.owner], Markup(bill))
           /\ credit' = Balanced(c1, bill.owner, e2)
           /\ ledger' = Booked(l1, bill.owner, e2)
      /\ ~PaysOwner(bill) => credit' = c1 /\ ledger' = l1

LEMMA Negated == \A a \in Int, b \in Nat : -b \in Int /\ a + (-b) = a - b
  OBVIOUS

LEMMA CommitLockPosts ==
  ASSUME MoneyInv, NEW r \in Requests, CommitLock(r)
  PROVE  \E c1 \in [Users -> Int], l1 \in [Users -> Seq(Entry)], e1 \in Entry, e2 \in Entry :
           LockPosts(r, c1, l1, e1, e2)
  <1> USE DEF MoneyInv, TypeInv
  <1> DEFINE u == Client[tx[r].target]
             bill == tx[r].bill
             c1 == Charged(credit, r)
             l1 == ChargeEntry(ledger, r)
             e1 == Posting("lock", tx[r].clientPrev, -bill.charged, r)
             e2 == Posting("commission", tx[r].ownerPrev, Markup(bill), r)
  <1>1. /\ tx[r].at = "save_lock"
        /\ credit' = Commissioned(c1, r)
        /\ ledger' = CommissionEntry(l1, r)
    BY DEF CommitLock
  <1>2. /\ bill \in Bill /\ tx[r].clientPrev \in Int /\ tx[r].ownerPrev \in Int /\ u \in Users
        /\ credit \in [Users -> Int] /\ ledger \in [Users -> Seq(Entry)]
    BY <1>1, StageTyping, TargetsAssumption DEF TypeOK, SavingLock
  <1>3. bill.charged \in Nat /\ Markup(bill) \in Int
    BY <1>2 DEF Bill, Markup
  <1>4. ReadsStand(r)
    BY DEF HeldBalanceIsCurrent
  <1>5. /\ e1 \in Entry /\ e1.prev = tx[r].clientPrev /\ e1.amount = -bill.charged
        /\ e1.new = e1.prev + e1.amount /\ e1.new = tx[r].clientPrev - bill.charged
    <2> DEFINE amount == -bill.charged
    <2>1. amount \in Int /\ r \in Requests \cup {None}
          /\ tx[r].clientPrev + amount = tx[r].clientPrev - bill.charged
      BY <1>2, <1>3, Negated
    <2>2. "lock" \in EntryType
      BY DEF EntryType
    <2> HIDE DEF amount
    <2>3. LET e == Posting("lock", tx[r].clientPrev, amount, r)
          IN  e \in Entry /\ e.prev = tx[r].clientPrev /\ e.new = tx[r].clientPrev + amount
              /\ e.amount = amount /\ e.new = e.prev + e.amount
      BY <1>2, <2>1, <2>2, PostingTyping
    <2>4. QED
      BY <2>1, <2>3 DEF amount
  <1>6. /\ e2 \in Entry /\ e2.prev = tx[r].ownerPrev /\ e2.amount = Markup(bill)
        /\ e2.new = e2.prev + e2.amount /\ e2.new = tx[r].ownerPrev + Markup(bill)
    <2> DEFINE prev == tx[r].ownerPrev
               markup == Markup(bill)
    <2>1. prev \in Int /\ markup \in Int /\ r \in Requests \cup {None} /\ "commission" \in EntryType
      BY <1>2, <1>3 DEF EntryType
    <2> HIDE DEF prev, markup
    <2>2. LET e == Posting("commission", prev, markup, r)
          IN  e \in Entry /\ e.prev = prev /\ e.new = prev + markup /\ e.amount = markup
              /\ e.new = e.prev + e.amount
      BY <2>1, PostingTyping
    <2>3. QED
      BY <2>2 DEF prev, markup
  <1>7. bill.charged > 0 =>
          /\ tx[r].clientPrev = credit[u]
          /\ c1 = Balanced(credit, u, e1) /\ l1 = Booked(ledger, u, e1)
    BY <1>1, <1>4, <1>5 DEF ReadsStand, HoldsClient, Charged, ChargeEntry, Balanced, Booked
  <1>8. ~(bill.charged > 0) => c1 = credit /\ l1 = ledger
    BY DEF Charged, ChargeEntry
  <1>9. c1 \in [Users -> Int] /\ l1 \in [Users -> Seq(Entry)]
    <2> HIDE DEF e1, c1, l1
    <2>1. e1.new \in Int /\ \A l \in Seq(Entry) : Append(l, e1) \in Seq(Entry)
      BY <1>5 DEF Entry
    <2>2. Append(ledger[u], e1) \in Seq(Entry)
      BY <1>2, <2>1
    <2>3. CASE bill.charged > 0
      BY <1>2, <1>7, <2>1, <2>2, <2>3 DEF Balanced, Booked
    <2>4. QED
      BY <1>2, <1>8, <2>3
  <1>10. PaysOwner(bill) =>
           /\ bill.owner \in Users /\ tx[r].ownerPrev = c1[bill.owner]
           /\ credit' = Balanced(c1, bill.owner, e2)
           /\ ledger' = Booked(l1, bill.owner, e2)
    <2> SUFFICES ASSUME PaysOwner(bill)
                 PROVE  /\ bill.owner \in Users /\ tx[r].ownerPrev = c1[bill.owner]
                        /\ credit' = Balanced(c1, bill.owner, e2)
                        /\ ledger' = Booked(l1, bill.owner, e2)
      OBVIOUS
    <2>1. bill.owner \in Users /\ bill.charged > 0
      BY <1>2, MarkupCharged
    <2>2. tx[r].ownerPrev = OwnerBalance(r, bill)
      BY <1>1, <1>4 DEF ReadsStand, HoldsOwner
    <2>3. CASE bill.owner = u
      <3>1. c1[u] = e1.new
        BY <1>2, <1>7, <2>1 DEF Balanced
      <3>2. tx[r].ownerPrev = c1[bill.owner]
        BY <1>5, <2>2, <2>3, <3>1 DEF OwnerBalance
      <3>3. QED
        BY <1>1, <1>6, <2>1, <3>2 DEF Commissioned, CommissionEntry, Balanced, Booked
    <2>4. CASE bill.owner # u
      <3>1. c1[bill.owner] = credit[bill.owner]
        BY <1>2, <1>7, <2>1, <2>4 DEF Balanced
      <3>2. tx[r].ownerPrev = c1[bill.owner]
        BY <2>2, <2>4, <3>1 DEF OwnerBalance
      <3>3. QED
        BY <1>1, <1>6, <2>1, <3>2 DEF Commissioned, CommissionEntry, Balanced, Booked
    <2>5. QED
      BY <2>3, <2>4
  <1>11. ~PaysOwner(bill) => credit' = c1 /\ ledger' = l1
    BY <1>1 DEF Commissioned, CommissionEntry
  <1> HIDE DEF c1, l1, e1, e2
  <1>12. bill.charged > 0 => e1.prev = credit[u]
    BY <1>5, <1>7
  <1>13. PaysOwner(bill) => e2.prev = c1[bill.owner]
    BY <1>6, <1>10
  <1>14. LockPosts(r, c1, l1, e1, e2)
    BY <1>2, <1>5, <1>6, <1>7, <1>8, <1>10, <1>11, <1>12, <1>13 DEF LockPosts
  <1>15. QED
    BY <1>5, <1>6, <1>9, <1>14

LEMMA CommitLockAgrees ==
  ASSUME MoneyInv, LedgerExplainsCredit, NEW r \in Requests, CommitLock(r)
  PROVE  LedgerExplainsCredit'
  <1> DEFINE u == Client[tx[r].target]
             bill == tx[r].bill
  <1>1. PICK c1 \in [Users -> Int], l1 \in [Users -> Seq(Entry)], e1 \in Entry, e2 \in Entry :
          LockPosts(r, c1, l1, e1, e2)
    BY CommitLockPosts
  <1>2. /\ credit \in [Users -> Int] /\ ledger \in [Users -> Seq(Entry)]
        /\ Agree(credit, ledger)
    BY DEF MoneyInv, TypeInv, TypeOK, LedgerExplainsCredit, Agree
  <1>3. Agree(c1, l1)
    <2>1. CASE bill.charged > 0
      <3>1. u \in Users /\ e1.prev = credit[u] /\ e1.new = e1.prev + e1.amount
            /\ c1 = Balanced(credit, u, e1) /\ l1 = Booked(ledger, u, e1)
        BY <1>1, <2>1 DEF LockPosts
      <3>2. Agree(Balanced(credit, u, e1), Booked(ledger, u, e1))
        BY <1>2, <3>1, PostingAgrees
      <3>3. QED
        BY <3>1, <3>2
    <2>2. QED
      BY <1>1, <1>2, <2>1 DEF LockPosts
  <1>4. Agree(credit', ledger')
    <2>1. CASE PaysOwner(bill)
      <3>1. /\ bill.owner \in Users /\ e2.prev = c1[bill.owner] /\ e2.new = e2.prev + e2.amount
            /\ credit' = Balanced(c1, bill.owner, e2) /\ ledger' = Booked(l1, bill.owner, e2)
        BY <1>1, <2>1 DEF LockPosts
      <3>2. Agree(Balanced(c1, bill.owner, e2), Booked(l1, bill.owner, e2))
        BY <1>3, <3>1, PostingAgrees
      <3>3. QED
        BY <3>1, <3>2
    <2>2. QED
      BY <1>1, <1>3, <2>1 DEF LockPosts
  <1>5. QED
    BY <1>4 DEF LedgerExplainsCredit, Agree

LEMMA NextAgrees ==
  ASSUME MoneyInv, LedgerExplainsCredit, NEW r \in Requests, Begin(r) \/ Continue(r) \/ Fail(r)
  PROVE  LedgerExplainsCredit'
  <1> USE DEF MoneyInv, TypeInv
  <1>1. tx[r] \in Tx
    BY DEF TypeOK
  <1>2. ASSUME UNCHANGED <<credit, ledger>>
        PROVE  LedgerExplainsCredit'
    BY <1>2 DEF LedgerExplainsCredit
  <1>3. CASE TopUp(r)
    BY <1>3, PostAgrees, AmountsAssumption DEF TopUp, EntryType
  <1>4. CASE Adjust(r)
    BY <1>4, PostAgrees, AmountsAssumption DEF Adjust, EntryType
  <1>5. CASE CommitAddFee(r)
    <2>1. Post(Client[tx[r].target], "extra_fee", -tx[r].amount, r)
      BY <1>5 DEF CommitAddFee
    <2>2. -tx[r].amount \in Int /\ Client[tx[r].target] \in Users
      BY <1>1, <1>5, StageTyping, TargetsAssumption DEF CommitAddFee, AddingFee
    <2>3. QED
      BY <2>1, <2>2, PostAgrees DEF EntryType
  <1>6. CASE CommitVoidFee(r)
    <2> DEFINE f == tx[r].fee
    <2>1. Post(Client[fees[f].target], "extra_fee", fees[f].amount, f)
      BY <1>6 DEF CommitVoidFee
    <2>2. f \in Requests /\ fees[f] \in Fee
      BY <1>1, <1>6, StageTyping DEF CommitVoidFee, VoidingFee, VoidedFeesExist, TypeOK
    <2>3. fees[f].amount \in Int /\ Client[fees[f].target] \in Users
      BY <2>2, TargetsAssumption DEF Fee
    <2>4. QED
      BY <2>1, <2>2, <2>3, PostAgrees DEF EntryType
  <1>7. CASE SaveUser(r)
    \* Touches the balance of one user whose profile is edited.
    <2>1. tx[r].user \in ProfileUsers
      BY <1>1, <1>7, StageTyping DEF SaveUser, EditingUser
    <2>2. QED
      BY <1>7, <2>1 DEF SaveUser, LedgerExplainsCredit, TypeOK
  <1>8. CASE CommitLock(r)
    BY <1>8, CommitLockAgrees
  <1>9. CASE BeginAddFee(r) \/ BeginVoidFee(r) \/ LoadUser(r) \/ BeginLock(r) \/ LoadHeader(r)
    BY <1>2, <1>9 DEF BeginAddFee, BeginVoidFee, LoadUser, BeginLock, LoadHeader
  <1>10. CASE SelectUser(r) \/ ChargeClient(r) \/ CreditOwner(r) \/ SelectHeader(r)
              \/ SaveHeader(r) \/ Refuse(r) \/ AbortDeadlock(r) \/ Fail(r)
    BY <1>2, <1>10 DEF SelectUser, ChargeClient, CreditOwner, SelectHeader, SaveHeader,
                       Refuse, AbortDeadlock, Fail, RollBack
  <1>11. QED
    BY <1>3, <1>4, <1>5, <1>6, <1>7, <1>8, <1>9, <1>10 DEF Begin, Continue

(* The chain of a user's credit_history rows is unbroken and ends at users.credit, for
   any interleaving of charges, corrections, commissions, refunds and rollbacks, as
   long as nobody edits that user's profile. *)
THEOREM LedgerExplains == Spec => []LedgerExplainsCredit
  <1>1. Init => LedgerExplainsCredit
    BY UsersAssumption DEF Init, LedgerExplainsCredit, Chained, Closing, Posting
  <1>2. MoneyInv /\ LedgerExplainsCredit /\ [Next]_vars => LedgerExplainsCredit'
    <2> SUFFICES ASSUME MoneyInv, LedgerExplainsCredit, [Next]_vars
                 PROVE  LedgerExplainsCredit'
      OBVIOUS
    <2>1. CASE UNCHANGED vars
      BY <2>1 DEF LedgerExplainsCredit, vars
    <2>2. QED
      BY <2>1, NextAgrees DEF Next
  <1>3. QED
    BY <1>1, <1>2, MoneyCorrect, PTL DEF Spec

(* "Every change is mirrored in credit_history" (user.entity.ts:34) is true of every user,
   once nobody saves a profile: no other handler changes a balance behind the ledger. *)
THEOREM MirroredWithoutProfiles ==
  ASSUME ProfileUsers = {}
  PROVE  Spec => []EveryChangeMirrored
  <1>1. LedgerExplainsCredit => EveryChangeMirrored
    BY DEF LedgerExplainsCredit, EveryChangeMirrored
  <1>2. QED
    BY LedgerExplains, <1>1, PTL

-----------------------------------------------------------------------------
(* Fees.  A request that has not been answered has written no fee; a fee about to be
   voided is not a lock fee; and an edit that will save "locked" has read it from a
   header that was locked, hence billed. *)

Unwritten == \A r \in Requests : tx[r].at # "answered" => fees[r] = None

VoidsAllowed ==
  \A r \in Requests : tx[r].at = "void_fee" =>
    fees[tx[r].fee] # None /\ ~fees[tx[r].fee].protected

Billed == {fees[f].target : f \in {g \in Requests : fees[g] # None /\ fees[g].protected}}

EditsBilled ==
  \A r \in Requests : tx[r].at \in {"edit", "save_edit"} /\ tx[r].entity.locked =>
    tx[r].target \in Billed

HeadersBilled == \A t \in Targets : header[t].locked => t \in Billed

FeeInv == TypeInv /\ Unwritten /\ VoidsAllowed /\ EditsBilled /\ HeadersBilled

OnlyVoided ==
  \A f \in Requests : fees[f] # None =>
    \/ fees'[f] = fees[f]
    \/ ~fees[f].protected /\ fees'[f] = [fees[f] EXCEPT !.voided = TRUE]

(* The effect of any step of r on fee rows: r may write its own, or void one. *)
LEMMA FeeStep ==
  ASSUME FeeInv, NEW r \in Requests, Begin(r) \/ Continue(r) \/ Fail(r)
  PROVE  OnlyVoided /\ \A q \in Requests \ {r} : fees[q] = None => fees'[q] = None
  <1> USE DEF FeeInv, TypeInv
  <1>1. tx[r] \in Tx
    BY DEF TypeOK
  <1>2. CASE UNCHANGED fees
    BY <1>2 DEF OnlyVoided
  <1>3. CASE CommitAddFee(r)
    <2>1. fees[r] = None /\ \A q \in Requests \ {r} : fees'[q] = fees[q]
      BY <1>3 DEF CommitAddFee, Unwritten, TypeOK
    <2>2. QED
      BY <2>1 DEF OnlyVoided
  <1>4. CASE CommitVoidFee(r)
    <2> DEFINE f == tx[r].fee
    <2>1. f \in Requests /\ fees[f] # None /\ ~fees[f].protected
      BY <1>1, <1>4, StageTyping DEF CommitVoidFee, VoidingFee, VoidsAllowed
    <2>2. /\ fees'[f] = [fees[f] EXCEPT !.voided = TRUE]
          /\ \A q \in Requests \ {f} : fees'[q] = fees[q]
      BY <1>4, <2>1 DEF CommitVoidFee, TypeOK
    <2>3. QED
      BY <2>1, <2>2 DEF OnlyVoided
  <1>5. CASE CommitLock(r)
    <2>1. fees[r] = None /\ \A q \in Requests \ {r} : fees'[q] = fees[q]
      BY <1>5 DEF CommitLock, WithLockFee, Unwritten, TypeOK
    <2>2. QED
      BY <2>1 DEF OnlyVoided
  <1>6. CASE Begin(r)
    BY <1>2, <1>6 DEF Begin, TopUp, Adjust, BeginAddFee, BeginVoidFee, LoadUser, BeginLock,
                      LoadHeader
  <1>7. CASE SelectUser(r) \/ SaveUser(r) \/ ChargeClient(r) \/ CreditOwner(r) \/ SelectHeader(r)
             \/ SaveHeader(r) \/ Refuse(r) \/ AbortDeadlock(r) \/ Fail(r)
    BY <1>2, <1>7 DEF SelectUser, SaveUser, ChargeClient, CreditOwner, SelectHeader, SaveHeader,
                      Refuse, AbortDeadlock, Fail, RollBack
  <1>8. QED
    BY <1>3, <1>4, <1>5, <1>6, <1>7 DEF Continue

LEMMA BilledStays ==
  ASSUME OnlyVoided
  PROVE  Billed \subseteq Billed'
  <1> SUFFICES ASSUME NEW f \in Requests, fees[f] # None, fees[f].protected
               PROVE  fees[f].target \in Billed'
    BY DEF Billed
  <1>1. fees'[f] = fees[f]
    BY DEF OnlyVoided
  <1>2. QED
    BY <1>1 DEF Billed

(* Enough to show FeeInv' of a step of r. *)
LEMMA FeesKeepInv ==
  ASSUME FeeInv, TypeInv', NEW r \in Requests, OnlyVoided,
         \A q \in Requests \ {r} : fees[q] = None => fees'[q] = None,
         \A q \in Requests \ {r} : tx'[q] = tx[q],
         tx'[r].at # "answered" => fees'[r] = None,
         tx'[r].at = "void_fee" => fees'[tx'[r].fee] # None /\ ~fees'[tx'[r].fee].protected,
         tx'[r].at \in {"edit", "save_edit"} /\ tx'[r].entity.locked => tx'[r].target \in Billed',
         \A t \in Targets : header'[t].locked => header[t].locked \/ t \in Billed'
  PROVE  FeeInv'
  <1> USE DEF FeeInv, TypeInv
  <1>1. Unwritten'
    BY DEF Unwritten
  <1>2. VoidsAllowed'
    <2> SUFFICES ASSUME NEW q \in Requests \ {r}, tx[q].at = "void_fee"
                 PROVE  fees'[tx[q].fee] # None /\ ~fees'[tx[q].fee].protected
      BY DEF VoidsAllowed
    <2> DEFINE f == tx[q].fee
    <2>1. f \in Requests /\ fees[f] # None /\ ~fees[f].protected
      BY StageTyping DEF VoidsAllowed, TypeOK, VoidingFee
    <2>2. fees[f] \in Fee /\ fees'[f] # None
      BY <2>1, StageTyping DEF TypeOK, VoidedFeesExist
    <2>3. fees'[f].protected = fees[f].protected
      BY <2>1, <2>2 DEF OnlyVoided, Fee
    <2>4. QED
      BY <2>1, <2>2, <2>3
  <1>3. EditsBilled'
    BY BilledStays DEF EditsBilled
  <1>4. HeadersBilled'
    BY BilledStays DEF HeadersBilled
  <1>5. QED
    BY <1>1, <1>2, <1>3, <1>4

LEMMA FeeInvStep ==
  ASSUME FeeInv, NEW r \in Requests, Begin(r) \/ Continue(r) \/ Fail(r)
  PROVE  FeeInv'
  <1> USE DEF FeeInv, TypeInv
  <1>1. tx[r] \in Tx /\ TypeInv'
    BY BeginTyping, ContinueTyping DEF TypeOK
  <1>2. OnlyVoided /\ \A q \in Requests \ {r} : fees[q] = None => fees'[q] = None
    BY FeeStep
  <1>3. ASSUME Answer(r), UNCHANGED header
        PROVE  FeeInv'
    <2>1. tx'[r].at = "answered" /\ \A q \in Requests \ {r} : tx'[q] = tx[q]
      BY <1>3, AnswerTyping
    <2>2. QED
      BY <1>1, <1>2, <1>3, <2>1, FeesKeepInv
  <1>4. ASSUME NEW t, Goto(r, t), UNCHANGED <<fees, header>>, tx[r].at # "answered",
               t.at = "void_fee" => fees[t.fee] # None /\ ~fees[t.fee].protected,
               t.at \in {"edit", "save_edit"} /\ t.entity.locked => t.target \in Billed
        PROVE  FeeInv'
    <2>1. tx'[r] = t /\ \A q \in Requests \ {r} : tx'[q] = tx[q]
      BY <1>4 DEF Goto, TypeOK
    <2>2. fees'[r] = None /\ Billed' = Billed
      BY <1>4 DEF Unwritten, Billed
    <2>3. QED
      BY <1>1, <1>2, <1>4, <2>1, <2>2, FeesKeepInv
  <1>5. CASE TopUp(r) \/ Adjust(r) \/ CommitAddFee(r) \/ CommitVoidFee(r) \/ SaveUser(r)
             \/ Refuse(r) \/ AbortDeadlock(r) \/ Fail(r)
    BY <1>3, <1>5 DEF TopUp, Adjust, CommitAddFee, CommitVoidFee, SaveUser,
                      Refuse, AbortDeadlock, Fail, RollBack
  <1>6. CASE BeginAddFee(r)
    BY <1>4, <1>6 DEF BeginAddFee
  <1>7. CASE BeginVoidFee(r)
    <2>1. PICK f \in Requests :
            /\ Voidable(f) /\ tx[r].at = "fresh" /\ Goto(r, [at |-> "void_fee", fee |-> f])
            /\ UNCHANGED <<fees, header>>
      BY <1>7 DEF BeginVoidFee
    <2>2. QED
      BY <1>4, <2>1 DEF Voidable
  <1>8. CASE LoadUser(r)
    BY <1>4, <1>8 DEF LoadUser
  <1>9. CASE BeginLock(r)
    BY <1>4, <1>9 DEF BeginLock
  <1>10. CASE LoadHeader(r)
    <2>1. PICK t \in Targets, close \in BOOLEAN :
            /\ tx[r].at = "fresh"
            /\ Goto(r, [at |-> "edit", target |-> t, entity |-> [header[t] EXCEPT !.open = ~close]])
            /\ UNCHANGED <<fees, header>>
      BY <1>10 DEF LoadHeader
    <2>2. [header[t] EXCEPT !.open = ~close].locked = header[t].locked
      BY DEF TypeOK, Header
    <2>3. header[t].locked => t \in Billed
      BY DEF HeadersBilled
    <2>4. QED
      BY <1>4, <2>1, <2>2, <2>3
  <1>11. CASE SelectUser(r)
    <2>1. [tx[r] EXCEPT !.at = "save_user"].at = "save_user"
      BY <1>1, <1>11, StageTyping DEF SelectUser, EditingUser
    <2>2. QED
      BY <1>3, <1>4, <1>11, <2>1 DEF SelectUser
  <1>12. CASE ChargeClient(r)
    BY <1>4, <1>12 DEF ChargeClient
  <1>13. CASE CreditOwner(r)
    BY <1>4, <1>13 DEF CreditOwner
  <1>14. CASE SelectHeader(r)
    <2>1. tx[r].entity.locked => tx[r].target \in Billed
      BY <1>14 DEF SelectHeader, EditsBilled
    <2>2. QED
      BY <1>4, <1>14, <2>1 DEF SelectHeader
  <1>15. CASE CommitLock(r)
    <2> DEFINE t == tx[r].target
               row == [target |-> t, amount |-> tx[r].bill.charged, protected |-> TRUE, voided |-> FALSE]
    <2>1. tx[r].at = "save_lock" /\ t \in Targets /\ tx[r].bill.charged \in Nat
      BY <1>1, <1>15, StageTyping DEF CommitLock, SavingLock, Bill
    <2>2. row \in Fee /\ row # None
      <3>1. row \in Fee
        BY <2>1 DEF Fee
      <3> HIDE DEF row
      <3>2. QED
        BY <3>1, NoneAssumption
    <2>3. fees'[r] = row
      BY <1>15 DEF CommitLock, WithLockFee, TypeOK
    <2>4. t \in Billed'
      BY <2>2, <2>3 DEF Billed
    <2>5. \A v \in Targets \ {t} : header'[v] = header[v]
      BY <1>15 DEF CommitLock, TypeOK
    <2>6. tx'[r].at = "answered" /\ \A q \in Requests \ {r} : tx'[q] = tx[q]
      BY <1>15, AnswerTyping DEF CommitLock
    <2>7. QED
      BY <1>1, <1>2, <2>4, <2>5, <2>6, FeesKeepInv
  <1>16. CASE SaveHeader(r)
    <2> DEFINE t == tx[r].target
    <2>1. tx[r].at = "save_edit" /\ tx[r].entity.locked => t \in Billed
      BY DEF EditsBilled
    <2>2. t \in Targets /\ tx[r].at = "save_edit"
      BY <1>1, <1>16, StageTyping DEF SaveHeader, SavingEdit
    <2>3. header'[t].locked => header[t].locked \/ tx[r].entity.locked
      BY <1>16, <2>2 DEF SaveHeader, Written, TypeOK
    <2>4. \A v \in Targets \ {t} : header'[v] = header[v]
      BY <1>16 DEF SaveHeader, TypeOK
    <2>5. Billed' = Billed
      BY <1>16 DEF SaveHeader, Billed
    <2>6. tx'[r].at = "answered" /\ \A q \in Requests \ {r} : tx'[q] = tx[q]
      BY <1>16, AnswerTyping DEF SaveHeader
    <2>7. QED
      BY <1>1, <1>2, <2>1, <2>2, <2>3, <2>4, <2>5, <2>6, FeesKeepInv
  <1>17. QED
    BY <1>5, <1>6, <1>7, <1>8, <1>9, <1>10, <1>11, <1>12, <1>13, <1>14, <1>15, <1>16
       DEF Begin, Continue

LEMMA FeesCorrect == Spec => []FeeInv
  <1>1. Init => FeeInv
    BY InitTyping DEF Init, FeeInv, Unwritten, VoidsAllowed, EditsBilled, HeadersBilled
  <1>2. FeeInv /\ [Next]_vars => FeeInv'
    <2> SUFFICES ASSUME FeeInv, [Next]_vars PROVE FeeInv'
      OBVIOUS
    <2>1. CASE UNCHANGED vars
      BY <2>1 DEF FeeInv, TypeInv, TypeOK, VoidedFeesExist, Unwritten, VoidsAllowed, EditsBilled,
                  HeadersBilled, Billed, vars
    <2>2. QED
      BY <2>1, FeeInvStep DEF Next
  <1>3. QED
    BY <1>1, <1>2, PTL DEF Spec

(* What is locked has been billed: no save of a stale order or shipment sets "locked"
   without a total_fees row of a lock, whatever locks, edits and closes overlap. *)
THEOREM LockedIsBilled == Spec => []LockedHasFee
  <1>1. FeeInv => LockedHasFee
    BY DEF FeeInv, HeadersBilled, Billed, LockedHasFee, FeeIds
  <1>2. QED
    BY <1>1, FeesCorrect, PTL

-----------------------------------------------------------------------------
(* Ledger rows are only added *)

LedgersGrow ==
  \A u \in Users : \A i \in DOMAIN ledger[u] :
    i \in DOMAIN ledger'[u] /\ ledger'[u][i] = ledger[u][i]

LEMMA BookedGrows ==
  ASSUME NEW l \in [Users -> Seq(Entry)], NEW u \in Users, NEW e \in Entry
  PROVE  /\ Booked(l, u, e) \in [Users -> Seq(Entry)]
         /\ \A v \in Users : \A i \in DOMAIN l[v] :
              i \in DOMAIN Booked(l, u, e)[v] /\ Booked(l, u, e)[v][i] = l[v][i]
  <1>1. l[u] \in Seq(Entry)
    OBVIOUS
  <1>2. Append(l[u], e) \in Seq(Entry)
    BY <1>1
  <1>3. \A i \in DOMAIN l[u] : i \in DOMAIN Append(l[u], e) /\ Append(l[u], e)[i] = l[u][i]
    BY <1>1
  <1>4. QED
    BY <1>2, <1>3 DEF Booked

LEMMA PostGrows ==
  ASSUME TypeOK, NEW u \in Users, NEW type \in EntryType,
         NEW amount \in Int, NEW f \in Requests \cup {None}, Post(u, type, amount, f)
  PROVE  LedgersGrow
  <1> DEFINE e == Posting(type, credit[u], amount, f)
  <1>1. e \in Entry /\ ledger \in [Users -> Seq(Entry)]
    BY PostingTyping DEF TypeOK
  <1>2. ledger' = Booked(ledger, u, e)
    BY DEF Post, Booked
  <1> HIDE DEF e
  <1>3. QED
    BY <1>1, <1>2, BookedGrows DEF LedgersGrow

LEMMA CommitLockGrows ==
  ASSUME TypeInv, NEW r \in Requests, CommitLock(r)
  PROVE  LedgersGrow
  <1> USE DEF TypeInv
  <1> DEFINE u == Client[tx[r].target]
             bill == tx[r].bill
             l1 == ChargeEntry(ledger, r)
             e1 == Posting("lock", tx[r].clientPrev, -bill.charged, r)
             e2 == Posting("commission", tx[r].ownerPrev, Markup(bill), r)
             Extends(k, l) == \A v \in Users : \A i \in DOMAIN l[v] :
                                i \in DOMAIN k[v] /\ k[v][i] = l[v][i]
  <1>1. /\ tx[r].at = "save_lock"
        /\ ledger' = CommissionEntry(l1, r)
    BY DEF CommitLock
  <1>2. /\ bill \in Bill /\ tx[r].clientPrev \in Int /\ tx[r].ownerPrev \in Int /\ u \in Users
        /\ ledger \in [Users -> Seq(Entry)]
    BY <1>1, StageTyping, TargetsAssumption DEF TypeOK, SavingLock
  <1>3. e1 \in Entry
    <2>1. -bill.charged \in Int
      BY <1>2 DEF Bill
    <2>2. QED
      BY <1>2, <2>1, PostingTyping DEF EntryType
  <1>4. l1 = Booked(ledger, u, e1) \/ l1 = ledger
    BY DEF ChargeEntry, Booked
  <1> HIDE DEF e1
  <1>5. l1 \in [Users -> Seq(Entry)] /\ Extends(l1, ledger)
    BY SMTT(30), <1>2, <1>3, <1>4, BookedGrows
  <1> HIDE DEF l1
  <1>6. CASE PaysOwner(bill)
    <2>1. bill.owner \in Users /\ Markup(bill) \in Int
      BY <1>2, <1>6, MarkupCharged
    <2>2. e2 \in Entry
      BY <1>2, <2>1, PostingTyping DEF EntryType
    <2>3. ledger' = Booked(l1, bill.owner, e2)
      BY <1>1, <1>6 DEF CommissionEntry, Booked
    <2> HIDE DEF e2
    <2>4. Extends(ledger', l1)
      BY SMTT(30), <1>5, <2>1, <2>2, <2>3, BookedGrows
    <2>5. QED
      BY <1>5, <2>4 DEF LedgersGrow
  <1>7. CASE ~PaysOwner(bill)
    BY <1>1, <1>5, <1>7 DEF CommissionEntry, LedgersGrow
  <1>8. QED
    BY <1>6, <1>7

LEMMA LedgerStep ==
  ASSUME TypeInv, NEW r \in Requests, Begin(r) \/ Continue(r) \/ Fail(r)
  PROVE  LedgersGrow
  <1> USE DEF TypeInv
  <1>1. tx[r] \in Tx
    BY DEF TypeOK
  <1>2. CASE UNCHANGED ledger
    BY <1>2 DEF LedgersGrow
  <1>3. CASE TopUp(r)
    BY <1>3, PostGrows, AmountsAssumption DEF TopUp, EntryType
  <1>4. CASE Adjust(r)
    BY <1>4, PostGrows, AmountsAssumption DEF Adjust, EntryType
  <1>5. CASE CommitAddFee(r)
    <2>1. Post(Client[tx[r].target], "extra_fee", -tx[r].amount, r)
      BY <1>5 DEF CommitAddFee
    <2>2. -tx[r].amount \in Int /\ Client[tx[r].target] \in Users
      BY <1>1, <1>5, StageTyping, TargetsAssumption DEF CommitAddFee, AddingFee
    <2>3. QED
      BY <2>1, <2>2, PostGrows DEF EntryType
  <1>6. CASE CommitVoidFee(r)
    <2> DEFINE f == tx[r].fee
    <2>1. Post(Client[fees[f].target], "extra_fee", fees[f].amount, f)
      BY <1>6 DEF CommitVoidFee
    <2>2. f \in Requests /\ fees[f] \in Fee
      BY <1>1, <1>6, StageTyping DEF CommitVoidFee, VoidingFee, VoidedFeesExist, TypeOK
    <2>3. fees[f].amount \in Int /\ Client[fees[f].target] \in Users
      BY <2>2, TargetsAssumption DEF Fee
    <2>4. QED
      BY <2>1, <2>2, <2>3, PostGrows DEF EntryType
  <1>7. CASE CommitLock(r)
    BY <1>7, CommitLockGrows
  <1>8. CASE BeginAddFee(r) \/ BeginVoidFee(r) \/ LoadUser(r) \/ BeginLock(r) \/ LoadHeader(r)
    BY <1>2, <1>8 DEF BeginAddFee, BeginVoidFee, LoadUser, BeginLock, LoadHeader
  <1>9. CASE SelectUser(r) \/ SaveUser(r) \/ ChargeClient(r) \/ CreditOwner(r)
             \/ SelectHeader(r) \/ SaveHeader(r) \/ Refuse(r) \/ AbortDeadlock(r) \/ Fail(r)
    BY <1>2, <1>9 DEF SelectUser, SaveUser, ChargeClient, CreditOwner, SelectHeader, SaveHeader,
                      Refuse, AbortDeadlock, Fail, RollBack
  <1>10. QED
    BY <1>3, <1>4, <1>5, <1>6, <1>7, <1>8, <1>9 DEF Begin, Continue

(* Fee rows are only ever voided, lock fees not even that, and credit_history rows are
   neither changed nor removed. *)
THEOREM BooksOnlyGrow == Spec => BooksAppendOnly
  <1>1. FeeInv /\ [Next]_vars =>
          [ /\ \A f \in FeeIds :
                 fees'[f] = fees[f] \/ (~fees[f].protected /\ fees'[f] = [fees[f] EXCEPT !.voided = TRUE])
            /\ \A u \in Users : \A i \in DOMAIN ledger[u] :
                 i \in DOMAIN ledger'[u] /\ ledger'[u][i] = ledger[u][i] ]_vars
    <2> SUFFICES ASSUME FeeInv, NEW r \in Requests, Begin(r) \/ Continue(r) \/ Fail(r)
                 PROVE  OnlyVoided /\ LedgersGrow
      BY DEF Next, OnlyVoided, LedgersGrow, FeeIds
    <2>1. QED
      BY FeeStep, LedgerStep DEF FeeInv
  <1>2. QED
    BY <1>1, FeesCorrect, PTL DEF Spec, BooksAppendOnly
-----------------------------------------------------------------------------
(* Live fees are billed.  The rows linked to a fee are written with it, in one commit;
   later postings are linked to other fees, or to none, or void it. *)

Linked(l, f) == {p \in Users \X Nat : p[2] \in DOMAIN l[p[1]] /\ l[p[1]][p[2]].fee = f}
AmountAt(l, p) == l[p[1]][p[2]].amount

\* The rows l links to f are those of the live fee: nothing for a lock fee of zero, one
\* charge to the client, or a charge and a commission out of it.
BilledFor(l, f, fee) ==
  LET links == Linked(l, f)
      u == Client[fee.target]
  IN  \/ fee.protected /\ fee.amount = 0 /\ links = {}
      \/ \E p \in links :
           /\ p[1] = u /\ AmountAt(l, p) = -fee.amount
           /\ links = {p}
      \/ \E p, q \in links :
           /\ fee.protected /\ p # q /\ links = {p, q}
           /\ p[1] = u /\ AmountAt(l, p) = -fee.amount
           /\ AmountAt(l, q) \in 1 .. fee.amount

LiveOnesBilled ==
  \A f \in Requests :
    /\ fees[f] = None => Linked(ledger, f) = {}
    /\ fees[f] # None /\ ~fees[f].voided => BilledFor(ledger, f, fees[f])

\* Between l and k the row p has been added, with the amount of e, and is linked to f if e is.
LinksRow(l, k, e, f, p) ==
  /\ p \notin Linked(l, f)
  /\ Linked(k, f) = Linked(l, f) \cup (IF e.fee = f THEN {p} ELSE {})
  /\ AmountAt(k, p) = e.amount
  /\ \A q \in Linked(l, f) : AmountAt(k, q) = AmountAt(l, q)

\* A posting links a row to its fee, after those that were there.
LEMMA BookedLinks ==
  ASSUME NEW l \in [Users -> Seq(Entry)], NEW u \in Users, NEW e \in Entry, NEW f \in Requests
  PROVE  LinksRow(l, Booked(l, u, e), e, f, <<u, Len(l[u]) + 1>>)
  <1> DEFINE k == Booked(l, u, e)
             n == Len(l[u]) + 1
  <1>1. l[u] \in Seq(Entry) /\ DOMAIN l[u] = 1 .. Len(l[u]) /\ Len(l[u]) \in Nat
    OBVIOUS
  <1>2. /\ DOMAIN k[u] = 1 .. n /\ k[u][n] = e
        /\ \A i \in 1 .. Len(l[u]) : k[u][i] = l[u][i]
        /\ \A v \in Users \ {u} : k[v] = l[v]
    BY <1>1 DEF Booked
  <1> HIDE DEF k
  <1>3. <<u, n>> \in Users \X Nat /\ <<u, n>> \notin Linked(l, f)
    BY <1>1 DEF Linked
  <1>4. ASSUME NEW p \in Users \X Nat
        PROVE  p \in Linked(k, f) <=> p \in Linked(l, f) \/ (e.fee = f /\ p = <<u, n>>)
    <2>1. p = <<p[1], p[2]>> /\ p[1] \in Users /\ p[2] \in Nat
      OBVIOUS
    <2>2. CASE p[1] # u
      BY <1>2, <2>1, <2>2 DEF Linked
    <2>3. CASE p[1] = u /\ p[2] = n
      BY <1>1, <1>2, <2>1, <2>3 DEF Linked
    <2>4. CASE p[1] = u /\ p[2] # n
      <3>1. p[2] \in 1 .. n <=> p[2] \in 1 .. Len(l[u])
        BY <1>1, <2>1, <2>4
      <3>2. QED
        BY <1>1, <1>2, <2>1, <2>4, <3>1 DEF Linked
    <2>5. QED
      BY <2>2, <2>3, <2>4
  <1>5. Linked(k, f) = Linked(l, f) \cup (IF e.fee = f THEN {<<u, n>>} ELSE {})
    <2>1. Linked(k, f) \subseteq Users \X Nat /\ Linked(l, f) \subseteq Users \X Nat
      BY DEF Linked
    <2>2. QED
      BY <1>3, <1>4, <2>1
  <1>6. AmountAt(k, <<u, n>>) = e.amount
    BY <1>2 DEF AmountAt
  <1>7. \A p \in Linked(l, f) : AmountAt(k, p) = AmountAt(l, p)
    BY <1>1, <1>2 DEF Linked, AmountAt
  <1>8. QED
    BY <1>3, <1>5, <1>6, <1>7 DEF k, LinksRow

\* A row linked to something else leaves a fee billed as it was.
LEMMA OthersBilled ==
  ASSUME NEW l \in [Users -> Seq(Entry)], NEW u \in Users, NEW e \in Entry,
         NEW f \in Requests, e.fee # f, NEW fee
  PROVE  /\ Linked(Booked(l, u, e), f) = Linked(l, f)
         /\ BilledFor(l, f, fee) => BilledFor(Booked(l, u, e), f, fee)
  <1>1. LinksRow(l, Booked(l, u, e), e, f, <<u, Len(l[u]) + 1>>)
    BY BookedLinks
  <1>2. /\ Linked(Booked(l, u, e), f) = Linked(l, f)
        /\ \A p \in Linked(l, f) : AmountAt(Booked(l, u, e), p) = AmountAt(l, p)
    BY <1>1 DEF LinksRow
  <1>3. QED
    BY <1>2 DEF BilledFor

\* Posting for the fee of a request, or for none, leaves the other fees billed.
LEMMA PostBills ==
  ASSUME TypeOK, LiveOnesBilled, NEW r \in Requests \cup {None}, NEW u \in Users,
         NEW type \in EntryType, NEW amount \in Int, Post(u, type, amount, r),
         \A f \in Requests \ {r} : fees'[f] = fees[f]
  PROVE  \A f \in Requests \ {r} :
           /\ fees'[f] = None => Linked(ledger', f) = {}
           /\ fees'[f] # None /\ ~fees'[f].voided => BilledFor(ledger', f, fees'[f])
  <1> DEFINE e == Posting(type, credit[u], amount, r)
  <1>1. e \in Entry /\ ledger \in [Users -> Seq(Entry)]
    BY PostingTyping DEF TypeOK
  <1>2. ledger' = Booked(ledger, u, e) /\ e.fee = r
    BY DEF Post, Booked, Posting
  <1> HIDE DEF e
  <1>3. ASSUME NEW f \in Requests \ {r}
        PROVE  /\ Linked(ledger', f) = Linked(ledger, f)
               /\ BilledFor(ledger, f, fees[f]) => BilledFor(ledger', f, fees[f])
    <2>1. e.fee # f
      BY <1>2
    <2>2. QED
      BY <1>1, <1>2, <2>1, OthersBilled
  <1>4. QED
    BY <1>3 DEF LiveOnesBilled

\* An extra fee is billed by one posting.
LEMMA AddFeeBills ==
  ASSUME TypeInv, Unwritten, LiveOnesBilled, NEW r \in Requests, CommitAddFee(r)
  PROVE  LiveOnesBilled'
  <1> USE DEF TypeInv
  <1> DEFINE u == Client[tx[r].target]
             amount == tx[r].amount
             e == Posting("extra_fee", credit[u], -amount, r)
             fee == [target |-> tx[r].target, amount |-> amount, protected |-> FALSE, voided |-> FALSE]
  <1>1. /\ u \in Users /\ amount \in Nat /\ -amount \in Int /\ tx[r].at = "add_fee"
        /\ ledger \in [Users -> Seq(Entry)] /\ credit[u] \in Int
    BY StageTyping, TargetsAssumption DEF CommitAddFee, TypeOK, AddingFee
  <1>2. Post(u, "extra_fee", -amount, r) /\ fees' = [fees EXCEPT ![r] = fee]
    BY DEF CommitAddFee
  <1>3. fees'[r] = fee /\ \A f \in Requests \ {r} : fees'[f] = fees[f]
    BY <1>2 DEF TypeOK
  <1>4. \A f \in Requests \ {r} :
          /\ fees'[f] = None => Linked(ledger', f) = {}
          /\ fees'[f] # None /\ ~fees'[f].voided => BilledFor(ledger', f, fees'[f])
    <2> HIDE DEF u, amount, fee
    <2>1. "extra_fee" \in EntryType
      BY DEF EntryType
    <2>2. QED
      BY <1>1, <1>2, <1>3, <2>1, PostBills
  <1>5. Linked(ledger, r) = {}
    BY <1>1 DEF Unwritten, LiveOnesBilled
  <1>6. e \in Entry /\ e.fee = r /\ e.amount = -amount /\ ledger' = Booked(ledger, u, e)
    <2> HIDE DEF u, amount
    <2>0. "extra_fee" \in EntryType
      BY DEF EntryType
    <2>1. e \in Entry /\ e.amount = -amount
      BY <1>1, <2>0, PostingTyping
    <2>2. e.fee = r
      BY DEF Posting
    <2>3. ledger' = Booked(ledger, u, e)
      BY <1>2 DEF Post, Booked
    <2>4. QED
      BY <2>1, <2>2, <2>3
  <1>7. fees'[r] # None
    <2>1. fee \in Fee
      BY <1>1, StageTyping DEF TypeOK, AddingFee, Fee
    <2>2. QED
      BY <1>3, <2>1, NoneAssumption
  <1>8. BilledFor(ledger', r, fee)
    <2>1. PICK p : p = <<u, Len(ledger[u]) + 1>>
      OBVIOUS
    <2>2. Linked(ledger', r) = {p} /\ AmountAt(ledger', p) = -amount
      <3> HIDE DEF e, u, amount
      <3>1. LinksRow(ledger, ledger', e, r, p)
        BY <1>1, <1>6, <2>1, BookedLinks
      <3>2. QED
        BY <1>5, <1>6, <3>1 DEF LinksRow
    <2>3. p[1] = Client[fee.target] /\ fee.amount = amount
      BY <2>1
    <2> HIDE DEF fee, amount, u
    <2>4. QED
      BY <2>2, <2>3 DEF BilledFor
  <1> HIDE DEF fee
  <1>9. QED
    BY <1>3, <1>4, <1>7, <1>8 DEF LiveOnesBilled

\* Voiding a fee links the refund to it, and to no other.
LEMMA VoidFeeBills ==
  ASSUME TypeInv, LiveOnesBilled, NEW r \in Requests, CommitVoidFee(r)
  PROVE  LiveOnesBilled'
  <1> USE DEF TypeInv
  <1> DEFINE g == tx[r].fee
  <1>1. g \in Requests /\ fees[g] \in Fee
    BY StageTyping DEF CommitVoidFee, VoidingFee, VoidedFeesExist, TypeOK
  <1>2. fees[g].amount \in Int /\ Client[fees[g].target] \in Users
    BY <1>1, TargetsAssumption DEF Fee
  <1>3. /\ Post(Client[fees[g].target], "extra_fee", fees[g].amount, g)
        /\ fees' = [fees EXCEPT ![g].voided = TRUE]
    BY DEF CommitVoidFee
  <1>4. /\ fees'[g] = [fees[g] EXCEPT !.voided = TRUE]
        /\ \A f \in Requests \ {g} : fees'[f] = fees[f]
    BY <1>1, <1>3 DEF TypeOK
  <1>5. fees'[g] \in Fee /\ fees'[g].voided
    BY <1>1, <1>4 DEF Fee
  <1>6. fees'[g] # None
    BY <1>5, NoneAssumption
  <1> HIDE DEF g
  <1>7. \A f \in Requests \ {g} :
          /\ fees'[f] = None => Linked(ledger', f) = {}
          /\ fees'[f] # None /\ ~fees'[f].voided => BilledFor(ledger', f, fees'[f])
    <2>1. "extra_fee" \in EntryType
      BY DEF EntryType
    <2>2. QED
      BY <1>1, <1>2, <1>3, <1>4, <2>1, PostBills
  <1>8. QED
    BY <1>5, <1>6, <1>7 DEF LiveOnesBilled

\* A lock writes its fee together with the charge, if there is one, and the commission.
LEMMA CommitLockBills ==
  ASSUME TypeInv, Unwritten, LiveOnesBilled, NEW r \in Requests, CommitLock(r)
  PROVE  LiveOnesBilled'
  <1> USE DEF TypeInv
  <1> DEFINE u == Client[tx[r].target]
             bill == tx[r].bill
             l1 == ChargeEntry(ledger, r)
             e1 == Posting("lock", tx[r].clientPrev, -bill.charged, r)
             e2 == Posting("commission", tx[r].ownerPrev, Markup(bill), r)
             fee == [target |-> tx[r].target, amount |-> bill.charged,
                     protected |-> TRUE, voided |-> FALSE]
  <1>1. tx[r].at = "save_lock" /\ ledger' = CommissionEntry(l1, r) /\ fees' = [fees EXCEPT ![r] = fee]
    BY DEF CommitLock, WithLockFee
  <1>2. /\ bill \in Bill /\ tx[r].clientPrev \in Int /\ tx[r].ownerPrev \in Int /\ u \in Users
        /\ ledger \in [Users -> Seq(Entry)] /\ tx[r].target \in Targets
    BY <1>1, StageTyping, TargetsAssumption DEF TypeOK, SavingLock
  <1>3. bill.charged \in Nat /\ bill.base \in Nat /\ -bill.charged \in Int
    BY <1>2 DEF Bill
  <1>4. e1 \in Entry /\ e1.amount = -bill.charged /\ e1.fee = r
    <2>0. PICK amount \in Int : amount = -bill.charged
      BY <1>3
    <2>1. e1 \in Entry /\ e1.amount = -bill.charged
      BY <1>2, <2>0, PostingTyping DEF EntryType
    <2>2. e1.fee = r
      BY DEF Posting
    <2>3. QED
      BY <2>1, <2>2
  <1>5. fees'[r] = fee /\ fees'[r] # None /\ \A f \in Requests \ {r} : fees'[f] = fees[f]
    <2>1. fee \in Fee
      BY <1>2, <1>3 DEF Fee
    <2>2. QED
      BY <1>1, <2>1, NoneAssumption DEF TypeOK
  <1>6. /\ bill.charged > 0 => l1 = Booked(ledger, u, e1)
        /\ ~(bill.charged > 0) => l1 = ledger
    BY DEF ChargeEntry, Booked
  <1>7. Linked(ledger, r) = {}
    BY <1>1 DEF Unwritten, LiveOnesBilled
  <1>8. fee.protected /\ fee.amount = bill.charged /\ Client[fee.target] = u
    OBVIOUS
  <1> HIDE DEF e1, l1, u, fee
  <1>9. l1 \in [Users -> Seq(Entry)]
    BY <1>2, <1>4, <1>6, BookedGrows
  <1>10. \A f \in Requests \ {r} :
           /\ Linked(l1, f) = Linked(ledger, f)
           /\ BilledFor(ledger, f, fees[f]) => BilledFor(l1, f, fees[f])
    BY <1>2, <1>4, <1>6, OthersBilled
  <1>11. CASE ~PaysOwner(bill)
    <2>1. ledger' = l1
      BY <1>1, <1>11 DEF CommissionEntry
    <2>2. CASE ~(bill.charged > 0)
      <3>1. BilledFor(ledger', r, fee)
        BY <1>3, <1>6, <1>7, <1>8, <2>1, <2>2 DEF BilledFor
      <3>2. QED
        BY <1>5, <1>10, <2>1, <3>1 DEF LiveOnesBilled
    <2>3. CASE bill.charged > 0
      <3>1. PICK p : p = <<u, Len(ledger[u]) + 1>>
        OBVIOUS
      <3>2. LinksRow(ledger, l1, e1, r, p)
        BY <1>2, <1>4, <1>6, <2>3, <3>1, BookedLinks
      <3>3. Linked(l1, r) = {p} /\ AmountAt(l1, p) = -bill.charged /\ p[1] = u
        BY <1>4, <1>7, <3>1, <3>2 DEF LinksRow
      <3>4. BilledFor(ledger', r, fee)
        BY <1>8, <2>1, <3>3 DEF BilledFor
      <3>5. QED
        BY <1>5, <1>10, <2>1, <3>4 DEF LiveOnesBilled
    <2>4. QED
      BY <2>2, <2>3
  <1>12. CASE PaysOwner(bill)
    <2>1. bill.owner \in Users /\ Markup(bill) \in Int /\ Markup(bill) \in 1 .. bill.charged
          /\ bill.charged > 0
      BY SMTT(30), <1>2, <1>3, <1>12 DEF PaysOwner, Markup, Bill
    <2>2. e2 \in Entry /\ e2.amount = Markup(bill) /\ e2.fee = r
      <3>1. e2 \in Entry /\ e2.amount = Markup(bill)
        BY <1>2, <2>1, PostingTyping DEF EntryType
      <3>2. e2.fee = r
        BY DEF Posting
      <3>3. QED
        BY <3>1, <3>2
    <2>3. ledger' = Booked(l1, bill.owner, e2)
      BY <1>1, <1>12 DEF CommissionEntry, Booked
    <2> HIDE DEF e2
    <2>4. PICK p : p = <<u, Len(ledger[u]) + 1>>
      OBVIOUS
    <2>5. PICK q : q = <<bill.owner, Len(l1[bill.owner]) + 1>>
      OBVIOUS
    <2>6. LinksRow(ledger, l1, e1, r, p)
      BY <1>2, <1>4, <1>6, <2>1, <2>4, BookedLinks
    <2>7. LinksRow(l1, ledger', e2, r, q)
      BY <1>9, <2>1, <2>2, <2>3, <2>5, BookedLinks
    <2>8. Linked(l1, r) = {p} /\ AmountAt(l1, p) = -bill.charged /\ p[1] = u
      BY <1>4, <1>7, <2>4, <2>6 DEF LinksRow
    <2>9. /\ Linked(ledger', r) = {p, q} /\ p # q
          /\ AmountAt(ledger', p) = -bill.charged /\ AmountAt(ledger', q) = Markup(bill)
      BY <2>2, <2>7, <2>8 DEF LinksRow
    <2>10. BilledFor(ledger', r, fee)
      <3> HIDE DEF bill
      <3>1. QED
        BY <1>8, <2>1, <2>8, <2>9 DEF BilledFor
    <2>11. \A f \in Requests \ {r} :
             /\ Linked(ledger', f) = Linked(ledger, f)
             /\ BilledFor(ledger, f, fees[f]) => BilledFor(ledger', f, fees[f])
      BY <1>9, <1>10, <2>1, <2>2, <2>3, OthersBilled
    <2>12. QED
      BY <1>5, <2>10, <2>11 DEF LiveOnesBilled
  <1>13. QED
    BY <1>11, <1>12

\* Every step leaves live fees billed.
LEMMA BillsStep ==
  ASSUME TypeInv, Unwritten, LiveOnesBilled, NEW r \in Requests, Begin(r) \/ Continue(r) \/ Fail(r)
  PROVE  LiveOnesBilled'
  <1>1. CASE UNCHANGED <<fees, ledger>>
    BY <1>1 DEF LiveOnesBilled
  <1>2. ASSUME NEW u \in Users, NEW type \in EntryType, NEW amount \in Int,
               Post(u, type, amount, None), UNCHANGED fees
        PROVE  LiveOnesBilled'
    <2>1. \A f \in Requests \ {None} :
            /\ fees'[f] = None => Linked(ledger', f) = {}
            /\ fees'[f] # None /\ ~fees'[f].voided => BilledFor(ledger', f, fees'[f])
      BY <1>2, PostBills DEF TypeInv
    <2>2. None \notin Requests
      BY NoneAssumption
    <2>3. QED
      BY <2>1, <2>2 DEF LiveOnesBilled
  <1>3. CASE TopUp(r)
    BY <1>2, <1>3, AmountsAssumption DEF TopUp, EntryType
  <1>4. CASE Adjust(r)
    BY <1>2, <1>4, AmountsAssumption DEF Adjust, EntryType
  <1>5. CASE CommitAddFee(r)
    BY <1>5, AddFeeBills
  <1>6. CASE CommitVoidFee(r)
    BY <1>6, VoidFeeBills
  <1>7. CASE CommitLock(r)
    BY <1>7, CommitLockBills
  <1>8. CASE BeginAddFee(r) \/ BeginVoidFee(r) \/ LoadUser(r) \/ BeginLock(r) \/ LoadHeader(r)
    BY <1>1, <1>8 DEF BeginAddFee, BeginVoidFee, LoadUser, BeginLock, LoadHeader
  <1>9. CASE SelectUser(r) \/ SaveUser(r) \/ ChargeClient(r) \/ CreditOwner(r)
             \/ SelectHeader(r) \/ SaveHeader(r) \/ Refuse(r) \/ AbortDeadlock(r) \/ Fail(r)
    BY <1>1, <1>9 DEF SelectUser, SaveUser, ChargeClient, CreditOwner, SelectHeader, SaveHeader,
                      Refuse, AbortDeadlock, Fail, RollBack
  <1>10. QED
    BY <1>3, <1>4, <1>5, <1>6, <1>7, <1>8, <1>9 DEF Begin, Continue

\* At first there are no fees, and the opening rows are linked to none.
LEMMA BillsInit == Init => LiveOnesBilled
  <1> SUFFICES ASSUME Init, NEW f \in Requests PROVE Linked(ledger, f) = {} /\ fees[f] = None
    BY DEF LiveOnesBilled
  <1>1. fees[f] = None
    BY DEF Init
  <1>2. ASSUME NEW u \in Users, NEW i \in DOMAIN ledger[u] PROVE ledger[u][i].fee # f
    <2>1. ledger[u] = IF Opening[u] = 0 THEN <<>> ELSE <<Posting("top_up", 0, Opening[u], None)>>
      BY DEF Init
    <2>2. ledger[u][i] = Posting("top_up", 0, Opening[u], None)
      BY <2>1
    <2>3. ledger[u][i].fee = None
      BY <2>2 DEF Posting
    <2>4. QED
      BY <2>3, NoneAssumption
  <1>3. QED
    BY <1>1, <1>2 DEF Linked

-----------------------------------------------------------------------------
(* What is earned of a fee with at most two rows. *)

Earns(p) == -ledger[p[1]][p[2]].amount

\* The sum over a set of at most two rows.
LEMMA EarnedOfTwo ==
  ASSUME NEW f \in Requests, NEW a, NEW b, a # b, PostingsOf(f, Users) \subseteq {a, b},
         \A p \in PostingsOf(f, Users) : Earns(p) \in Int
  PROVE  Earned(f) = (IF a \in PostingsOf(f, Users) THEN Earns(a) ELSE 0)
                     + (IF b \in PostingsOf(f, Users) THEN Earns(b) ELSE 0)
  <1> DEFINE S == PostingsOf(f, Users)
             some(s) == CHOOSE x \in s : TRUE
             Sums(g) == g = [s \in SUBSET S |->
                               IF s = {} THEN 0 ELSE Earns(some(s)) + g[s \ {some(s)}]]
             iter == CHOOSE g : Sums(g)
             has(x, s) == IF x \in s THEN Earns(x) ELSE 0
             two == [s \in SUBSET S |-> has(a, s) + has(b, s)]
  <1>1. \A s \in SUBSET S : has(a, s) \in Int /\ has(b, s) \in Int
    OBVIOUS
  <1>2. ASSUME NEW s \in SUBSET S, s # {}
        PROVE  two[s] = Earns(some(s)) + two[s \ {some(s)}]
    <2>1. PICK x \in s : x = some(s)
      BY <1>2
    <2>2. x \in {a, b} /\ Earns(x) \in Int
      OBVIOUS
    <2>3. two[s] = has(a, s) + has(b, s)
          /\ two[s \ {x}] = has(a, s \ {x}) + has(b, s \ {x})
      OBVIOUS
    <2>4. CASE x = a
      <3>1. has(a, s) = Earns(x) /\ has(a, s \ {x}) = 0 /\ has(b, s \ {x}) = has(b, s)
        BY <2>4
      <3>2. has(b, s) \in Int
        BY <1>1
      <3> HIDE DEF has, two, some
      <3>3. QED
        BY <2>1, <2>2, <2>3, <3>1, <3>2
    <2>5. CASE x = b
      <3>1. has(b, s) = Earns(x) /\ has(b, s \ {x}) = 0 /\ has(a, s \ {x}) = has(a, s)
        BY <2>5
      <3>2. has(a, s) \in Int
        BY <1>1
      <3> HIDE DEF has, two, some
      <3>3. QED
        BY <2>1, <2>2, <2>3, <3>1, <3>2
    <2>6. QED
      BY <2>2, <2>4, <2>5
  <1>3. Sums(two)
    <2>1. two = [s \in SUBSET S |-> two[s]] /\ two[{}] = 0
      OBVIOUS
    <2>2. \A s \in SUBSET S : two[s] = IF s = {} THEN 0 ELSE Earns(some(s)) + two[s \ {some(s)}]
      BY <1>2, <2>1
    <2> HIDE DEF two, some, S
    <2>3. QED
      BY <2>1, <2>2
  <1>4. Sums(iter)
    <2> HIDE DEF Sums
    <2>1. QED
      BY <1>3
  <1>5. \A s \in SUBSET S : iter[s] = IF s = {} THEN 0 ELSE Earns(some(s)) + iter[s \ {some(s)}]
    <2> HIDE DEF iter, some, S
    <2>1. QED
      BY <1>4
  <1>6. Earned(f) = iter[S]
    BY Zenon DEF Earned, MapThenSumSet, MapThenFoldSet, Earns
  <1> HIDE DEF iter
  <1>7. iter[{}] = 0
    BY <1>5
  <1>8. ASSUME NEW x \in {a, b}, {x} \subseteq S PROVE iter[{x}] = Earns(x)
    <2>1. some({x}) = x /\ {x} \ {x} = {}
      OBVIOUS
    <2>2. Earns(x) \in Int
      BY <1>8
    <2> HIDE DEF some
    <2>3. QED
      BY <1>5, <1>7, <1>8, <2>1, <2>2
  <1>9. CASE S = {}
    BY <1>6, <1>7, <1>9
  <1>10. CASE S = {a}
    BY <1>6, <1>8, <1>10
  <1>11. CASE S = {b}
    BY <1>6, <1>8, <1>11
  <1>12. CASE S = {a, b}
    <2>1. some(S) \in {a, b}
      BY <1>12
    <2>2. iter[S] = Earns(some(S)) + iter[S \ {some(S)}]
      BY <1>5, <1>12
    <2>3. Earns(a) \in Int /\ Earns(b) \in Int /\ iter[{a}] = Earns(a) /\ iter[{b}] = Earns(b)
      BY <1>8, <1>12
    <2>4. S \ {a} = {b} /\ S \ {b} = {a}
      BY <1>12
    <2>5. CASE some(S) = a
      <3>1. iter[S] = Earns(a) + Earns(b)
        BY <2>2, <2>3, <2>4, <2>5
      <3>2. QED
        BY <1>6, <1>12, <3>1
    <2>6. CASE some(S) = b
      <3>1. iter[S] = Earns(b) + Earns(a)
        BY <2>2, <2>3, <2>4, <2>6
      <3>2. QED
        BY <1>6, <1>12, <2>3, <3>1
    <2>7. QED
      BY <2>1, <2>5, <2>6
  <1>13. S = {} \/ S = {a} \/ S = {b} \/ S = {a, b}
    OBVIOUS
  <1>14. QED
    BY <1>9, <1>10, <1>11, <1>12, <1>13

\* The rows linked to a fee, as a set of places.
LEMMA PostingsAreLinks ==
  ASSUME TypeOK, NEW f \in Requests
  PROVE  /\ PostingsOf(f, Users) = Linked(ledger, f)
         /\ \A u \in Users : PostingsOf(f, {u}) = {p \in Linked(ledger, f) : p[1] = u}
  <1>1. \A u \in Users : ledger[u] \in Seq(Entry) /\ DOMAIN ledger[u] \subseteq Nat
    BY DEF TypeOK
  <1>2. ASSUME NEW U \in SUBSET Users
        PROVE  PostingsOf(f, U) = {p \in Linked(ledger, f) : p[1] \in U}
    <2>1. ASSUME NEW p
          PROVE  p \in PostingsOf(f, U) <=> p \in Linked(ledger, f) /\ p[1] \in U
      BY <1>1 DEF PostingsOf, Linked
    <2>2. QED
      BY <2>1
  <1>3. PostingsOf(f, Users) = Linked(ledger, f)
    <2>1. \A p \in Linked(ledger, f) : p[1] \in Users
      BY DEF Linked
    <2>2. QED
      BY <1>2, <2>1
  <1>4. QED
    BY <1>2, <1>3

\* What is known of the links of a live fee is what LiveFeeBilled says of it.
LEMMA BilledIsBilled ==
  ASSUME TypeOK, NEW f \in Requests, fees[f] # None, BilledFor(ledger, f, fees[f])
  PROVE  LET charges == {p \in PostingsOf(f, {Client[fees[f].target]}) :
                           ledger[p[1]][p[2]].amount < 0}
         IN  /\ Cardinality(charges) = IF fees[f].amount > 0 THEN 1 ELSE 0
             /\ \A p \in charges : ledger[p[1]][p[2]].amount = -fees[f].amount
             /\ IF fees[f].protected THEN Earned(f) \in 0 .. fees[f].amount
                                     ELSE Earned(f) = fees[f].amount
  <1> DEFINE u == Client[fees[f].target]
             a == fees[f].amount
             links == Linked(ledger, f)
             charges == {p \in PostingsOf(f, {u}) : ledger[p[1]][p[2]].amount < 0}
  <1>1. fees[f] \in Fee /\ u \in Users /\ a \in Nat
    BY TargetsAssumption DEF TypeOK, Fee
  <1>2. /\ PostingsOf(f, Users) = links
        /\ charges = {p \in links : p[1] = u /\ AmountAt(ledger, p) < 0}
    BY <1>1, PostingsAreLinks DEF AmountAt
  <1>3. \A p : Earns(p) = -AmountAt(ledger, p)
    BY DEF Earns, AmountAt
  <1> HIDE DEF links, charges
  <1>4. Cardinality({}) = 0 /\ \A p : Cardinality({p}) = 1
    BY FS_EmptySet, FS_Singleton
  <1>5. ASSUME a = 0, links = {}
        PROVE  /\ Cardinality(charges) = IF a > 0 THEN 1 ELSE 0
               /\ \A p \in charges : AmountAt(ledger, p) = -a
               /\ Earned(f) = a
    <2>1. charges = {}
      BY <1>2, <1>5
    <2>2. Earned(f) = 0
      <3>1. PICK x, y : x # y
        <4>1. {} # {{}}
          OBVIOUS
        <4>2. QED
          BY <4>1
      <3>2. PostingsOf(f, Users) = {}
        BY <1>2, <1>5
      <3>3. Earned(f) = (IF x \in PostingsOf(f, Users) THEN Earns(x) ELSE 0)
                        + (IF y \in PostingsOf(f, Users) THEN Earns(y) ELSE 0)
        BY <3>1, <3>2, EarnedOfTwo
      <3>4. QED
        BY <3>2, <3>3
    <2> HIDE DEF a
    <2>3. QED
      BY <1>4, <1>5, <2>1, <2>2
  <1>6. ASSUME NEW p \in links, p[1] = u, AmountAt(ledger, p) = -a, links = {p}
        PROVE  /\ Cardinality(charges) = IF a > 0 THEN 1 ELSE 0
               /\ \A q \in charges : AmountAt(ledger, q) = -a
               /\ Earned(f) = a
    <2>1. charges = IF a > 0 THEN {p} ELSE {}
      BY <1>1, <1>2, <1>6
    <2>2. PICK y : y # p
      <3>1. {} # {{}}
        OBVIOUS
      <3>2. QED
        BY <3>1
    <2>3. Earns(p) = a
      BY <1>1, <1>3, <1>6
    <2>4. Earned(f) = Earns(p) + 0
      <3>1. PostingsOf(f, Users) = {p}
        BY <1>2, <1>6
      <3>2. \A x \in PostingsOf(f, Users) : Earns(x) \in Int
        BY <1>1, <2>3, <3>1
      <3>3. Earned(f) = (IF p \in PostingsOf(f, Users) THEN Earns(p) ELSE 0)
                        + (IF y \in PostingsOf(f, Users) THEN Earns(y) ELSE 0)
        BY <2>2, <3>1, <3>2, EarnedOfTwo
      <3>4. QED
        BY <2>2, <3>1, <3>3
    <2> HIDE DEF a
    <2>5. Earned(f) = a
      BY <1>1, <2>3, <2>4
    <2>6. Cardinality(charges) = IF a > 0 THEN 1 ELSE 0
      BY <1>4, <2>1
    <2>7. QED
      BY <1>6, <2>1, <2>5, <2>6
  <1>7. ASSUME NEW p \in links, NEW q \in links, fees[f].protected, p # q, links = {p, q},
               p[1] = u, AmountAt(ledger, p) = -a, AmountAt(ledger, q) \in 1 .. a
        PROVE  /\ Cardinality(charges) = IF a > 0 THEN 1 ELSE 0
               /\ \A x \in charges : AmountAt(ledger, x) = -a
               /\ Earned(f) \in 0 .. a
    <2>1. a > 0 /\ charges = {p}
      BY <1>1, <1>2, <1>7
    <2>2. Earns(p) = a /\ Earns(q) \in Int /\ Earns(p) \in Int /\ Earns(q) = -AmountAt(ledger, q)
      BY <1>1, <1>3, <1>7
    <2>3. Earned(f) = Earns(p) + Earns(q)
      BY <1>2, <1>7, <2>2, EarnedOfTwo
    <2> HIDE DEF a
    <2>4. Earned(f) \in 0 .. a
      BY <1>1, <1>7, <2>2, <2>3
    <2>5. Cardinality(charges) = IF a > 0 THEN 1 ELSE 0
      BY <1>4, <2>1
    <2>6. QED
      BY <1>7, <2>1, <2>4, <2>5
  <1>8. /\ Cardinality(charges) = IF a > 0 THEN 1 ELSE 0
        /\ \A p \in charges : AmountAt(ledger, p) = -a
        /\ IF fees[f].protected THEN Earned(f) \in 0 .. a ELSE Earned(f) = a
    <2>1. \/ fees[f].protected /\ a = 0 /\ links = {}
          \/ \E p \in links : p[1] = u /\ AmountAt(ledger, p) = -a /\ links = {p}
          \/ \E p, q \in links :
               /\ fees[f].protected /\ p # q /\ links = {p, q}
               /\ p[1] = u /\ AmountAt(ledger, p) = -a /\ AmountAt(ledger, q) \in 1 .. a
      BY DEF BilledFor, links
    <2>2. ASSUME Earned(f) = a PROVE Earned(f) \in 0 .. a
      BY <1>1, <2>2
    <2>3. CASE fees[f].protected /\ a = 0 /\ links = {}
      BY <1>5, <2>2, <2>3
    <2>4. CASE \E p \in links : p[1] = u /\ AmountAt(ledger, p) = -a /\ links = {p}
      BY <1>6, <2>2, <2>4
    <2>5. CASE \E p, q \in links :
               /\ fees[f].protected /\ p # q /\ links = {p, q}
               /\ p[1] = u /\ AmountAt(ledger, p) = -a /\ AmountAt(ledger, q) \in 1 .. a
      BY <1>7, <2>5
    <2>6. QED
      BY <2>1, <2>3, <2>4, <2>5
  <1>9. QED
    BY <1>8 DEF charges, AmountAt

(* A live fee was charged once and in full, and no more of a lock fee is passed on than
   was charged, for any users, targets and requests, locks in a credit group included. *)
THEOREM FeesAreBilled == Spec => []LiveFeeBilled
  <1>1. FeeInv => TypeInv /\ Unwritten
    BY DEF FeeInv
  <1>2. TypeInv /\ Unwritten /\ LiveOnesBilled /\ [Next]_vars => LiveOnesBilled'
    <2> SUFFICES ASSUME TypeInv, Unwritten, LiveOnesBilled, [Next]_vars PROVE LiveOnesBilled'
      OBVIOUS
    <2>1. CASE UNCHANGED vars
      BY <2>1 DEF vars, LiveOnesBilled
    <2>2. QED
      BY <2>1, BillsStep DEF Next
  <1>3. TypeInv /\ LiveOnesBilled => LiveFeeBilled
    BY BilledIsBilled, Zenon DEF TypeInv, LiveOnesBilled, LiveFeeBilled, FeeIds
  <1>4. QED
    BY <1>1, <1>2, <1>3, BillsInit, FeesCorrect, PTL DEF Spec

-----------------------------------------------------------------------------
(* The wallet implements the book of accounts: what a posting does to the balances
   and ledgers is what the book's own posting does to their images. *)

BalancesIn(c) == [v \in Unedited |-> c[v]]
JournalsIn(l) == [v \in Unedited |-> Journal(l[v])]

LEMMA JournalAppend ==
  ASSUME NEW l \in Seq(Entry), NEW e \in Entry, NEW prev, e.new = prev + e.amount
  PROVE  Journal(Append(l, e)) = Append(Journal(l), Book!Line(prev, e.amount))
  <1> DEFINE k == Append(l, e)
             n == Len(l)
             line == [amount |-> e.amount, new |-> e.new]
             Lines == [amount : Int, new : Int]
  <1>1. /\ n \in Nat /\ DOMAIN l = 1 .. n /\ DOMAIN k = 1 .. n + 1
        /\ k[n + 1] = e /\ \A i \in 1 .. n : k[i] = l[i] /\ l[i] \in Entry
    OBVIOUS
  <1>2. Book!Line(prev, e.amount) = line /\ line \in Lines
    BY DEF Book!Line, Entry
  <1>3. Journal(l) \in Seq(Lines) /\ Len(Journal(l)) = n
        /\ \A i \in 1 .. n : Journal(l)[i] = [amount |-> l[i].amount, new |-> l[i].new]
    <2>1. \A i \in 1 .. n : [amount |-> l[i].amount, new |-> l[i].new] \in Lines
      BY <1>1 DEF Entry
    <2>2. Journal(l) \in [1 .. n -> Lines]
      BY <1>1, <2>1 DEF Journal
    <2>3. QED
      BY <1>1, <2>2 DEF Journal
  <1> HIDE DEF k
  <1>4. Journal(k) = [i \in 1 .. n + 1 |-> [amount |-> k[i].amount, new |-> k[i].new]]
    BY <1>1 DEF Journal
  <1> DEFINE j == Append(Journal(l), line)
  <1>5. /\ j \in Seq(Lines) /\ DOMAIN j = 1 .. n + 1 /\ j[n + 1] = line
        /\ \A i \in 1 .. n : j[i] = Journal(l)[i]
    BY <1>1, <1>2, <1>3
  <1>6. j = [i \in 1 .. n + 1 |-> j[i]]
    BY <1>5
  <1> HIDE DEF j
  <1>7. ASSUME NEW i \in 1 .. n + 1
        PROVE  j[i] = [amount |-> k[i].amount, new |-> k[i].new]
    <2>1. CASE i = n + 1
      BY <1>1, <1>5, <2>1
    <2>2. CASE i \in 1 .. n
      BY <1>1, <1>3, <1>5, <2>2
    <2>3. QED
      BY <1>1, <2>1, <2>2
  <1>8. QED
    BY <1>2, <1>4, <1>6, <1>7 DEF j, k

\* A posting for an account of the book is the book's posting; ...
LEMMA PostingEntered ==
  ASSUME NEW c \in [Users -> Int], NEW l \in [Users -> Seq(Entry)], NEW u \in Unedited,
         NEW e \in Entry, e.prev = c[u], e.new = e.prev + e.amount
  PROVE  /\ BalancesIn(Balanced(c, u, e)) = Book!Posted(BalancesIn(c), u, e.amount)
         /\ JournalsIn(Booked(l, u, e)) = Book!Entered(JournalsIn(l), BalancesIn(c), u, e.amount)
  <1> DEFINE c1 == Balanced(c, u, e)
             l1 == Booked(l, u, e)
  <1>1. u \in Users /\ Unedited \subseteq Users
    BY DEF Unedited
  <1>2. /\ c1[u] = e.new /\ l1[u] = Append(l[u], e)
        /\ \A v \in Users \ {u} : c1[v] = c[v] /\ l1[v] = l[v]
    BY <1>1 DEF Balanced, Booked
  <1> HIDE DEF c1, l1
  <1>3. BalancesIn(c1) = Book!Posted(BalancesIn(c), u, e.amount)
    BY <1>1, <1>2 DEF BalancesIn, Book!Posted
  <1>4. Journal(l1[u]) = Append(Journal(l[u]), Book!Line(BalancesIn(c)[u], e.amount))
    <2>1. l[u] \in Seq(Entry) /\ BalancesIn(c)[u] = e.prev
      BY <1>1 DEF BalancesIn
    <2>2. QED
      BY <1>2, <2>1, JournalAppend
  <1>5. JournalsIn(l1) = Book!Entered(JournalsIn(l), BalancesIn(c), u, e.amount)
    BY <1>1, <1>2, <1>4 DEF JournalsIn, Book!Entered
  <1>6. QED
    BY <1>3, <1>5 DEF c1, l1

\* ... one for any other user does not show in it.
LEMMA PostingUnseen ==
  ASSUME NEW c \in [Users -> Int], NEW l \in [Users -> Seq(Entry)], NEW u \in Users,
         NEW e \in Entry, u \notin Unedited
  PROVE  /\ BalancesIn(Balanced(c, u, e)) = BalancesIn(c)
         /\ JournalsIn(Booked(l, u, e)) = JournalsIn(l)
  BY DEF BalancesIn, JournalsIn, Balanced, Booked, Unedited

\* The book makes a transaction of its own or does not notice.
BookStep == Book!Transact \/ UNCHANGED <<Balances, Journals>>

LEMMA PostIsMove ==
  ASSUME TypeOK, NoOverdraft, NoOverdraft', NEW u \in Users, NEW type \in EntryType, NEW amount \in Int,
         NEW f \in Requests \cup {None}, Post(u, type, amount, f)
  PROVE  BookStep
  <1> DEFINE e == Posting(type, credit[u], amount, f)
  <1>1. credit \in [Users -> Int] /\ ledger \in [Users -> Seq(Entry)] /\ credit[u] \in Int
    BY DEF TypeOK
  <1>2. e \in Entry /\ e.prev = credit[u] /\ e.new = credit[u] + amount
        /\ e.amount = amount /\ e.new = e.prev + e.amount
    BY <1>1, PostingTyping
  <1>3. credit' = Balanced(credit, u, e) /\ ledger' = Booked(ledger, u, e)
    BY <1>2 DEF Post, Balanced, Booked
  <1> HIDE DEF e
  <1>4. /\ Balances = BalancesIn(credit) /\ Journals = JournalsIn(ledger)
        /\ Balances' = BalancesIn(credit') /\ Journals' = JournalsIn(ledger')
    BY DEF Balances, Journals, BalancesIn, JournalsIn
  <1>5. CASE u \in Unedited
    <2>1. Book!Move(u, amount)
      BY <1>1, <1>2, <1>3, <1>4, <1>5, PostingEntered DEF Book!Move
    <2>2. /\ Balances[u] = credit[u] /\ Balances'[u] = credit'[u]
          /\ credit[u] >= 0 /\ credit'[u] = credit[u] + amount /\ credit'[u] >= 0
      BY <1>1, <1>2, <1>3, <1>5 DEF Balances, Balanced, NoOverdraft
    <2>3. CASE amount >= 0
      <3>1. amount \in 0 .. Balances'[u]
        BY <1>1, <2>2, <2>3
      <3>2. QED
        BY <1>5, <2>1, <3>1 DEF BookStep, Book!Transact
    <2>4. CASE amount < 0
      <3>1. -amount \in 0 .. Balances[u] /\ -(-amount) = amount
        BY <1>1, <2>2, <2>4
      <3>2. \E n \in 0 .. Balances[u] : Book!Move(u, -n)
        BY <2>1, <3>1
      <3>3. QED
        BY <1>5, <3>2 DEF BookStep, Book!Transact
    <2>5. QED
      BY <2>3, <2>4
  <1>6. CASE u \notin Unedited
    <2>1. /\ BalancesIn(Balanced(credit, u, e)) = BalancesIn(credit)
          /\ JournalsIn(Booked(ledger, u, e)) = JournalsIn(ledger)
      BY <1>1, <1>2, <1>6, PostingUnseen
    <2>2. QED
      BY <1>3, <1>4, <2>1 DEF BookStep
  <1>7. QED
    BY <1>5, <1>6

(* The commit of a lock is a share when both parties are accounts of the book, a move
   when only one is or no owner is paid, and nothing when it moves no money of them. *)
LEMMA CommitLockIsTransaction ==
  ASSUME MoneyInv, NoOverdraft', NEW r \in Requests, CommitLock(r)
  PROVE  BookStep
  <1> DEFINE u == Client[tx[r].target]
             bill == tx[r].bill
             owner == bill.owner
             charged == bill.charged
             part == Markup(bill)
  <1>1. PICK c1 \in [Users -> Int], l1 \in [Users -> Seq(Entry)], e1 \in Entry, e2 \in Entry :
          LockPosts(r, c1, l1, e1, e2)
    BY CommitLockPosts
  <1>2. /\ credit \in [Users -> Int] /\ ledger \in [Users -> Seq(Entry)]
        /\ \A v \in Users : credit[v] >= 0 /\ credit'[v] >= 0
    BY DEF MoneyInv, TypeInv, TypeOK, NoOverdraft
  <1>3. /\ Balances = BalancesIn(credit) /\ Journals = JournalsIn(ledger)
        /\ Balances' = BalancesIn(credit') /\ Journals' = JournalsIn(ledger')
    BY DEF Balances, Journals, BalancesIn, JournalsIn
  <1>4. /\ u \in Users /\ bill \in Bill /\ charged \in Nat
        /\ PaysOwner(bill) => owner \in Users /\ charged > 0 /\ part \in 0 .. charged
    <2>1. u \in Users /\ bill \in Bill /\ charged \in Nat
      BY <1>1 DEF LockPosts, Bill
    <2>2. PaysOwner(bill) => owner \in Users /\ charged > 0 /\ part \in Nat /\ part <= charged
      BY <2>1, MarkupCharged
    <2>3. QED
      BY <2>1, <2>2
  <1>5. /\ charged > 0 /\ u \in Unedited =>
             /\ charged \in 0 .. Balances[u]
             /\ BalancesIn(c1) = Book!Posted(Balances, u, -charged)
             /\ JournalsIn(l1) = Book!Entered(Journals, Balances, u, -charged)
        /\ ~(charged > 0 /\ u \in Unedited) =>
             BalancesIn(c1) = Balances /\ JournalsIn(l1) = Journals
    <2>1. CASE ~(charged > 0)
      BY <1>1, <1>3, <2>1 DEF LockPosts
    <2>2. CASE charged > 0
      <3>1. /\ e1.prev = credit[u] /\ e1.amount = -charged /\ e1.new = e1.prev + e1.amount
            /\ c1 = Balanced(credit, u, e1) /\ l1 = Booked(ledger, u, e1)
        BY <1>1, <2>2 DEF LockPosts
      <3>2. CASE u \notin Unedited
        <4>1. /\ BalancesIn(Balanced(credit, u, e1)) = BalancesIn(credit)
              /\ JournalsIn(Booked(ledger, u, e1)) = JournalsIn(ledger)
          BY <1>2, <1>4, <3>2, PostingUnseen
        <4>2. QED
          BY <1>3, <3>1, <3>2, <4>1
      <3>3. CASE u \in Unedited
        <4>1. /\ BalancesIn(Balanced(credit, u, e1)) = Book!Posted(BalancesIn(credit), u, e1.amount)
              /\ JournalsIn(Booked(ledger, u, e1)) =
                   Book!Entered(JournalsIn(ledger), BalancesIn(credit), u, e1.amount)
          <5>1. e1.prev = credit[u] /\ e1.new = e1.prev + e1.amount
            BY <3>1
          <5> HIDE DEF u
          <5>2. QED
            BY <1>2, <3>3, <5>1, PostingEntered
        <4>2. charged <= credit[u]
          BY <2>2 DEF MoneyInv, HeldBalanceIsCurrent, ReadsStand, HoldsClient, CommitLock
        <4>3. charged \in 0 .. Balances[u]
          BY <1>2, <1>4, <3>3, <4>2 DEF Balances
        <4>4. QED
          BY <1>3, <2>2, <3>1, <3>3, <4>1, <4>3
      <3>4. QED
        BY <3>2, <3>3
    <2>3. QED
      BY <2>1, <2>2
  <1>6. /\ PaysOwner(bill) /\ owner \in Unedited =>
             /\ c1[owner] + part = credit'[owner]
             /\ Balances' = Book!Posted(BalancesIn(c1), owner, part)
             /\ Journals' = Book!Entered(JournalsIn(l1), BalancesIn(c1), owner, part)
        /\ ~(PaysOwner(bill) /\ owner \in Unedited) =>
             Balances' = BalancesIn(c1) /\ Journals' = JournalsIn(l1)
    <2>1. CASE ~PaysOwner(bill)
      BY <1>1, <1>3, <2>1 DEF LockPosts
    <2>2. CASE PaysOwner(bill)
      <3>1. /\ e2.prev = c1[owner] /\ e2.amount = part /\ e2.new = e2.prev + e2.amount
            /\ credit' = Balanced(c1, owner, e2) /\ ledger' = Booked(l1, owner, e2)
        BY <1>1, <2>2 DEF LockPosts
      <3>2. CASE owner \notin Unedited
        <4>1. /\ BalancesIn(Balanced(c1, owner, e2)) = BalancesIn(c1)
              /\ JournalsIn(Booked(l1, owner, e2)) = JournalsIn(l1)
          BY <1>4, <2>2, <3>2, PostingUnseen
        <4>2. QED
          BY <1>3, <3>1, <3>2, <4>1
      <3>3. CASE owner \in Unedited
        <4>1. /\ BalancesIn(Balanced(c1, owner, e2)) = Book!Posted(BalancesIn(c1), owner, e2.amount)
              /\ JournalsIn(Booked(l1, owner, e2)) =
                   Book!Entered(JournalsIn(l1), BalancesIn(c1), owner, e2.amount)
          BY <3>1, <3>3, PostingEntered
        <4>2. c1[owner] + part = credit'[owner]
          BY <1>4, <2>2, <3>1 DEF Balanced
        <4>3. QED
          BY <1>3, <2>2, <3>1, <3>3, <4>1, <4>2
      <3>4. QED
        BY <3>2, <3>3
    <2>3. QED
      BY <2>1, <2>2
  <1> HIDE DEF u, owner, charged, part
  <1>7. CASE charged > 0 /\ u \in Unedited /\ PaysOwner(bill) /\ owner \in Unedited
    <2>1. Book!Share(u, owner, charged, part)
      BY <1>5, <1>6, <1>7 DEF Book!Share
    <2>2. QED
      BY <1>4, <1>5, <1>7, <2>1 DEF BookStep, Book!Transact
  <1>8. CASE charged > 0 /\ u \in Unedited /\ ~(PaysOwner(bill) /\ owner \in Unedited)
    <2>1. Book!Move(u, -charged)
      BY <1>5, <1>6, <1>8 DEF Book!Move
    <2>2. QED
      BY <1>5, <1>8, <2>1 DEF BookStep, Book!Transact
  <1>9. CASE ~(charged > 0 /\ u \in Unedited) /\ PaysOwner(bill) /\ owner \in Unedited
    <2>1. Book!Move(owner, part)
      BY <1>5, <1>6, <1>9 DEF Book!Move
    <2>2. c1[owner] = credit[owner] /\ credit[owner] \in Int
      <3>1. BalancesIn(c1)[owner] = Balances[owner]
        BY <1>5, <1>9
      <3>2. QED
        BY <1>2, <1>4, <1>9, <3>1 DEF BalancesIn, Balances
    <2>3. part \in 0 .. credit'[owner]
      BY <1>2, <1>4, <1>6, <1>9, <2>2
    <2>4. credit'[owner] = Balances'[owner]
      BY <1>9 DEF Balances
    <2>5. QED
      BY <1>9, <2>1, <2>3, <2>4 DEF BookStep, Book!Transact
  <1>10. CASE ~(charged > 0 /\ u \in Unedited) /\ ~(PaysOwner(bill) /\ owner \in Unedited)
    BY <1>5, <1>6, <1>10 DEF BookStep
  <1>11. QED
    BY <1>7, <1>8, <1>9, <1>10

LEMMA NextIsTransaction ==
  ASSUME MoneyInv, MoneyInv', NEW r \in Requests, Begin(r) \/ Continue(r) \/ Fail(r)
  PROVE  BookStep
  <1>1. tx[r] \in Tx /\ TypeOK /\ NoOverdraft /\ NoOverdraft'
    BY DEF MoneyInv, TypeInv, TypeOK
  <1>2. ASSUME UNCHANGED <<credit, ledger>>
        PROVE  BookStep
    BY <1>2 DEF BookStep, Balances, Journals
  <1>3. CASE TopUp(r)
    <2>1. PICK u \in Users, amount \in Prices : Post(u, "top_up", amount, None)
      BY <1>3 DEF TopUp
    <2>2. amount \in Int /\ "top_up" \in EntryType /\ None \in Requests \cup {None}
      BY AmountsAssumption DEF EntryType
    <2>3. QED
      BY <1>1, <2>1, <2>2, PostIsMove
  <1>4. CASE Adjust(r)
    <2>1. PICK u \in Users, amount \in Corrections : Post(u, "adjustment", amount, None)
      BY <1>4 DEF Adjust
    <2>2. amount \in Int /\ "adjustment" \in EntryType /\ None \in Requests \cup {None}
      BY AmountsAssumption DEF EntryType
    <2>3. QED
      BY <1>1, <2>1, <2>2, PostIsMove
  <1>5. CASE CommitAddFee(r)
    <2>1. Post(Client[tx[r].target], "extra_fee", -tx[r].amount, r)
      BY <1>5 DEF CommitAddFee
    <2>2. -tx[r].amount \in Int /\ Client[tx[r].target] \in Users
      BY <1>1, <1>5, StageTyping, TargetsAssumption DEF CommitAddFee, AddingFee
    <2>3. QED
      BY <1>1, <2>1, <2>2, PostIsMove DEF EntryType
  <1>6. CASE CommitVoidFee(r)
    <2> DEFINE f == tx[r].fee
    <2>1. Post(Client[fees[f].target], "extra_fee", fees[f].amount, f)
      BY <1>6 DEF CommitVoidFee
    <2>2. f \in Requests /\ fees[f] \in Fee
      BY <1>1, <1>6, StageTyping DEF CommitVoidFee, VoidingFee, VoidedFeesExist, TypeOK,
                                     MoneyInv, TypeInv
    <2>3. fees[f].amount \in Int /\ Client[fees[f].target] \in Users
      BY <2>2, TargetsAssumption DEF Fee
    <2>4. QED
      BY <1>1, <2>1, <2>2, <2>3, PostIsMove DEF EntryType
  <1>7. CASE SaveUser(r)
    \* Writes the balance of a user whose profile is edited: not an account of the book.
    <2>1. tx[r].user \in ProfileUsers
      BY <1>1, <1>7, StageTyping DEF SaveUser, EditingUser
    <2>2. QED
      BY <1>1, <1>7, <2>1 DEF SaveUser, BookStep, Balances, Journals, Unedited, TypeOK
  <1>8. CASE CommitLock(r)
    BY <1>1, <1>8, CommitLockIsTransaction
  <1>9. CASE BeginAddFee(r) \/ BeginVoidFee(r) \/ LoadUser(r) \/ BeginLock(r) \/ LoadHeader(r)
    BY <1>2, <1>9 DEF BeginAddFee, BeginVoidFee, LoadUser, BeginLock, LoadHeader
  <1>10. CASE SelectUser(r) \/ ChargeClient(r) \/ CreditOwner(r) \/ SelectHeader(r)
              \/ SaveHeader(r) \/ Refuse(r) \/ AbortDeadlock(r) \/ Fail(r)
    BY <1>2, <1>10 DEF SelectUser, ChargeClient, CreditOwner, SelectHeader, SaveHeader,
                       Refuse, AbortDeadlock, Fail, RollBack
  <1>11. QED
    BY <1>3, <1>4, <1>5, <1>6, <1>7, <1>8, <1>9, <1>10 DEF Begin, Continue

LEMMA InitIsOpened == Init => Book!Opened
  <1> SUFFICES ASSUME Init, NEW a \in Unedited
               PROVE  \/ Balances[a] = 0 /\ Journals[a] = <<>>
                      \/ Balances[a] \in Nat /\ Journals[a] = <<Book!Line(0, Balances[a])>>
    BY DEF Book!Opened
  <1>1. a \in Users /\ Opening[a] \in Nat
    BY UsersAssumption DEF Unedited
  <1>2. Balances[a] = Opening[a] /\ Journals[a] = Journal(ledger[a])
    BY <1>1 DEF Init, Balances, Journals
  <1>3. CASE Opening[a] = 0
    <2>1. ledger[a] = <<>>
      BY <1>1, <1>3 DEF Init
    <2>2. Journal(<<>>) = <<>>
      BY DEF Journal
    <2>3. QED
      BY <1>2, <1>3, <2>1, <2>2
  <1>4. CASE Opening[a] # 0
    <2> DEFINE e == Posting("top_up", 0, Opening[a], None)
    <2>1. e \in Entry /\ e.new = 0 + e.amount /\ e.amount = Opening[a]
      BY <1>1, PostingTyping DEF EntryType
    <2>2. ledger[a] = Append(<<>>, e)
      BY <1>1, <1>4 DEF Init
    <2> HIDE DEF e
    <2>3. Journal(Append(<<>>, e)) = Append(Journal(<<>>), Book!Line(0, e.amount))
      <3>1. <<>> \in Seq(Entry)
        OBVIOUS
      <3>2. QED
        BY <2>1, <3>1, JournalAppend
    <2>4. Journal(<<>>) = <<>>
      BY DEF Journal
    <2>5. QED
      BY <1>1, <1>2, <2>1, <2>2, <2>3, <2>4
  <1>5. QED
    BY <1>3, <1>4

(* The wallet implements the book of accounts, for any number of wallets, requests,
   targets and amounts: behind the locks, the stale reads and the rollbacks every commit
   is one posting, or one charge with its commission, on the balances it finds; nobody
   is overdrawn by it, and its journal lines are written with it. *)
THEOREM KeepsBooks == Spec => WalletKeepsBooks
  <1>1. Init => Book!Opened
    BY InitIsOpened
  <1>2. MoneyInv /\ MoneyInv' /\ [Next]_vars => [Book!Transact]_(Book!books)
    <2> SUFFICES ASSUME MoneyInv, MoneyInv', [Next]_vars
                 PROVE  BookStep
      BY DEF BookStep, Book!books
    <2>1. CASE UNCHANGED vars
      BY <2>1 DEF vars, BookStep, Balances, Journals
    <2>2. QED
      BY <2>1, NextIsTransaction DEF Next
  <1>3. QED
    BY <1>1, <1>2, MoneyCorrect, PTL DEF Spec, WalletKeepsBooks, Book!Spec
-----------------------------------------------------------------------------
(* Waiting.  A row of users is held by a lock transaction that has charged its client:
   what such a request still waits for is the row of a group's owner. *)

HoldersWork ==
  \A r \in Requests : \A u \in Users : rowLock[u] = r => tx[r].at \in {"charged", "save_lock"}

WaitInv == TypeInv /\ HoldersWork

\* A request that holds nothing, or has let everything go, may be anywhere.
LEMMA HoldersKept ==
  ASSUME TypeOK, HoldersWork, NEW r \in Requests,
         \A q \in Requests \ {r} : tx'[q] = tx[q],
         \/ rowLock' = rowLock /\ tx[r].at \notin {"charged", "save_lock"}
         \/ rowLock' = rowLock /\ tx'[r].at \in {"charged", "save_lock"}
         \/ rowLock' = Release(r)
         \/ tx'[r].at \in {"charged", "save_lock"} /\ \E u \in Users : rowLock' = Hold(u, r)
  PROVE  HoldersWork'
  <1> SUFFICES ASSUME NEW q \in Requests, NEW u \in Users, rowLock'[u] = q
               PROVE  tx'[q].at \in {"charged", "save_lock"}
    BY DEF HoldersWork
  <1>1. CASE q = r
    <2>1. rowLock' # Release(r)
      BY <1>1, NoneAssumption DEF Release
    <2>2. CASE rowLock' = rowLock /\ tx[r].at \notin {"charged", "save_lock"}
      BY <1>1, <2>2 DEF HoldersWork
    <2>3. QED
      BY <1>1, <2>1, <2>2
  <1>2. CASE q # r
    <2>1. rowLock[u] = q
      <3>1. CASE rowLock' = Release(r)
        BY <1>2, <3>1, NoneAssumption DEF Release
      <3>2. CASE \E v \in Users : rowLock' = Hold(v, r)
        BY <1>2, <3>2 DEF Hold, TypeOK
      <3>3. QED
        BY <3>1, <3>2
    <2>2. QED
      BY <1>2, <2>1 DEF HoldersWork
  <1>3. QED
    BY <1>1, <1>2

\* The stages of a request, in the order it goes through them.
Forward(t, u) ==
  \/ t.at = "fresh" /\ u.at # "fresh"
  \/ t.at \notin {"fresh", "answered"} /\ u.at = "answered"
  \/ t.at = "edit_user" /\ u.at = "save_user"
  \/ t.at = "lock" /\ u.at = "charged"
  \/ t.at = "charged" /\ u.at = "save_lock"
  \/ t.at = "edit" /\ u.at = "save_edit"

MovesOn(r) == Forward(tx[r], tx'[r]) /\ \A q \in Requests \ {r} : tx'[q] = tx[q]

OneMovesOn == \E r \in Requests : MovesOn(r)

LEMMA StepMovesOn ==
  ASSUME TypeInv, HoldersWork, NEW r \in Requests, Begin(r) \/ Continue(r) \/ Fail(r)
  PROVE  MovesOn(r) /\ HoldersWork'
  <1> USE DEF TypeInv
  <1>1. CASE TopUp(r) \/ Adjust(r) \/ CommitAddFee(r) \/ CommitVoidFee(r) \/ SaveUser(r)
             \/ SaveHeader(r)
    <2>1. /\ tx[r].at \in {"fresh", "add_fee", "void_fee", "save_user", "save_edit"}
          /\ Answer(r) /\ rowLock' = rowLock
      BY <1>1 DEF TopUp, Adjust, CommitAddFee, CommitVoidFee, SaveUser, SaveHeader
    <2>2. QED
      BY <2>1, AnswerTyping, HoldersKept DEF MovesOn, Forward
  <1>2. CASE CommitLock(r) \/ (InFlight(r) /\ RollBack(r))
    <2>1. InFlight(r) /\ Answer(r) /\ rowLock' = Release(r)
      BY <1>2 DEF CommitLock, RollBack, InFlight
    <2>2. QED
      BY <2>1, AnswerTyping, HoldersKept DEF MovesOn, Forward, InFlight
  <1>3. CASE BeginAddFee(r) \/ BeginVoidFee(r) \/ LoadUser(r) \/ BeginLock(r) \/ LoadHeader(r)
    <2>1. tx[r].at = "fresh" /\ tx'[r].at # "fresh" /\ rowLock' = rowLock
      BY <1>3 DEF BeginAddFee, BeginVoidFee, LoadUser, BeginLock, LoadHeader, Goto, TypeOK
    <2>2. \A q \in Requests \ {r} : tx'[q] = tx[q]
      BY <1>3 DEF BeginAddFee, BeginVoidFee, LoadUser, BeginLock, LoadHeader, Goto, TypeOK
    <2>3. QED
      BY <2>1, <2>2, HoldersKept DEF MovesOn, Forward
  <1>4. CASE SelectUser(r)
    <2>1. tx[r].at = "edit_user" /\ tx[r] \in EditingUser /\ rowLock' = rowLock
      BY <1>4, StageTyping DEF SelectUser, TypeOK
    <2>2. tx'[r].at \in {"answered", "save_user"} /\ \A q \in Requests \ {r} : tx'[q] = tx[q]
      BY <1>4, <2>1 DEF SelectUser, Answer, Goto, TypeOK, EditingUser
    <2>3. QED
      BY <2>1, <2>2, HoldersKept DEF MovesOn, Forward
  <1>5. CASE ChargeClient(r)
    <2>1. /\ tx[r].at = "lock" /\ tx'[r].at = "charged"
          /\ \A q \in Requests \ {r} : tx'[q] = tx[q]
      BY <1>5 DEF ChargeClient, Goto, TypeOK
    <2>2. Client[tx[r].target] \in Users
      BY <2>1, StageTyping, TargetsAssumption DEF TypeOK, Locking
    <2>3. rowLock' = rowLock \/ rowLock' = Hold(Client[tx[r].target], r)
      BY <1>5 DEF ChargeClient
    <2>4. HoldersWork'
      BY <2>1, <2>2, <2>3, HoldersKept
    <2>5. QED
      BY <2>1, <2>4 DEF MovesOn, Forward
  <1>6. CASE CreditOwner(r)
    <2>1. /\ tx[r].at = "charged" /\ tx'[r].at = "save_lock"
          /\ \A q \in Requests \ {r} : tx'[q] = tx[q]
      BY <1>6 DEF CreditOwner, Goto, TypeOK
    <2>2. rowLock' = rowLock \/ (PaysOwner(tx[r].bill) /\ rowLock' = Hold(tx[r].bill.owner, r))
      BY <1>6 DEF CreditOwner
    <2>3. PaysOwner(tx[r].bill) => tx[r].bill.owner \in Users
      BY <2>1, StageTyping DEF TypeOK, Charging, Bill, PaysOwner
    <2>4. HoldersWork'
      BY <2>1, <2>2, <2>3, HoldersKept
    <2>5. QED
      BY <2>1, <2>4 DEF MovesOn, Forward
  <1>7. CASE SelectHeader(r)
    <2>1. /\ tx[r].at = "edit" /\ tx'[r].at = "save_edit" /\ rowLock' = rowLock
          /\ \A q \in Requests \ {r} : tx'[q] = tx[q]
      BY <1>7 DEF SelectHeader, Goto, TypeOK
    <2>2. QED
      BY <2>1, HoldersKept DEF MovesOn, Forward
  <1>8. CASE Refuse(r) \/ AbortDeadlock(r) \/ Fail(r)
    <2>1. InFlight(r) /\ RollBack(r)
      <3>1. CASE Refuse(r)
        BY <3>1 DEF Refuse, InFlight
      <3>2. CASE AbortDeadlock(r)
        <4>1. tx[r].at = "charged"
          BY <3>2 DEF AbortDeadlock, Deadlocked, AwaitedBy
        <4>2. QED
          BY <3>2, <4>1 DEF AbortDeadlock, InFlight
      <3>3. QED
        BY <1>8, <3>1, <3>2 DEF Fail
    <2>2. QED
      BY <1>2, <2>1
  <1>9. QED
    BY <1>1, <1>2, <1>3, <1>4, <1>5, <1>6, <1>7, <1>8 DEF Begin, Continue

LEMMA WaitHolds == Spec => []WaitInv
  <1>1. Init => HoldersWork
    BY NoneAssumption DEF Init, HoldersWork
  <1>2. ASSUME WaitInv, TypeInv', [Next]_vars PROVE WaitInv'
    <2>1. CASE Next
      BY <1>2, <2>1, StepMovesOn DEF Next, WaitInv
    <2>2. CASE UNCHANGED vars
      BY <1>2, <2>2 DEF vars, WaitInv, HoldersWork
    <2>3. QED
      BY <1>2, <2>1, <2>2
  <1>3. Init /\ TypeInv => WaitInv
    BY <1>1 DEF WaitInv
  <1>4. MoneyInv => TypeInv
    BY DEF MoneyInv
  <1>5. QED
    BY <1>2, <1>3, <1>4, MoneyCorrect, PTL DEF Spec

(* If no request were ready, each would wait for a row that a lock transaction holds, and
   those would all wait for an owner's row that one of them holds: a deadlock, of which
   the database aborts one. *)
LEMMA SomeoneIsReady == WaitInv => SomeoneReady
  <1> SUFFICES ASSUME WaitInv, NEW r \in Requests, InFlight(r),
                      \A q \in Requests : ~Ready(q)
               PROVE  FALSE
    BY DEF SomeoneReady
  <1> USE DEF WaitInv, TypeInv
  <1>1. ASSUME NEW u \in Users, ~Unlocked(u)
        PROVE  rowLock[u] \in Requests /\ tx[rowLock[u]].at = "charged"
    <2>1. rowLock[u] \in Requests
      BY <1>1 DEF Unlocked, TypeOK
    <2>2. tx[rowLock[u]].at \in {"charged", "save_lock"}
      BY <2>1 DEF HoldersWork
    <2>3. QED
      BY <2>1, <2>2 DEF Ready
  <1>2. ASSUME NEW q \in Requests, tx[q].at = "charged"
        PROVE  /\ PaysOwner(tx[q].bill) /\ ~Grantable(tx[q].bill.owner, q)
               /\ tx[q].bill.owner \in Users
    <2>1. PaysOwner(tx[q].bill) /\ ~Grantable(tx[q].bill.owner, q)
      BY <1>2 DEF Ready
    <2>2. tx[q].bill.owner \in Users \cup {None}
      BY <1>2, StageTyping DEF TypeOK, Charging, Bill
    <2>3. QED
      BY <2>1, <2>2 DEF PaysOwner
  <1>3. PICK p \in Requests : tx[p].at = "charged"
    <2>1. ASSUME NEW u \in Users, ~Unlocked(u) PROVE \E q \in Requests : tx[q].at = "charged"
      BY <1>1, <2>1
    <2>2. CASE tx[r].at = "add_fee"
      <3>1. Client[tx[r].target] \in Users
        BY <2>2, StageTyping, TargetsAssumption DEF TypeOK, AddingFee
      <3>2. QED
        BY <2>1, <2>2, <3>1 DEF Ready
    <2>3. CASE tx[r].at = "void_fee"
      <3>1. tx[r].fee \in Requests /\ fees[tx[r].fee] # None
        BY <2>3, StageTyping DEF TypeOK, VoidingFee, VoidedFeesExist
      <3>2. Client[fees[tx[r].fee].target] \in Users
        BY <3>1, TargetsAssumption DEF TypeOK, Fee
      <3>3. QED
        BY <2>1, <2>3, <3>2 DEF Ready
    <2>4. CASE tx[r].at = "save_user"
      <3>1. tx[r].user \in Users
        BY <2>4, StageTyping, UsersAssumption DEF TypeOK, EditingUser
      <3>2. QED
        BY <2>1, <2>4, <3>1 DEF Ready
    <2>5. CASE tx[r].at = "lock"
      <3>1. Client[tx[r].target] \in Users
        BY <2>5, StageTyping, TargetsAssumption DEF TypeOK, Locking
      <3>2. Bills(Client[tx[r].target]) # {}
        BY PricedAssumption DEF Bills
      <3>3. QED
        BY <2>1, <2>5, <3>1, <3>2 DEF Ready
    <2>6. tx[r].at \in {"add_fee", "void_fee", "edit_user", "save_user", "lock", "charged",
                        "save_lock", "edit", "save_edit"}
      BY DEF InFlight, TypeOK, Tx, Fresh, Answered, AddingFee, VoidingFee, EditingUser, Locking,
             Charging, SavingLock, Editing, SavingEdit
    <2>7. QED
      BY <2>2, <2>3, <2>4, <2>5, <2>6 DEF Ready
  <1>4. PICK S \in SUBSET Requests : S = {q \in Requests : tx[q].at = "charged"}
    OBVIOUS
  <1>5. Deadlocked(S)
    <2> SUFFICES ASSUME NEW q \in S PROVE AwaitedBy(q) # {} /\ AwaitedBy(q) \subseteq S
      BY DEF Deadlocked
    <2>1. q \in Requests /\ tx[q].at = "charged"
      BY <1>4
    <2>2. AwaitedBy(q) = {rowLock[tx[q].bill.owner]} /\ ~Unlocked(tx[q].bill.owner)
      BY <1>2, <2>1 DEF AwaitedBy, Grantable, Unlocked
    <2>3. rowLock[tx[q].bill.owner] \in S
      BY <1>1, <1>2, <1>4, <2>1, <2>2
    <2>4. QED
      BY <2>2, <2>3
  <1>6. QED
    BY <1>3, <1>4, <1>5 DEF Ready

(* Charges, refunds, edits and locks whose clients own each other's groups never leave
   every request waiting for another's wallet (order.service.ts:739-786,
   credit-group.util.ts:105-129). *)
THEOREM NeverAllWaiting == Spec => []SomeoneReady
  BY WaitHolds, SomeoneIsReady, PTL

(* Each step takes one request to a later stage and sets none back: with NeverAllWaiting,
   finitely many requests can only all end up answered (order.service.ts:739-786). *)
THEOREM EveryStepMovesOn == Spec => [][OneMovesOn]_vars
  <1>1. WaitInv /\ [Next]_vars => [OneMovesOn]_vars
    BY StepMovesOn DEF Next, OneMovesOn, WaitInv
  <1>2. QED
    BY <1>1, WaitHolds, PTL DEF Spec
=============================================================================
