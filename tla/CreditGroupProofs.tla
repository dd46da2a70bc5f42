-------------------------- MODULE CreditGroupProofs --------------------------
(***************************************************************************)
(* Theorems about CreditGroups, for every set of users, groups, handlers   *)
(* and fees.                                                               *)
(***************************************************************************)
EXTENDS CreditGroups, FiniteSetTheorems, TLAPS

-----------------------------------------------------------------------------
(* Type correctness.  The fields of Request may all be NULL: what a handler needs at a
   stage is there because the stages before it have read it. *)

StageTyped(q) ==
  /\ q.at \in {"own", "price", "enrol", "rate", "payee"} => q.group \in Groups
  /\ q.at \in {"own", "enrol", "client"} => q.user \in Users
  /\ q.at \in {"price", "payee"} => q.amount \in Nat

StagesTyped == \A r \in Requests : StageTyped(request[r])

TypeInv == TypeOK /\ StagesTyped

\* Another handler's record is none of a step's business.
LEMMA OneRequest ==
  ASSUME TypeInv, NEW r \in Requests, NEW q \in Request, StageTyped(q),
         request' = [request EXCEPT ![r] = q]
  PROVE  request' \in [Requests -> Request] /\ StagesTyped'
  BY DEF TypeInv, TypeOK, StagesTyped, StageTyped

LEMMA IdleTyping == Idle \in Request /\ StageTyped(Idle) /\ Idle.at = "idle"
  BY DEF Idle, Request, StageTyped

LEMMA QuotingTyping ==
  ASSUME NEW q \in Request, NEW unit \in Nat, NEW payee \in Users \cup {None}
  PROVE  /\ Quoting(q, unit, payee) \in Request
         /\ StageTyped(Quoting(q, unit, payee))
         /\ Quoting(q, unit, payee).at = "quoted"
         /\ Quoting(q, unit, payee).base = q.base
         /\ Quoting(q, unit, payee).unit = unit
         /\ Quoting(q, unit, payee).payee = payee
  BY DEF Quoting, Idle, Request, StageTyped

LEMMA InitTyping == Init => TypeInv
  BY IdleTyping DEF Init, TypeInv, TypeOK, StagesTyped

LEMMA CheckTyping ==
  ASSUME TypeInv, NEW r \in Requests, CheckOwner(r) \/ CheckFee(r) \/ CheckEnrol(r)
  PROVE  TypeInv'
  <1>1. member \subseteq Users /\ Amounts \subseteq Nat
    BY AmountsAssumption DEF TypeInv, TypeOK
  <1>2. ASSUME NEW q \in Request, StageTyped(q), Check(r, q)
        PROVE  TypeInv'
    <2>1. request' \in [Requests -> Request] /\ StagesTyped'
      BY <1>2, OneRequest DEF Check
    <2>2. QED
      BY <1>2, <2>1 DEF Check, TypeInv, TypeOK
  <1>3. CASE CheckOwner(r)
    <2>1. PICK k \in Groups, u \in member :
            Check(r, [Idle EXCEPT !.at = "own", !.group = k, !.user = u])
      BY <1>3 DEF CheckOwner
    <2> DEFINE q == [Idle EXCEPT !.at = "own", !.group = k, !.user = u]
    <2>2. q \in Request /\ StageTyped(q)
      BY <1>1 DEF Idle, Request, StageTyped
    <2>3. QED
      BY <1>2, <2>1, <2>2
  <1>4. CASE CheckFee(r)
    <2>1. PICK k \in Groups, amount \in Amounts :
            Check(r, [Idle EXCEPT !.at = "price", !.group = k, !.amount = amount])
      BY <1>4 DEF CheckFee
    <2> DEFINE q == [Idle EXCEPT !.at = "price", !.group = k, !.amount = amount]
    <2>2. q \in Request /\ StageTyped(q)
      BY <1>1 DEF Idle, Request, StageTyped
    <2>3. QED
      BY <1>2, <2>1, <2>2
  <1>5. CASE CheckEnrol(r)
    <2>1. PICK k \in Groups, u \in member :
            Check(r, [Idle EXCEPT !.at = "enrol", !.group = k, !.user = u])
      BY <1>5 DEF CheckEnrol
    <2> DEFINE q == [Idle EXCEPT !.at = "enrol", !.group = k, !.user = u]
    <2>2. q \in Request /\ StageTyped(q)
      BY <1>1 DEF Idle, Request, StageTyped
    <2>3. QED
      BY <1>2, <2>1, <2>2
  <1>6. QED
    BY <1>3, <1>4, <1>5

LEMMA WriteTyping ==
  ASSUME TypeInv, NEW r \in Requests, Own(r) \/ Price(r) \/ Enrol(r)
  PROVE  TypeInv'
  <1>1. StageTyped(request[r])
    BY DEF TypeInv, StagesTyped
  <1>2. request' = [request EXCEPT ![r] = Idle]
    BY DEF Own, Price, Enrol
  <1>3. request' \in [Requests -> Request] /\ StagesTyped'
    BY <1>2, IdleTyping, OneRequest
  <1>4. CASE Own(r)
    BY <1>1, <1>3, <1>4 DEF Own, TypeInv, TypeOK, StageTyped
  <1>5. CASE Price(r)
    BY <1>1, <1>3, <1>5 DEF Price, TypeInv, TypeOK, StageTyped
  <1>6. CASE Enrol(r)
    BY <1>1, <1>3, <1>6 DEF Enrol, TypeInv, TypeOK, StageTyped
  <1>7. QED
    BY <1>4, <1>5, <1>6

-----------------------------------------------------------------------------
(* What a quote ends with: a rate not below the organization's, and somebody to pay
   whatever it is above it. *)

Sound(q) ==
  q.at = "quoted" => q.unit >= q.base /\ (q.unit > q.base => q.payee # None)

QuotesSound == \A r \in Requests : Sound(request[r])

LEMMA PlainIsSound ==
  ASSUME NEW q \in Request
  PROVE  Plain(q) \in Request /\ StageTyped(Plain(q)) /\ Sound(Plain(q))
  <1>1. q.base \in Nat
    BY DEF Request
  <1>2. QED
    BY <1>1, QuotingTyping DEF Plain, Sound

LEMMA UnitFeeBounded ==
  ASSUME NEW q \in Request, q.amount \in Nat
  PROVE  UnitFee(q) \in Nat /\ UnitFee(q) >= q.base
  <1>1. q.base \in Nat
    BY DEF Request
  <1>2. QED
    BY <1>1 DEF UnitFee

LEMMA QuotedIsSound ==
  ASSUME TypeOK, NEW q \in Request, StageTyped(q), q.at = "payee"
  PROVE  Quoted(q) \in Request /\ StageTyped(Quoted(q)) /\ Sound(Quoted(q))
  <1>1. q.group \in Groups /\ q.amount \in Nat
    BY DEF StageTyped
  <1>2. CASE Exists(q.group)
    <2>1. owner[q.group] \in Users \cup {None} /\ owner[q.group] # None
      BY <1>1, <1>2 DEF TypeOK, Exists
    <2>2. UnitFee(q) \in Nat /\ UnitFee(q) >= q.base
      BY <1>1, UnitFeeBounded
    <2>3. Quoted(q) = Quoting(q, UnitFee(q), owner[q.group])
      BY <1>2 DEF Quoted
    <2>4. QED
      BY <2>1, <2>2, <2>3, QuotingTyping DEF Sound
  <1>3. CASE ~Exists(q.group)
    BY <1>3, PlainIsSound DEF Quoted
  <1>4. QED
    BY <1>2, <1>3

\* Each read of a quote leads to a record that is typed and sound.
LEMMA QuoteReads ==
  ASSUME TypeInv, NEW r \in Requests, Quote(r)
  PROVE  /\ \E q \in Request : /\ StageTyped(q) /\ Sound(q)
                               /\ request' = [request EXCEPT ![r] = q]
         /\ UNCHANGED <<member, base, owner, fee, enrolled>>
  <1> DEFINE p == request[r]
             Leads(q) == q \in Request /\ StageTyped(q) /\ Sound(q)
  <1>1. p \in Request /\ StageTyped(p) /\ base \in Nat
    BY DEF TypeInv, TypeOK, StagesTyped
  <1>2. ASSUME NEW at, NEW q, Leads(q), Reading(r, at, q)
        PROVE  /\ \E x \in Request : /\ StageTyped(x) /\ Sound(x)
                                     /\ request' = [request EXCEPT ![r] = x]
               /\ UNCHANGED <<member, base, owner, fee, enrolled>>
    BY <1>2 DEF Reading
  <1>3. CASE ReadBase(r)
    <2>1. PICK u \in Users :
            Reading(r, "idle", [Idle EXCEPT !.at = "client", !.user = u, !.base = base])
      BY <1>3 DEF ReadBase
    <2>2. Leads([Idle EXCEPT !.at = "client", !.user = u, !.base = base])
      BY <1>1 DEF Idle, Request, StageTyped, Sound
    <2>3. QED
      BY <1>2, <2>1, <2>2
  <1>4. CASE ReadMembership(r)
    <2>1. CASE GroupsOf(p.user) = {}
      <3>1. Reading(r, "client", Plain(p))
        BY <1>4, <2>1 DEF ReadMembership
      <3>2. QED
        BY <1>1, <1>2, <3>1, PlainIsSound
    <2>2. CASE GroupsOf(p.user) # {}
      <3>1. PICK k \in GroupsOf(p.user) :
              Reading(r, "client", [p EXCEPT !.at = "rate", !.group = k, !.user = None])
        BY <1>4, <2>2 DEF ReadMembership
      <3>2. k \in Groups
        BY DEF GroupsOf
      <3>3. Leads([p EXCEPT !.at = "rate", !.group = k, !.user = None])
        BY <1>1, <3>2 DEF Request, StageTyped, Sound
      <3>4. QED
        BY <1>2, <3>1, <3>3
    <2>3. QED
      BY <2>1, <2>2
  <1>5. CASE ReadRate(r)
    <2>1. p.at = "rate" /\ p.group \in Groups /\ fee[p.group] \in Nat \cup {None}
      BY <1>1, <1>5 DEF ReadRate, StageTyped, TypeInv, TypeOK
    <2>2. CASE fee[p.group] = None
      <3>1. Reading(r, "rate", Plain(p))
        BY <1>5, <2>2 DEF ReadRate
      <3>2. QED
        BY <1>1, <1>2, <3>1, PlainIsSound
    <2>3. CASE fee[p.group] # None
      <3>1. Reading(r, "rate", [p EXCEPT !.at = "payee", !.amount = fee[p.group]])
        BY <1>5, <2>3 DEF ReadRate
      <3>2. Leads([p EXCEPT !.at = "payee", !.amount = fee[p.group]])
        BY <1>1, <2>1, <2>3 DEF Request, StageTyped, Sound
      <3>3. QED
        BY <1>2, <3>1, <3>2
    <2>4. QED
      BY <2>2, <2>3
  <1>6. CASE ReadPayee(r)
    <2>1. p.at = "payee" /\ Reading(r, "payee", Quoted(p))
      BY <1>6 DEF ReadPayee
    <2>2. Leads(Quoted(p))
      BY <1>1, <2>1, QuotedIsSound DEF TypeInv
    <2>3. QED
      BY <1>2, <2>1, <2>2
  <1>7. CASE UseQuote(r)
    <2>1. Leads(Idle)
      BY IdleTyping DEF Sound
    <2>2. QED
      BY <1>2, <1>7, <2>1 DEF UseQuote
  <1>8. QED
    BY <1>3, <1>4, <1>5, <1>6, <1>7 DEF Quote

\* What the handlers of one statement leave alone.
LEMMA SingleTyping ==
  ASSUME TypeInv,
         \/ SetBase
         \/ \E u \in Users : Join(u) \/ Leave(u)
         \/ \E k \in Groups : Disband(k) \/ \E u \in Users : Withdraw(k, u)
  PROVE  TypeOK' /\ request' = request
  <1> USE DEF TypeInv, TypeOK
  <1>1. CASE SetBase
    BY <1>1, AmountsAssumption DEF SetBase
  <1>2. ASSUME NEW u \in Users, Join(u) \/ Leave(u)
        PROVE  TypeOK' /\ request' = request
    BY <1>2 DEF Join, Leave
  <1>3. ASSUME NEW k \in Groups, Disband(k)
        PROVE  TypeOK' /\ request' = request
    BY <1>3 DEF Disband
  <1>4. ASSUME NEW k \in Groups, NEW u \in Users, Withdraw(k, u)
        PROVE  TypeOK' /\ request' = request
    BY <1>4 DEF Withdraw
  <1>5. QED
    BY <1>1, <1>2, <1>3, <1>4

BillingInv == TypeInv /\ QuotesSound

LEMMA BillingStep == BillingInv /\ [Next]_vars => BillingInv'
  <1> SUFFICES ASSUME BillingInv, [Next]_vars PROVE BillingInv'
    OBVIOUS
  <1>1. request \in [Requests -> Request]
    BY DEF BillingInv, TypeInv, TypeOK
  <1>2. ASSUME NEW r \in Requests, NEW q \in Request, Sound(q),
               request' = [request EXCEPT ![r] = q]
        PROVE  QuotesSound'
    BY <1>1, <1>2 DEF BillingInv, QuotesSound
  <1>3. ASSUME NEW r \in Requests, CheckOwner(r) \/ CheckFee(r) \/ CheckEnrol(r)
        PROVE  BillingInv'
    <2>1. TypeInv'
      BY <1>3, CheckTyping DEF BillingInv
    <2>2. request'[r].at # "quoted" /\ \A p \in Requests \ {r} : request'[p] = request[p]
      BY <1>1, <1>3 DEF CheckOwner, CheckFee, CheckEnrol, Check, Idle
    <2>3. QED
      BY <2>1, <2>2 DEF BillingInv, QuotesSound, Sound
  <1>4. ASSUME NEW r \in Requests, Own(r) \/ Price(r) \/ Enrol(r)
        PROVE  BillingInv'
    <2>1. TypeInv'
      BY <1>4, WriteTyping DEF BillingInv
    <2>2. request' = [request EXCEPT ![r] = Idle]
      BY <1>4 DEF Own, Price, Enrol
    <2>3. QED
      BY <1>2, <2>1, <2>2, IdleTyping DEF BillingInv, Sound
  <1>5. ASSUME NEW r \in Requests, Quote(r)
        PROVE  BillingInv'
    <2>1. PICK q \in Request : /\ StageTyped(q) /\ Sound(q)
                               /\ request' = [request EXCEPT ![r] = q]
      BY <1>5, QuoteReads DEF BillingInv
    <2>2. UNCHANGED <<member, base, owner, fee, enrolled>>
      BY <1>5, QuoteReads DEF BillingInv
    <2>3. request' \in [Requests -> Request] /\ StagesTyped'
      BY <2>1, OneRequest DEF BillingInv
    <2>4. QED
      BY <1>2, <2>1, <2>2, <2>3 DEF BillingInv, TypeInv, TypeOK
  <1>6. CASE \/ SetBase
             \/ \E u \in Users : Join(u) \/ Leave(u)
             \/ \E k \in Groups : Disband(k) \/ \E u \in Users : Withdraw(k, u)
    <2>1. TypeOK' /\ request' = request
      BY <1>6, SingleTyping DEF BillingInv
    <2>2. QED
      BY <2>1 DEF BillingInv, TypeInv, StagesTyped, QuotesSound
  <1>7. CASE UNCHANGED vars
    BY <1>7 DEF vars, BillingInv, TypeInv, TypeOK, StagesTyped, QuotesSound
  <1>8. QED
    BY <1>3, <1>4, <1>5, <1>6, <1>7 DEF Next, Manage

LEMMA BillingCorrect == Spec => []BillingInv
  <1>1. Init => BillingInv
    BY InitTyping, IdleTyping DEF BillingInv, QuotesSound, Sound, Init
  <1>2. QED
    BY <1>1, BillingStep, PTL DEF Spec

(* Rows and handlers keep their types, whatever is deleted under them. *)
THEOREM TypeCorrect == Spec => []TypeOK
  <1>1. BillingInv => TypeOK
    BY DEF BillingInv, TypeInv
  <1>2. QED
    BY <1>1, BillingCorrect, PTL

(* No quote is below the organization's rate, and none is above it without an owner to
   pay, whatever is raised or deleted while it is read (credit-group.util.ts:41-81). *)
THEOREM MarkupIsPaid == Spec => []EveryMarkupHasAPayee
  <1>1. ASSUME BillingInv, NEW r \in Requests, request[r].at = "quoted",
               request[r].unit # request[r].base
        PROVE  request[r].unit > request[r].base /\ request[r].payee # None
    <2>1. request[r].unit \in Nat /\ request[r].base \in Nat
      BY <1>1 DEF BillingInv, TypeInv, TypeOK, Request
    <2>2. QED
      BY <1>1, <2>1 DEF BillingInv, QuotesSound, Sound
  <1>2. BillingInv => EveryMarkupHasAPayee
    BY <1>1 DEF EveryMarkupHasAPayee
  <1>3. QED
    BY <1>2, BillingCorrect, PTL

-----------------------------------------------------------------------------
(* What the foreign keys and the unique index keep, statement by statement *)

Alone == \A u \in Users : \A k, l \in GroupsOf(u) : k = l

TablesInv == Alone /\ NothingOutlivesItsGroup

LEMMA TablesStep == BillingInv /\ TablesInv /\ [Next]_vars => TablesInv'
  <1> SUFFICES ASSUME BillingInv, TablesInv, [Next]_vars PROVE TablesInv'
    OBVIOUS
  <1> USE DEF TablesInv, Alone, NothingOutlivesItsGroup, GroupsOf, Exists
  <1>1. CASE UNCHANGED <<owner, fee, enrolled>>
    BY <1>1
  <1>2. ASSUME NEW r \in Requests, Own(r)
        PROVE  TablesInv'
    <2>1. request[r].group \in Groups /\ request[r].user \in Users /\ request[r].user # None
      BY <1>2, NoneAssumption DEF Own, BillingInv, TypeInv, StagesTyped, StageTyped
    <2>2. QED
      BY <1>2, <2>1 DEF Own, BillingInv, TypeInv, TypeOK
  <1>3. ASSUME NEW r \in Requests, Price(r)
        PROVE  TablesInv'
    <2>1. request[r].group \in Groups
      BY <1>3 DEF Price, BillingInv, TypeInv, StagesTyped, StageTyped
    <2>2. QED
      BY <1>3, <2>1 DEF Price, Referable, BillingInv, TypeInv, TypeOK
  <1>4. ASSUME NEW r \in Requests, Enrol(r)
        PROVE  TablesInv'
    <2>1. request[r].group \in Groups /\ request[r].user \in Users
      BY <1>4 DEF Enrol, BillingInv, TypeInv, StagesTyped, StageTyped
    <2>2. QED
      BY <1>4, <2>1 DEF Enrol, Referable, OncePerOrg
  <1>5. ASSUME NEW k \in Groups, Disband(k)
        PROVE  TablesInv'
    BY <1>5 DEF Disband, BillingInv, TypeInv, TypeOK
  <1>6. ASSUME NEW k \in Groups, NEW u \in Users, Withdraw(k, u)
        PROVE  TablesInv'
    BY <1>6 DEF Withdraw
  <1>7. ASSUME NEW r \in Requests, CheckOwner(r) \/ CheckFee(r) \/ CheckEnrol(r) \/ Quote(r)
        PROVE  TablesInv'
    <2>1. UNCHANGED <<owner, fee, enrolled>>
      BY <1>7, QuoteReads DEF CheckOwner, CheckFee, CheckEnrol, Check, BillingInv
    <2>2. QED
      BY <1>1, <2>1
  <1>8. CASE SetBase \/ \E u \in Users : Join(u) \/ Leave(u)
    BY <1>1, <1>8 DEF SetBase, Join, Leave
  <1>9. CASE UNCHANGED vars
    BY <1>1, <1>9 DEF vars
  <1>10. QED
    BY <1>2, <1>3, <1>4, <1>5, <1>6, <1>7, <1>8, <1>9 DEF Next, Manage

LEMMA TablesCorrect == Spec => []TablesInv
  <1>1. Init => TablesInv
    BY DEF Init, TablesInv, Alone, NothingOutlivesItsGroup, GroupsOf
  <1>2. QED
    BY <1>1, TablesStep, BillingCorrect, PTL DEF Spec

(* A client is in at most one credit group, however many administrators enrol them
   (organization.service.ts:669-705). *)
THEOREM OneGroup == Spec => []OneGroupPerClient
  <1>1. ASSUME Alone, NEW u \in Users
        PROVE  Cardinality(GroupsOf(u)) <= 1
    <2>1. CASE GroupsOf(u) = {}
      BY <2>1, FS_EmptySet
    <2>2. CASE GroupsOf(u) # {}
      <3>1. PICK k : GroupsOf(u) = {k}
        BY <1>1, <2>2 DEF Alone
      <3>2. Cardinality({k}) = 1
        BY FS_Singleton
      <3>3. QED
        BY <3>1, <3>2
    <2>3. QED
      BY <2>1, <2>2
  <1>2. TablesInv => OneGroupPerClient
    BY <1>1 DEF TablesInv, OneGroupPerClient
  <1>3. QED
    BY <1>2, TablesCorrect, PTL

(* A deleted group leaves no fee and no membership behind
   (organization.service.ts:626-632, 654-660, 698-701). *)
THEOREM GroupsLeaveNothing == Spec => []NothingOutlivesItsGroup
  <1>1. TablesInv => NothingOutlivesItsGroup
    BY DEF TablesInv
  <1>2. QED
    BY <1>1, TablesCorrect, PTL
=============================================================================
