---------------------------- MODULE CreditGroups -----------------------------
(***************************************************************************)
(* The billing of one organization for one type of lock: its own fee, the  *)
(* credit groups that mark it up for their clients, and the quote a lock   *)
(* takes from them.  Administrators check first and write in a statement   *)
(* of its own; a quote reads row after row: everything in between is       *)
(* anybody's, and only foreign keys, unique indexes and second looks hold. *)
(***************************************************************************)
EXTENDS Integers, FiniteSets

CONSTANTS
  Users,
  Groups,     \* credit groups that may be created
  Requests,   \* handlers that may run at a time
  Amounts,    \* fees that may be set
  None        \* SQL NULL, no row

ASSUME AmountsAssumption == Amounts \subseteq Nat
ASSUME NoneAssumption == None \notin Users \cup Groups \cup Requests \cup Nat

VARIABLES
  member,    \* SUBSET Users, users_orgs
  base,      \* Nat, the org_fees row; 0 when there is none
  owner,     \* [Groups -> Users \cup {None}], credit_groups; None: no such group
  fee,       \* [Groups -> Nat \cup {None}], credit_group_fees
  enrolled,  \* SUBSET (Groups \X Users), credit_group_members
  request    \* [Requests -> Request]

vars == <<member, base, owner, fee, enrolled, request>>

-----------------------------------------------------------------------------
\* A handler after its checks, with what it will write, or in a quote, with what it has read.
Request ==
  [at: {"idle", "own", "price", "enrol", "client", "rate", "payee", "quoted"},
   group: Groups \cup {None}, user: Users \cup {None}, amount: Nat \cup {None},
   base: Nat, unit: Nat, payee: Users \cup {None}]

Idle == [at |-> "idle", group |-> None, user |-> None, amount |-> None,
         base |-> 0, unit |-> 0, payee |-> None]

Exists(k) == owner[k] # None
GroupsOf(u) == {k \in Groups : <<k, u>> \in enrolled}

Init ==
  /\ member = {}
  /\ base = 0
  /\ owner = [k \in Groups |-> None]
  /\ fee = [k \in Groups |-> None]
  /\ enrolled = {}
  /\ request = [r \in Requests |-> Idle]

-----------------------------------------------------------------------------
(* The checks of the handlers that take more than one statement *)

Check(r, checked) ==
  /\ request[r].at = "idle"
  /\ request' = [request EXCEPT ![r] = checked]
  /\ UNCHANGED <<member, base, owner, fee, enrolled>>

\* createCreditGroup, whose group nobody knows yet, and updateCreditGroup.
CheckOwner(r) ==
  \E k \in Groups, u \in member :
    /\ Exists(k) \/ (\A q \in Requests : request[q].group # k)
    /\ Check(r, [Idle EXCEPT !.at = "own", !.group = k, !.user = u])

\* setCreditGroupFee: not below the organization's.
CheckFee(r) ==
  \E k \in Groups, amount \in Amounts :
    /\ Exists(k) /\ amount >= base
    /\ Check(r, [Idle EXCEPT !.at = "price", !.group = k, !.amount = amount])

\* addCreditGroupMember: in no credit group of the organization yet.
CheckEnrol(r) ==
  \E k \in Groups, u \in member :
    /\ Exists(k) /\ GroupsOf(u) = {}
    /\ Check(r, [Idle EXCEPT !.at = "enrol", !.group = k, !.user = u])

-----------------------------------------------------------------------------
(* Their writes, each a statement that the checks no longer guard *)

\* save() of a group: INSERT of a new one, or of one that has been deleted meanwhile.
Own(r) ==
  /\ request[r].at = "own"
  /\ owner' = [owner EXCEPT ![request[r].group] = request[r].user]
  /\ request' = [request EXCEPT ![r] = Idle]
  /\ UNCHANGED <<member, base, fee, enrolled>>

\* The foreign key of fees and memberships; (mutant) none.
AnyGroup(k) == TRUE
Referable(k) == Exists(k)

\* Upsert on (group, fee type).
Price(r) ==
  LET k == request[r].group
  IN  /\ request[r].at = "price"
      /\ fee' = IF Referable(k) THEN [fee EXCEPT ![k] = request[r].amount] ELSE fee
      /\ request' = [request EXCEPT ![r] = Idle]
      /\ UNCHANGED <<member, base, owner, enrolled>>

\* The unique index on (user, org); (mutant) the primary key (group, user) alone.
OncePerGroup(k, u) == TRUE
OncePerOrg(k, u) == GroupsOf(u) \subseteq {k}

Enrol(r) ==
  LET k == request[r].group
      u == request[r].user
  IN  /\ request[r].at = "enrol"
      /\ enrolled' = IF Referable(k) /\ OncePerOrg(k, u) THEN enrolled \cup {<<k, u>>} ELSE enrolled
      /\ request' = [request EXCEPT ![r] = Idle]
      /\ UNCHANGED <<member, base, owner, fee>>

-----------------------------------------------------------------------------
(* resolveClientFee, in the transaction of a lock: four reads, each of what is committed *)

Reading(r, at, next) ==
  /\ request[r].at = at
  /\ request' = [request EXCEPT ![r] = next]
  /\ UNCHANGED <<member, base, owner, fee, enrolled>>

ReadBase(r) ==
  \E u \in Users :
    Reading(r, "idle", [Idle EXCEPT !.at = "client", !.user = u, !.base = base])

\* What a lock gets to know; without a group the organization's rate, and nobody earns on it.
Quoting(q, unit, payee) ==
  [Idle EXCEPT !.at = "quoted", !.base = q.base, !.unit = unit, !.payee = payee]
Plain(q) == Quoting(q, q.base, None)

ReadMembership(r) ==
  LET q == request[r]
  IN  IF GroupsOf(q.user) = {} THEN Reading(r, "client", Plain(q))
      ELSE \E k \in GroupsOf(q.user) :
             Reading(r, "client", [q EXCEPT !.at = "rate", !.group = k, !.user = None])

ReadRate(r) ==
  LET q == request[r]
  IN  /\ q.at = "rate"
      /\ Reading(r, "rate", IF fee[q.group] = None THEN Plain(q)
                            ELSE [q EXCEPT !.at = "payee", !.amount = fee[q.group]])

\* Math.max of the two rates.
UnitFee(q) == IF q.amount < q.base THEN q.base ELSE q.amount

\* A group that is gone earns nothing and charges nothing; (mutants) it still charges; the
\* group's id is taken for its owner's.
QuotedGroup(q) == Quoting(q, UnitFee(q), q.group)
QuotedUnchecked(q) == Quoting(q, UnitFee(q), owner[q.group])
Quoted(q) == IF Exists(q.group) THEN Quoting(q, UnitFee(q), owner[q.group]) ELSE Plain(q)

ReadPayee(r) ==
  /\ request[r].at = "payee"
  /\ Reading(r, "payee", Quoted(request[r]))

\* The lock bills the quote.
UseQuote(r) == Reading(r, "quoted", Idle)

-----------------------------------------------------------------------------
(* The handlers whose write is one statement that checks for itself *)

SetBase ==
  /\ base' \in Amounts
  /\ UNCHANGED <<member, owner, fee, enrolled, request>>

Join(u) ==
  /\ member' = member \cup {u}
  /\ UNCHANGED <<base, owner, fee, enrolled, request>>

\* removeMember takes the roles of the user, not their credit group.
Leave(u) ==
  /\ u \in member
  /\ member' = member \ {u}
  /\ UNCHANGED <<base, owner, fee, enrolled, request>>

\* deleteCreditGroup: fees and memberships go with it.
Disband(k) ==
  /\ Exists(k)
  /\ owner' = [owner EXCEPT ![k] = None]
  /\ fee' = [fee EXCEPT ![k] = None]
  /\ enrolled' = {e \in enrolled : e[1] # k}
  /\ UNCHANGED <<member, base, request>>

Withdraw(k, u) ==
  /\ <<k, u>> \in enrolled
  /\ enrolled' = enrolled \ {<<k, u>>}
  /\ UNCHANGED <<member, base, owner, fee, request>>

-----------------------------------------------------------------------------
Manage(r) == CheckOwner(r) \/ CheckFee(r) \/ CheckEnrol(r) \/ Own(r) \/ Price(r) \/ Enrol(r)
Quote(r) == ReadBase(r) \/ ReadMembership(r) \/ ReadRate(r) \/ ReadPayee(r) \/ UseQuote(r)

Next ==
  \/ \E r \in Requests : Manage(r) \/ Quote(r)
  \/ SetBase
  \/ \E u \in Users : Join(u) \/ Leave(u)
  \/ \E k \in Groups : Disband(k) \/ \E u \in Users : Withdraw(k, u)

Spec == Init /\ [][Next]_vars

-----------------------------------------------------------------------------
(* Properties *)

(* Types of the rows and of what the handlers hold. *)
TypeOK ==
  /\ member \in SUBSET Users
  /\ base \in Nat
  /\ owner \in [Groups -> Users \cup {None}]
  /\ fee \in [Groups -> Nat \cup {None}]
  /\ enrolled \in SUBSET (Groups \X Users)
  /\ request \in [Requests -> Request]

(* "A client belongs to at most one credit group per org, so their fee is unambiguous",
   though two administrators may find the client in none at the same time
   (organization.service.ts:669-673, credit-group-member.entity.ts:5-11). *)
OneGroupPerClient == \A u \in Users : Cardinality(GroupsOf(u)) <= 1

(* No fee and no membership is left to a group that somebody deleted meanwhile, for a
   group saved again under the same id to inherit (organization.service.ts:626-632,
   654-660, 698-701). *)
NothingOutlivesItsGroup ==
  \A k \in Groups : ~Exists(k) => fee[k] = None /\ \A u \in Users : <<k, u>> \notin enrolled

(* "The owner's markup can never be negative", and somebody earns it: where a client pays
   other than the organization's rate it is more, and there is an owner to pay, though the
   rate may have been raised since the group's was checked against it and the group be
   deleted between the reads of its rate and of its owner (credit-group.util.ts:41-81,
   organization.service.ts:634-660). *)
EveryMarkupHasAPayee ==
  \A r \in Requests :
    request[r].at = "quoted" /\ request[r].unit # request[r].base =>
      request[r].unit > request[r].base /\ request[r].payee # None
=============================================================================
