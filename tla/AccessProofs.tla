---------------------------- MODULE AccessProofs ----------------------------
(***************************************************************************)
(* Theorems about Access for any users, organizations, groups, permissions *)
(* and number of requests: types and foreign keys, roles that go with the  *)
(* membership, verdicts that are earned, accounts that differ.             *)
(***************************************************************************)
EXTENDS Access, TLAPS

RowsOK ==
  /\ life \in [Orgs \cup Groups -> Life]
  /\ account \in [Users -> Account \cup {None}]
  /\ \A m \in member : m \in Users \X Orgs /\ account[m[1]] # None /\ Live(m[2])
  /\ \A x \in role : x \in Users \X Groups /\ account[x[1]] # None /\ Live(x[2])
  /\ \A x \in grant : x \in Groups \X Permissions /\ Live(x[1])

TxOK == tx \in [Requests -> Tx]
WatchOK == watch \in [Requests -> Watch]

\* A request that writes about an existing user finds the account there.
AboutAccounts ==
  \A r \in Requests :
    tx[r].at \in {"add_member", "assign", "save_member", "save_role"} => account[tx[r].about] # None

Typed == RowsOK /\ TxOK /\ WatchOK /\ AboutAccounts

-----------------------------------------------------------------------------
(* Types *)

\* What a request in flight has read has its type.
LEMMA Locals ==
  ASSUME TxOK, NEW r \in Requests
  PROVE  /\ tx[r].at \in {"add_member", "remove_member"} =>
              tx[r].about \in Users /\ tx[r].org \in Orgs
         /\ tx[r].at \in {"assign", "hash", "save_user", "save_member", "save_role"} =>
              tx[r].about \in Users /\ tx[r].group \in Groups
         /\ tx[r].at \in {"hash", "save_user"} => tx[r].email \in Emails
         /\ tx[r].at = "save_user" => tx[r].code \in Codes
         /\ tx[r].at \in {"asked", "weighing"} =>
              tx[r].actor \in Users /\ tx[r].org \in Orgs \cup {None} /\ tx[r].route \in Routes
         /\ tx[r].at = "asked" => tx[r].known \in SUBSET Groups
         /\ tx[r].at = "weighing" => tx[r].held \in SUBSET Groups
         /\ tx[r].at = "remove_member" => tx[r].groups \in SUBSET Groups
<1>1. tx[r] \in Tx
  BY DEF TxOK
<1> QED
  BY <1>1 DEF Tx, Joining, Leaving, Assigning, Hashing, Creating, Entering, Asking, Weighing, Verdict

\* Each step moves one request, to a well-formed point.
LEMMA TypeTx ==
  ASSUME RowsOK, TxOK, NEW r \in Requests, Step(r)
  PROVE  \E t \in Tx : Goto(r, t)
<1>1. ASSUME Answer(r) PROVE \E t \in Tx : Goto(r, t)
  <2>1. [at |-> "answered"] \in Tx
    BY DEF Tx
  <2> QED
    BY <1>1, <2>1 DEF Answer
<1>2. CASE BeginAddMember(r)
  BY <1>2 DEF BeginAddMember, Tx, Joining
<1>3. CASE BeginRemoveMember(r)
  <2>1. PICK u \in Users, o \in Orgs :
          Goto(r, [at |-> "remove_member", about |-> u, org |-> o,
                   groups |-> {g \in GroupsOf(o) : Live(g)}])
    BY <1>3 DEF BeginRemoveMember
  <2>2. [at |-> "remove_member", about |-> u, org |-> o,
         groups |-> {g \in GroupsOf(o) : Live(g)}] \in Tx
    BY DEF Tx, Leaving, GroupsOf
  <2> QED
    BY <2>1, <2>2
<1>4. CASE BeginAssign(r)
  BY <1>4 DEF BeginAssign, Tx, Assigning
<1>5. CASE BeginCreateUser(r)
  BY <1>5 DEF BeginCreateUser, Tx, Hashing
<1>6. CASE ResolveCode(r)
  BY <1>6, Locals DEF ResolveCode, Tx, Creating
<1>7. CASE SaveUser(r)
  BY <1>7, Locals DEF SaveUser, Tx, Entering
<1>8. CASE SaveMember(r)
  BY <1>8, Locals DEF SaveMember, Tx, Entering
<1>9. CASE Ask(r)
  <2>1. PICK u \in Users, o \in Orgs \cup {None}, route \in Routes :
          \/ Goto(r, [at |-> "asked", actor |-> u, org |-> o, route |-> route,
                      known |-> {g \in Groups : Live(g) /\ InScope(g, o)}])
          \/ Goto(r, [at |-> "refused", actor |-> u])
    BY <1>9 DEF Ask
  <2>2. /\ [at |-> "asked", actor |-> u, org |-> o, route |-> route,
            known |-> {g \in Groups : Live(g) /\ InScope(g, o)}] \in Tx
        /\ [at |-> "refused", actor |-> u] \in Tx
    BY DEF Tx, Asking, Verdict
  <2> QED
    BY <2>1, <2>2
<1>10. CASE ReadRoles(r)
  <2> DEFINE t == tx[r]
             held == {g \in Groups : <<t.actor, g>> \in role /\ (t.org = None \/ g \in t.known)}
             to == [at |-> "weighing", actor |-> t.actor, org |-> t.org, route |-> t.route,
                    held |-> held]
  <2>1. Goto(r, to) /\ t.at = "asked"
    BY <1>10 DEF ReadRoles
  <2>2. to \in Tx
    BY <2>1, Locals DEF Tx, Weighing
  <2> QED
    BY <2>1, <2>2
<1>11. CASE ReadGrants(r)
  <2>1. tx[r].at = "weighing" /\ tx[r].actor \in Users
    BY <1>11, Locals DEF ReadGrants
  <2>2. [at |-> "admitted", actor |-> tx[r].actor] \in Tx /\ [at |-> "refused", actor |-> tx[r].actor] \in Tx
    BY <2>1 DEF Tx, Verdict
  <2> QED
    BY <1>11, <2>2 DEF ReadGrants
<1> QED
  BY <1>1, <1>2, <1>3, <1>4, <1>5, <1>6, <1>7, <1>8, <1>9, <1>10, <1>11
     DEF Step, CreateOrganization, DeleteOrganization, CreateGroup, DeleteGroup, Grant, Revoke,
         AddMember, RemoveMember, Assign, RemoveFromGroup, SaveRole, Fail

\* Deleting organizations with all their live groups, or a group, leaves no row dangling.
LEMMA EraseKeepsRows ==
  ASSUME RowsOK, NEW deleted \in SUBSET Orgs, NEW groups \in SUBSET Groups,
         Erase(deleted, groups)
  PROVE  RowsOK'
<1>1. life' \in [Orgs \cup Groups -> Life]
  BY DEF Erase, RowsOK, Life
<1>2. \A x \in Orgs \cup Groups : x \notin deleted \cup groups => life'[x] = life[x]
  BY DEF Erase
<1>3. \A m \in member' : m \in member /\ m[2] \notin deleted
  BY DEF Erase
<1>4. \A x \in role' : x \in role /\ x[2] \notin groups
  BY DEF Erase, RolesWithout
<1>5. \A x \in grant' : x \in grant /\ x[1] \notin groups
  BY DEF Erase
<1>6. \A m \in member' : m \in Users \X Orgs /\ account[m[1]] # None /\ life'[m[2]] = "live"
  BY <1>2, <1>3, AccessAssumption DEF RowsOK, Live
<1>7. \A x \in role' : x \in Users \X Groups /\ account[x[1]] # None /\ life'[x[2]] = "live"
  BY <1>2, <1>4, AccessAssumption DEF RowsOK, Live
<1>8. \A x \in grant' : x \in Groups \X Permissions /\ life'[x[1]] = "live"
  BY <1>2, <1>5, AccessAssumption DEF RowsOK, Live
<1> QED
  BY <1>1, <1>6, <1>7, <1>8 DEF RowsOK, Live, Erase

\* Every step keeps rows typed and foreign keys whole.
LEMMA TypeRows ==
  ASSUME Typed, NEW r \in Requests, Step(r)
  PROVE  RowsOK'
<1>0. RowsOK /\ TxOK /\ AboutAccounts
  BY DEF Typed
<1>1. CASE UNCHANGED rows
  BY <1>0, <1>1 DEF RowsOK, Live, rows
<1>2. CASE CreateOrganization(r)
  BY <1>0, <1>2 DEF CreateOrganization, RowsOK, Live, Life
<1>3. CASE DeleteOrganization(r)
  BY <1>0, <1>3, EraseKeepsRows DEF DeleteOrganization, GroupsOf
<1>4. CASE CreateGroup(r)
  BY <1>0, <1>4 DEF CreateGroup, RowsOK, Live, Life
<1>5. CASE DeleteGroup(r)
  BY <1>0, <1>5, EraseKeepsRows DEF DeleteGroup
<1>6. CASE Grant(r)
  BY <1>0, <1>6 DEF Grant, RowsOK, Live
<1>7. CASE Revoke(r)
  BY <1>0, <1>7 DEF Revoke, RowsOK, Live
<1>8. CASE AddMember(r)
  BY <1>0, <1>8, Locals DEF AddMember, RowsOK, Live, AboutAccounts
<1>9. CASE RemoveMember(r)
  BY <1>0, <1>9 DEF RemoveMember, Dropped, RowsOK, Live
<1>10. CASE Assign(r)
  BY <1>0, <1>10, Locals DEF Assign, RowsOK, Live, AboutAccounts
<1>11. CASE RemoveFromGroup(r)
  BY <1>0, <1>11 DEF RemoveFromGroup, RowsOK, Live
<1>12. CASE SaveUser(r)
  <2>1. tx[r].about \in Users /\ tx[r].email \in Emails /\ tx[r].code \in Codes
    BY <1>0, <1>12, Locals DEF SaveUser
  <2>2. [email |-> tx[r].email, code |-> tx[r].code] \in Account
    BY <2>1 DEF Account
  <2>3. account' = [account EXCEPT ![tx[r].about] = [email |-> tx[r].email, code |-> tx[r].code]]
        /\ UNCHANGED <<life, member, role, grant>>
    BY <1>12 DEF SaveUser
  <2>4. \A u \in Users : account[u] # None => account'[u] # None
    BY <2>1, <2>2, <2>3, <1>0, AccessAssumption DEF RowsOK
  <2>5. account' \in [Users -> Account \cup {None}]
    BY <2>2, <2>3, <1>0 DEF RowsOK
  <2> QED
    BY <2>3, <2>4, <2>5, <1>0 DEF RowsOK, Live
<1>13. CASE SaveMember(r)
  BY <1>0, <1>13, Locals, AccessAssumption DEF SaveMember, RowsOK, Live, AboutAccounts
<1>14. CASE SaveRole(r)
  BY <1>0, <1>14, Locals DEF SaveRole, RowsOK, Live, AboutAccounts
<1> QED
  BY <1>1, <1>2, <1>3, <1>4, <1>5, <1>6, <1>7, <1>8, <1>9, <1>10, <1>11, <1>12, <1>13, <1>14
     DEF Step, BeginAddMember, BeginRemoveMember, BeginAssign, BeginCreateUser, ResolveCode, Fail,
         Ask, ReadRoles, ReadGrants

\* Accounts are never lost.
LEMMA AccountsStay ==
  ASSUME Typed, NEW r \in Requests, Step(r), NEW u \in Users, account[u] # None
  PROVE  account'[u] # None
<1>1. CASE SaveUser(r)
  <2>1. tx[r].about \in Users /\ tx[r].email \in Emails /\ tx[r].code \in Codes
    BY <1>1, Locals DEF SaveUser, Typed
  <2>2. [email |-> tx[r].email, code |-> tx[r].code] # None
    BY <2>1, AccessAssumption DEF Account
  <2> QED
    BY <1>1, <2>1, <2>2 DEF SaveUser, Typed, RowsOK
<1>2. CASE UNCHANGED account
  BY <1>2
<1> QED
  BY <1>1, <1>2
     DEF Step, rows, Erase, CreateOrganization, DeleteOrganization, CreateGroup, DeleteGroup,
         Grant, Revoke, BeginAddMember, AddMember, BeginRemoveMember, RemoveMember, BeginAssign,
         Assign, RemoveFromGroup, BeginCreateUser, ResolveCode, SaveMember, SaveRole, Fail,
         Ask, ReadRoles, ReadGrants

\* What a handler writes about has an account, from its check to its last save.
LEMMA AboutStays ==
  ASSUME Typed, NEW r \in Requests, Step(r)
  PROVE  AboutAccounts'
<1>0. RowsOK /\ TxOK /\ AboutAccounts
  BY DEF Typed
<1>1. PICK t \in Tx : Goto(r, t)
  BY <1>0, TypeTx
<1>2. \A q \in Requests : q # r => tx'[q] = tx[q]
  BY <1>0, <1>1 DEF Goto, TxOK
<1>3. tx'[r] = t
  BY <1>0, <1>1 DEF Goto, TxOK
<1>4. ASSUME NEW q \in Requests, q # r,
             tx[q].at \in {"add_member", "assign", "save_member", "save_role"}
      PROVE  account'[tx[q].about] # None
  <2>1. tx[q].about \in Users /\ account[tx[q].about] # None
    BY <1>0, <1>4, Locals DEF AboutAccounts
  <2> QED
    BY <2>1, AccountsStay
<1>5. ASSUME tx'[r].at \in {"add_member", "assign", "save_member", "save_role"}
      PROVE  account'[tx'[r].about] # None
  <2>1. CASE BeginAddMember(r)
    BY <1>0, <2>1 DEF BeginAddMember, Goto, TxOK, rows
  <2>2. CASE BeginAssign(r)
    BY <1>0, <2>2 DEF BeginAssign, Goto, TxOK, RowsOK, rows
  <2>3. CASE SaveUser(r)
    <3>1. tx[r].about \in Users /\ tx[r].email \in Emails /\ tx[r].code \in Codes
      BY <1>0, <2>3, Locals DEF SaveUser
    <3>2. [email |-> tx[r].email, code |-> tx[r].code] # None
      BY <3>1, AccessAssumption DEF Account
    <3> QED
      BY <1>0, <2>3, <3>1, <3>2 DEF SaveUser, Goto, TxOK, RowsOK
  <2>4. CASE SaveMember(r)
    BY <1>0, <2>4 DEF SaveMember, Goto, TxOK, AboutAccounts
  <2>5. CASE Answer(r)
    BY <1>0, <1>5, <2>5 DEF Answer, Goto, TxOK
  <2>6. CASE BeginRemoveMember(r) \/ BeginCreateUser(r) \/ ResolveCode(r)
    BY <1>0, <1>5, <2>6 DEF BeginRemoveMember, BeginCreateUser, ResolveCode, Goto, TxOK
  <2>7. CASE Ask(r) \/ ReadRoles(r) \/ ReadGrants(r)
    BY <1>0, <1>5, <2>7 DEF Ask, ReadRoles, ReadGrants, Goto, TxOK
  <2> QED
    BY <2>1, <2>2, <2>3, <2>4, <2>5, <2>6, <2>7
       DEF Step, CreateOrganization, DeleteOrganization, CreateGroup, DeleteGroup, Grant, Revoke,
           AddMember, RemoveMember, Assign, RemoveFromGroup, SaveRole, Fail
<1> QED
  BY <1>2, <1>4, <1>5 DEF AboutAccounts

\* Observations are sets of groups.
LEMMA TypeObserve ==
  ASSUME WatchOK, Observe
  PROVE  WatchOK'
<1>1. ASSUME NEW t PROVE Now(t)' \in Watch
  BY DEF Now, RoleNow, GrantNow, Scope, Watch
<1>2. ASSUME NEW w \in Watch, NEW n \in Watch PROVE Also(w, n) \in Watch
  BY DEF Also, Watch
<1>3. \A r \in Requests : Also(watch[r], Now(tx[r])') \in Watch
  BY <1>1, <1>2 DEF WatchOK
<1> QED
  BY <1>1, <1>3 DEF Observe, WatchOK

LEMMA TypedInit == Init => Typed
<1> SUFFICES ASSUME Init PROVE Typed
  OBVIOUS
<1>1. RowsOK
  <2>1. \A x \in role : <<x[1], OrgOf[x[2]]>> \in member => account[x[1]] # None
    BY OpeningAssumption DEF Init
  <2> QED
    BY <2>1, OpeningAssumption DEF Init, RowsOK, Live
<1>2. TxOK
  BY DEF Init, TxOK, Tx
<1>3. WatchOK /\ AboutAccounts
  BY DEF Init, WatchOK, Watch, AboutAccounts
<1> QED
  BY <1>1, <1>2, <1>3 DEF Typed

LEMMA TypedNext == Typed /\ [Next]_vars => Typed'
<1> SUFFICES ASSUME Typed, [Next]_vars PROVE Typed'
  OBVIOUS
<1>1. CASE UNCHANGED vars
  BY <1>1 DEF vars, rows, Typed, RowsOK, TxOK, WatchOK, AboutAccounts, Live
<1>2. ASSUME NEW r \in Requests, Step(r), Observe PROVE Typed'
  <2>1. RowsOK' /\ AboutAccounts'
    BY <1>2, TypeRows, AboutStays
  <2>2. TxOK'
    BY <1>2, TypeTx DEF Typed, Goto, TxOK
  <2>3. WatchOK'
    BY <1>2, TypeObserve DEF Typed
  <2> QED
    BY <2>1, <2>2, <2>3 DEF Typed
<1> QED
  BY <1>1, <1>2 DEF Next

(* Rows, requests and observations keep their types and no foreign key dangles, whatever
   is deleted under a handler. *)
THEOREM TypeCorrect == Spec => []TypeOK
<1>1. Init => Typed
  BY TypedInit
<1>2. Typed /\ [Next]_vars => Typed'
  BY TypedNext
<1>3. Typed => TypeOK
  BY DEF Typed, RowsOK, TxOK, WatchOK, TypeOK
<1> QED
  BY <1>1, <1>2, <1>3, PTL DEF Spec

-----------------------------------------------------------------------------
(* Accounts *)

\* A save that finds its e-mail and code untaken keeps accounts distinct.
LEMMA DistinctStep ==
  ASSUME Typed, AccountsAreDistinct, NEW r \in Requests, Step(r)
  PROVE  AccountsAreDistinct'
<1>1. CASE SaveUser(r)
  <2> DEFINE t == tx[r]
             new == [email |-> t.email, code |-> t.code]
  <2>1. t.about \in Users /\ ~Taken("email", t.email) /\ ~Taken("code", t.code)
    BY <1>1, Locals DEF SaveUser, Unique, Typed
  <2>2. \A u \in Users : account'[u] = IF u = t.about THEN new ELSE account[u]
    BY <1>1, <2>1 DEF SaveUser, Typed, RowsOK
  <2>3. \A u \in Users : account[u] # None =>
          account[u].email # new.email /\ account[u].code # new.code
    BY <2>1 DEF Taken
  <2> HIDE DEF new, t
  <2> QED
    BY <2>2, <2>3 DEF AccountsAreDistinct
<1>2. CASE UNCHANGED account
  BY <1>2 DEF AccountsAreDistinct
<1> QED
  BY <1>1, <1>2
     DEF Step, rows, Erase, CreateOrganization, DeleteOrganization, CreateGroup, DeleteGroup,
         Grant, Revoke, BeginAddMember, AddMember, BeginRemoveMember, RemoveMember, BeginAssign,
         Assign, RemoveFromGroup, BeginCreateUser, ResolveCode, SaveMember, SaveRole, Fail,
         Ask, ReadRoles, ReadGrants

(* No two accounts ever share an e-mail or a code, with any number of provisionings that
   all looked before any of them saved. *)
THEOREM AccountsDiffer == Spec => []AccountsAreDistinct
<1>1. Init => AccountsAreDistinct
  BY OpeningAssumption DEF Init, AccountsAreDistinct
<1>2. Typed /\ AccountsAreDistinct /\ [Next]_vars => AccountsAreDistinct'
  BY DistinctStep DEF Next, vars, rows, AccountsAreDistinct
<1> QED
  BY <1>1, <1>2, TypedInit, TypedNext, PTL DEF Spec

-----------------------------------------------------------------------------
(* Roles and memberships *)

\* Two handlers write about one user only where requests overlap.
OneWriter ==
  \A q, r \in Requests :
    Writing(q) /\ Writing(r) /\ q # r /\ tx[q].about = tx[r].about => tx[q].about \in Overlapping

\* A group a handler has looked up has been created, though it may be gone.
GroupsBorn ==
  \A r \in Requests :
    tx[r].at \in {"assign", "hash", "save_user", "save_member", "save_role"} =>
      life[tx[r].group] # "unborn"

\* About to write a role, its user is a member, unless the group has been deleted.
MayHold(r) ==
  tx[r].at \in {"assign", "save_role"} /\ Live(tx[r].group) =>
    \/ tx[r].about \in Overlapping
    \/ <<tx[r].about, OrgOf[tx[r].group]>> \in member

\* About to drop a member, all the roles to be dropped are among the groups listed.
KnowsRoles(r) ==
  tx[r].at = "remove_member" /\ tx[r].about \notin Overlapping =>
    \A x \in role : x[1] = tx[r].about /\ OrgOf[x[2]] = tx[r].org => x[2] \in tx[r].groups

RoleInv ==
  /\ Typed
  /\ OneWriter
  /\ GroupsBorn
  /\ \A r \in Requests : MayHold(r) /\ KnowsRoles(r)
  /\ RolesGoWithMembership

\* How a step moves the request it serves, and that it moves no other.
LEMMA Moves ==
  ASSUME Typed, NEW r \in Requests, Step(r)
  PROVE  /\ \A q \in Requests : q # r => tx'[q] = tx[q]
         /\ \/ BeginAddMember(r) \/ BeginRemoveMember(r) \/ BeginAssign(r) \/ BeginCreateUser(r)
            \/ ResolveCode(r) \/ SaveUser(r) \/ SaveMember(r)
            \/ ~Writing(r)'
<1>0. TxOK /\ RowsOK
  BY DEF Typed
<1>1. \A q \in Requests : q # r => tx'[q] = tx[q]
  BY <1>0, TypeTx DEF Goto, TxOK
<1>2. ASSUME Answer(r) PROVE ~Writing(r)'
  BY <1>0, <1>2 DEF Answer, Goto, TxOK, Writing
<1>3. ASSUME Ask(r) \/ ReadRoles(r) \/ ReadGrants(r) PROVE ~Writing(r)'
  BY <1>0, <1>3 DEF Ask, ReadRoles, ReadGrants, Goto, TxOK, Writing
<1> QED
  BY <1>1, <1>2, <1>3
     DEF Step, CreateOrganization, DeleteOrganization, CreateGroup, DeleteGroup, Grant, Revoke,
         AddMember, RemoveMember, Assign, RemoveFromGroup, SaveRole, Fail

\* A handler that goes on writes about the same user; one that begins finds no other.
LEMMA OneWriterStep ==
  ASSUME Typed, OneWriter, NEW r \in Requests, Step(r)
  PROVE  OneWriter'
<1>0. TxOK
  BY DEF Typed
<1>1. \A q \in Requests : q # r => tx'[q] = tx[q]
  BY Moves
<1>2. CASE BeginAddMember(r) \/ BeginRemoveMember(r) \/ BeginAssign(r)
  <2>1. PICK u \in Users : Alone(u) /\ tx'[r].about = u
    <3>1. CASE BeginAddMember(r)
      BY <1>0, <3>1 DEF BeginAddMember, Goto, TxOK
    <3>2. CASE BeginRemoveMember(r)
      BY <1>0, <3>2 DEF BeginRemoveMember, Goto, TxOK
    <3>3. CASE BeginAssign(r)
      BY <1>0, <3>3 DEF BeginAssign, Goto, TxOK
    <3> QED
      BY <1>2, <3>1, <3>2, <3>3
  <2> QED
    BY <1>1, <2>1 DEF OneWriter, Alone, Writing
<1>3. CASE BeginCreateUser(r)
  <2>1. PICK u \in Users : Unused(u) /\ tx'[r].about = u
    BY <1>0, <1>3 DEF BeginCreateUser, Goto, TxOK
  <2> QED
    BY <1>1, <2>1 DEF OneWriter, Unused, Writing
<1>4. CASE ResolveCode(r) \/ SaveUser(r) \/ SaveMember(r)
  <2>1. Writing(r) /\ tx'[r].about = tx[r].about
    BY <1>0, <1>4 DEF ResolveCode, SaveUser, SaveMember, Goto, TxOK, Writing
  <2> QED
    BY <1>1, <2>1 DEF OneWriter, Writing
<1>5. CASE ~Writing(r)'
  BY <1>1, <1>5 DEF OneWriter, Writing
<1> QED
  BY <1>2, <1>3, <1>4, <1>5, Moves

\* Rows of organizations and groups are never unborn again.
LEMMA BornStays ==
  ASSUME Typed, NEW r \in Requests, Step(r), NEW g \in Groups, life[g] # "unborn"
  PROVE  /\ life'[g] # "unborn"
         /\ Live(g)' => Live(g)
<1>1. CASE CreateOrganization(r)
  BY <1>1, AccessAssumption DEF CreateOrganization, Typed, RowsOK, Live
<1>2. CASE CreateGroup(r)
  BY <1>2, AccessAssumption DEF CreateGroup, Typed, RowsOK, Live
<1>3. CASE DeleteOrganization(r) \/ DeleteGroup(r)
  BY <1>3 DEF DeleteOrganization, DeleteGroup, Erase, Typed, RowsOK, Live
<1>4. CASE UNCHANGED life
  BY <1>4 DEF Live
<1> QED
  BY <1>1, <1>2, <1>3, <1>4
     DEF Step, rows, Grant, Revoke, BeginAddMember, AddMember, BeginRemoveMember, RemoveMember,
         BeginAssign, Assign, RemoveFromGroup, BeginCreateUser, ResolveCode, SaveUser, SaveMember,
         SaveRole, Fail, Ask, ReadRoles, ReadGrants

\* What a handler has looked up stays created.
LEMMA GroupsBornStep ==
  ASSUME Typed, GroupsBorn, NEW r \in Requests, Step(r)
  PROVE  GroupsBorn'
<1>0. TxOK
  BY DEF Typed
<1> DEFINE at == {"assign", "hash", "save_user", "save_member", "save_role"}
<1>1. ASSUME NEW q \in Requests, tx[q].at \in at PROVE life'[tx[q].group] # "unborn"
  <2>1. tx[q].group \in Groups /\ life[tx[q].group] # "unborn"
    BY <1>0, <1>1, Locals DEF GroupsBorn
  <2> QED
    BY <2>1, BornStays
<1>2. ASSUME tx'[r].at \in at PROVE life'[tx'[r].group] # "unborn"
  <2>1. CASE BeginAssign(r) \/ BeginCreateUser(r)
    <3>1. PICK g \in Groups : Live(g) /\ UNCHANGED life /\ tx'[r].group = g
      <4>1. CASE BeginAssign(r)
        BY <1>0, <4>1 DEF BeginAssign, Goto, TxOK, rows
      <4>2. CASE BeginCreateUser(r)
        BY <1>0, <4>2 DEF BeginCreateUser, Goto, TxOK, rows
      <4> QED
        BY <2>1, <4>1, <4>2
    <3> QED
      BY <3>1 DEF Live
  <2>2. CASE ResolveCode(r) \/ SaveUser(r) \/ SaveMember(r)
    <3>1. tx[r].at \in at /\ tx'[r].group = tx[r].group
      BY <1>0, <2>2 DEF ResolveCode, SaveUser, SaveMember, Goto, TxOK
    <3>2. life'[tx[r].group] # "unborn"
      BY <3>1, <1>1
    <3> QED
      BY <3>1, <3>2
  <2>3. CASE BeginAddMember(r)
    BY <1>0, <1>2, <2>3 DEF BeginAddMember, Goto, TxOK
  <2>5. CASE BeginRemoveMember(r)
    BY <1>0, <1>2, <2>5 DEF BeginRemoveMember, Goto, TxOK
  <2>4. CASE ~Writing(r)'
    BY <1>2, <2>4 DEF Writing
  <2> QED
    BY <2>1, <2>2, <2>3, <2>4, <2>5, Moves
<1>3. \A q \in Requests : q # r => tx'[q] = tx[q]
  BY Moves
<1> QED
  BY <1>1, <1>2, <1>3 DEF GroupsBorn

\* Who loses a membership: all members of a deleted organization, or the one removed.
LEMMA WhoLeaves ==
  ASSUME Typed, NEW r \in Requests, Step(r), NEW m \in member, m \notin member'
  PROVE  \/ ~Live(m[2])' /\ \A g \in GroupsOf(m[2]) : ~Live(g)'
         \/ RemoveMember(r) /\ tx[r].at = "remove_member" /\ m = <<tx[r].about, tx[r].org>>
<1>1. CASE DeleteOrganization(r)
  <2>1. PICK o \in Orgs : Erase({o}, {g \in GroupsOf(o) : Live(g)})
    BY <1>1 DEF DeleteOrganization
  <2>2. m[2] = o
    BY <2>1 DEF Erase
  <2>3. \A g \in GroupsOf(o) : life'[g] # "live"
    BY <2>1 DEF Erase, GroupsOf, Live
  <2>4. life'[o] # "live"
    BY <2>1 DEF Erase
  <2> QED
    BY <2>2, <2>3, <2>4 DEF Live
<1>2. CASE RemoveMember(r)
  BY <1>2 DEF RemoveMember
<1>3. CASE DeleteGroup(r)
  BY <1>3 DEF DeleteGroup, Erase
<1> QED
  BY <1>1, <1>2, <1>3
     DEF Step, rows, CreateOrganization, CreateGroup, Grant, Revoke, BeginAddMember, AddMember,
         BeginRemoveMember, BeginAssign, Assign, RemoveFromGroup, BeginCreateUser, ResolveCode,
         SaveUser, SaveMember, SaveRole, Fail, Ask, ReadRoles, ReadGrants

\* Who gains a role: the user an assignment or a provisioning is about.
LEMMA WhoGains ==
  ASSUME Typed, NEW r \in Requests, Step(r), NEW x \in role', x \notin role
  PROVE  /\ tx[r].at \in {"assign", "save_role"}
         /\ x = <<tx[r].about, tx[r].group>>
         /\ Live(tx[r].group)
         /\ UNCHANGED member
  BY DEF Step, rows, CreateOrganization, DeleteOrganization, Erase, RolesWithout, CreateGroup,
         DeleteGroup, Grant, Revoke, BeginAddMember, AddMember, BeginRemoveMember, RemoveMember,
         Dropped, BeginAssign, Assign, RemoveFromGroup, BeginCreateUser, ResolveCode, SaveUser,
         SaveMember, SaveRole, Fail, Ask, ReadRoles, ReadGrants

\* A handler about to write a role keeps its right to, until the group goes.
LEMMA MayHoldStep ==
  ASSUME RoleInv, NEW r \in Requests, Step(r), NEW q \in Requests
  PROVE  MayHold(q)'
<1>0. Typed /\ TxOK
  BY DEF RoleInv, Typed
<1>1. CASE q # r
  <2>1. tx'[q] = tx[q]
    BY <1>0, <1>1, Moves
  <2> SUFFICES ASSUME tx[q].at \in {"assign", "save_role"}, life'[tx[q].group] = "live",
                      tx[q].about \notin Overlapping
               PROVE  <<tx[q].about, OrgOf[tx[q].group]>> \in member'
    BY <2>1 DEF MayHold, Live
  <2>2. tx[q].group \in Groups /\ life[tx[q].group] # "unborn"
    BY <1>0, Locals DEF RoleInv, GroupsBorn
  <2>3. Live(tx[q].group)
    BY <1>0, <2>2, BornStays DEF Live
  <2>4. <<tx[q].about, OrgOf[tx[q].group]>> \in member
    BY <2>3 DEF RoleInv, MayHold
  <2>5. tx[q].group \in GroupsOf(OrgOf[tx[q].group])
    BY <2>2 DEF GroupsOf
  <2>6. ~(RemoveMember(r) /\ tx[r].at = "remove_member" /\ tx[r].about = tx[q].about)
    BY <1>1 DEF RoleInv, OneWriter, Writing
  <2>7. <<tx[q].about, OrgOf[tx[q].group]>>[2] = OrgOf[tx[q].group]
    OBVIOUS
  <2> QED
    BY <1>0, <2>4, <2>5, <2>6, <2>7, WhoLeaves DEF Live
<1>2. CASE q = r
  <2> SUFFICES ASSUME tx'[r].at \in {"assign", "save_role"}
               PROVE  <<tx'[r].about, OrgOf[tx'[r].group]>> \in member'
    BY <1>2 DEF MayHold
  <2>1. CASE BeginAssign(r)
    BY <1>0, <2>1 DEF BeginAssign, Goto, TxOK, rows
  <2>2. CASE SaveMember(r)
    BY <1>0, <2>2 DEF SaveMember, Goto, TxOK
  <2>3. CASE BeginAddMember(r)
    BY <1>0, <2>3 DEF BeginAddMember, Goto, TxOK
  <2>7. CASE BeginCreateUser(r)
    BY <1>0, <2>7 DEF BeginCreateUser, Goto, TxOK
  <2>4. CASE BeginRemoveMember(r)
    BY <1>0, <2>4 DEF BeginRemoveMember, Goto, TxOK
  <2>5. CASE ResolveCode(r) \/ SaveUser(r)
    BY <1>0, <2>5 DEF ResolveCode, SaveUser, Goto, TxOK
  <2>6. CASE ~Writing(r)'
    BY <2>6 DEF Writing
  <2> QED
    BY <1>0, <2>1, <2>2, <2>3, <2>4, <2>5, <2>6, <2>7, Moves
<1> QED
  BY <1>1, <1>2

\* A removal goes on knowing every role its user has in the organization.
LEMMA KnowsRolesStep ==
  ASSUME RoleInv, NEW r \in Requests, Step(r), NEW q \in Requests
  PROVE  KnowsRoles(q)'
<1>0. Typed /\ TxOK /\ RowsOK
  BY DEF RoleInv, Typed
<1>1. CASE q # r
  <2>1. tx'[q] = tx[q]
    BY <1>0, <1>1, Moves
  <2> SUFFICES ASSUME tx[q].at = "remove_member", tx[q].about \notin Overlapping,
                      NEW x \in role', x[1] = tx[q].about, OrgOf[x[2]] = tx[q].org
               PROVE  x[2] \in tx[q].groups
    BY <2>1 DEF KnowsRoles
  <2>2. CASE x \in role
    BY <2>2 DEF RoleInv, KnowsRoles
  <2>3. CASE x \notin role
    <3>1. tx[r].at \in {"assign", "save_role"} /\ tx[r].about = tx[q].about
      BY <1>0, <2>3, WhoGains
    <3> QED
      BY <1>1, <3>1 DEF RoleInv, OneWriter, Writing
  <2> QED
    BY <2>2, <2>3
<1>2. CASE q = r
  <2> SUFFICES ASSUME tx'[r].at = "remove_member",
                      NEW x \in role', x[1] = tx'[r].about, OrgOf[x[2]] = tx'[r].org
               PROVE  x[2] \in tx'[r].groups
    BY <1>2 DEF KnowsRoles
  <2>1. CASE BeginRemoveMember(r)
    <3>1. PICK u \in Users, o \in Orgs :
            Goto(r, [at |-> "remove_member", about |-> u, org |-> o,
                     groups |-> {g \in GroupsOf(o) : Live(g)}])
      BY <2>1 DEF BeginRemoveMember
    <3>2. tx'[r].org = o /\ tx'[r].groups = {g \in GroupsOf(o) : Live(g)}
      BY <1>0, <3>1 DEF Goto, TxOK
    <3>3. x \in role
      BY <2>1 DEF BeginRemoveMember, rows
    <3> QED
      BY <1>0, <3>2, <3>3 DEF RowsOK, GroupsOf
  <2>2. CASE BeginAddMember(r) \/ BeginAssign(r) \/ BeginCreateUser(r)
    <3>1. CASE BeginAddMember(r)
      BY <1>0, <3>1 DEF BeginAddMember, Goto, TxOK
    <3>2. CASE BeginAssign(r)
      BY <1>0, <3>2 DEF BeginAssign, Goto, TxOK
    <3>3. CASE BeginCreateUser(r)
      BY <1>0, <3>3 DEF BeginCreateUser, Goto, TxOK
    <3> QED
      BY <2>2, <3>1, <3>2, <3>3
  <2>3. CASE ResolveCode(r) \/ SaveUser(r) \/ SaveMember(r)
    BY <1>0, <2>3 DEF ResolveCode, SaveUser, SaveMember, Goto, TxOK
  <2>4. CASE ~Writing(r)'
    BY <2>4 DEF Writing
  <2> QED
    BY <1>0, <2>1, <2>2, <2>3, <2>4, Moves
<1> QED
  BY <1>1, <1>2

\* Roles come only to members, and go with the membership.
LEMMA RolesGoStep ==
  ASSUME RoleInv, NEW r \in Requests, Step(r)
  PROVE  RolesGoWithMembership'
<1>0. Typed /\ RowsOK'
  BY TypeRows DEF RoleInv
<1> SUFFICES ASSUME NEW x \in role', x[1] \notin Overlapping
             PROVE  <<x[1], OrgOf[x[2]]>> \in member'
  BY DEF RolesGoWithMembership
<1>1. CASE x \notin role
  <2>1. /\ tx[r].at \in {"assign", "save_role"} /\ x[1] = tx[r].about /\ x[2] = tx[r].group
        /\ Live(tx[r].group) /\ UNCHANGED member
    BY <1>0, <1>1, WhoGains
  <2> QED
    BY <2>1 DEF RoleInv, MayHold
<1>2. CASE x \in role
  <2>1. <<x[1], OrgOf[x[2]]>> \in member
    BY <1>2 DEF RoleInv, RolesGoWithMembership
  <2>2. x \in Users \X Groups /\ Live(x[2])'
    BY <1>0 DEF RowsOK
  <2>3. x[2] \in GroupsOf(OrgOf[x[2]])
    BY <2>2 DEF GroupsOf
  <2>4. ASSUME RemoveMember(r), tx[r].at = "remove_member",
               tx[r].about = x[1], tx[r].org = OrgOf[x[2]]
        PROVE  FALSE
    <3>1. x[2] \in tx[r].groups
      BY <1>2, <2>4 DEF RoleInv, KnowsRoles
    <3> QED
      BY <2>4, <3>1 DEF RemoveMember, Dropped
  <2> QED
    BY <1>0, <2>1, <2>2, <2>3, <2>4, WhoLeaves
<1> QED
  BY <1>1, <1>2

LEMMA RoleInvInit == Init => RoleInv
<1> SUFFICES ASSUME Init PROVE RoleInv
  OBVIOUS
<1>1. OneWriter /\ GroupsBorn /\ \A r \in Requests : MayHold(r) /\ KnowsRoles(r)
  BY DEF Init, OneWriter, Writing, GroupsBorn, MayHold, KnowsRoles
<1>2. RolesGoWithMembership
  BY OpeningAssumption DEF Init, RolesGoWithMembership
<1> QED
  BY <1>1, <1>2, TypedInit DEF RoleInv

LEMMA RoleInvNext == RoleInv /\ [Next]_vars => RoleInv'
<1> SUFFICES ASSUME RoleInv, [Next]_vars PROVE RoleInv'
  OBVIOUS
<1>1. Typed'
  BY TypedNext DEF RoleInv
<1>2. CASE UNCHANGED vars
  BY <1>1, <1>2 DEF vars, rows, RoleInv, OneWriter, Writing, GroupsBorn, MayHold, KnowsRoles,
                    Live, RolesGoWithMembership
<1>3. ASSUME NEW r \in Requests, Step(r) PROVE RoleInv'
  <2>1. OneWriter' /\ GroupsBorn'
    BY <1>3, OneWriterStep, GroupsBornStep DEF RoleInv
  <2>2. \A q \in Requests : MayHold(q)' /\ KnowsRoles(q)'
    BY <1>3, MayHoldStep, KnowsRolesStep
  <2> QED
    BY <1>1, <1>3, <2>1, <2>2, RolesGoStep DEF RoleInv
<1> QED
  BY <1>2, <1>3 DEF Next

(* Roles go with the membership, for any number of handlers: nobody about whom requests
   do not overlap holds a role in an organization they are not a member of. *)
THEOREM LeaversHoldNoRole == Spec => []RolesGoWithMembership
<1>1. RoleInv => RolesGoWithMembership
  BY DEF RoleInv
<1> QED
  BY <1>1, RoleInvInit, RoleInvNext, PTL DEF Spec

-----------------------------------------------------------------------------
(* Verdicts *)

\* An open question has seen every role and grant there is now; what it saw all along is still there.
Seen(r) ==
  Open(r) => /\ RoleNow(tx[r]) \subseteq watch[r].role
             /\ GrantNow(tx[r]) \subseteq watch[r].grant
             /\ watch[r].always \subseteq RoleNow(tx[r]) \cap GrantNow(tx[r])

\* The groups a handler works with are in scope, were seen and leave out none that always entitled.
Sound(r) ==
  /\ tx[r].at = "fresh" => watch[r].always = {}
  /\ tx[r].at = "asked" /\ tx[r].org # None =>
       tx[r].known \subseteq Scope(tx[r]) /\ watch[r].always \subseteq tx[r].known
  /\ tx[r].at = "weighing" =>
       /\ tx[r].held \subseteq Scope(tx[r]) \cap watch[r].role
       /\ watch[r].always \subseteq tx[r].held

Earned(r) ==
  /\ tx[r].at = "admitted" => tx[r].actor \in Admins \/ watch[r].role \cap watch[r].grant # {}
  /\ tx[r].at = "refused" => watch[r].always = {}

VerdictInv == Typed /\ \A r \in Requests : Seen(r) /\ Sound(r) /\ Earned(r)

\* An observation starts with what holds, only adds to what was seen and takes from what always was.
LEMMA Observing ==
  ASSUME Observe, NEW r \in Requests
  PROVE  /\ Seen(r)'
         /\ ~Open(r)' => watch'[r] = watch[r]
         /\ Open(r) /\ Open(r)' => /\ watch[r].role \subseteq watch'[r].role
                                   /\ watch'[r].always \subseteq watch[r].always
<1>1. watch'[r] = IF ~Open(r)' THEN watch[r]
                  ELSE IF Open(r) THEN Also(watch[r], Now(tx[r])') ELSE Now(tx[r])'
  BY DEF Observe
<1>2. Seen(r)'
  BY <1>1 DEF Seen, Also, Now
<1> QED
  BY <1>1, <1>2 DEF Also

\* Whoever is not served keeps a sound question and an earned verdict.
LEMMA VerdictStays ==
  ASSUME VerdictInv, Observe, NEW q \in Requests, tx'[q] = tx[q]
  PROVE  Sound(q)' /\ Earned(q)'
<1>1. Sound(q) /\ Earned(q)
  BY DEF VerdictInv
<1>2. CASE Open(q)
  BY <1>1, <1>2, Observing DEF Open, Sound, Earned, Scope
<1>3. CASE ~Open(q)
  <2>1. watch'[q] = watch[q]
    BY <1>3, Observing DEF Open
  <2> QED
    BY <1>1, <1>3, <2>1 DEF Open, Sound, Earned
<1> QED
  BY <1>2, <1>3

LEMMA VerdictStep ==
  ASSUME VerdictInv, Observe, NEW r \in Requests, Step(r)
  PROVE  Sound(r)' /\ Earned(r)'
<1>0. Typed /\ TxOK /\ RowsOK /\ Seen(r) /\ Sound(r)
  BY DEF VerdictInv, Typed
<1>1. CASE Ask(r)
  <2> DEFINE asked(u, o, route) ==
               [at |-> "asked", actor |-> u, org |-> o, route |-> route,
                known |-> {g \in Groups : Live(g) /\ InScope(g, o)}]
             refused(u) == [at |-> "refused", actor |-> u]
  <2>5. PICK u \in Users, o \in Orgs \cup {None}, route \in Routes :
          Goto(r, asked(u, o, route)) \/ Goto(r, refused(u))
    BY <1>1 DEF Ask
  <2>6. asked(u, o, route).at = "asked" /\ refused(u).at = "refused"
    OBVIOUS
  <2>1. \/ tx'[r] = asked(u, o, route) /\ Open(r)'
        \/ tx'[r] = refused(u) /\ ~Open(r)'
    <3> HIDE DEF asked, refused
    <3> QED
      BY <1>0, <2>5, <2>6 DEF Goto, TxOK, Open
  <2>2. tx[r].at = "fresh" /\ UNCHANGED rows
    BY <1>1 DEF Ask
  <2>3. CASE tx'[r].at = "refused"
    BY <1>0, <2>1, <2>2, <2>3, Observing DEF Sound, Earned, Open
  <2>4. CASE tx'[r].at = "asked"
    <3>1. /\ tx'[r].org = o /\ tx'[r].actor = u
          /\ tx'[r].known = {g \in Groups : Live(g) /\ InScope(g, o)}
      BY <2>1, <2>4
    <3>2. \A g \in watch'[r].always : g \in Groups /\ (o = None \/ OrgOf[g] = o) /\ <<u, g>> \in role
      BY <2>1, <2>2, <2>4, <3>1, Observing DEF Seen, RoleNow, Scope, rows
    <3>3. \A g \in watch'[r].always : Live(g)
      BY <1>0, <3>2 DEF RowsOK
    <3>4. o # None => watch'[r].always \subseteq tx'[r].known /\ tx'[r].known \subseteq Scope(tx'[r])
      BY <3>1, <3>2, <3>3 DEF InScope, Scope
    <3> QED
      BY <2>4, <3>1, <3>4 DEF Sound, Earned, Scope
  <2> QED
    BY <2>1, <2>3, <2>4
<1>2. CASE ReadRoles(r)
  <2> DEFINE t == tx[r]
  <2>1. /\ t.at = "asked" /\ UNCHANGED rows /\ tx'[r].at = "weighing"
        /\ tx'[r].actor = t.actor /\ tx'[r].org = t.org
        /\ tx'[r].held = {g \in Groups : <<t.actor, g>> \in role /\ (t.org = None \/ g \in t.known)}
    BY <1>0, <1>2 DEF ReadRoles, Goto, TxOK
  <2>2. Open(r) /\ Open(r)'
    BY <2>1 DEF Open
  <2>3. \A g \in tx'[r].held : g \in Scope(tx'[r]) /\ <<t.actor, g>> \in role'
    BY <1>0, <2>1 DEF Sound, Scope, rows
  <2>4. tx'[r].held \subseteq watch'[r].role
    BY <2>1, <2>2, <2>3, Observing DEF Seen, RoleNow, Scope
  <2>5. \A g \in watch'[r].always : g \in Groups /\ <<t.actor, g>> \in role
    BY <2>1, <2>2, Observing DEF Seen, RoleNow, Scope, rows
  <2>6. t.org # None => watch'[r].always \subseteq t.known
    BY <1>0, <2>1, <2>2, Observing DEF Sound
  <2>7. watch'[r].always \subseteq tx'[r].held
    BY <2>1, <2>5, <2>6
  <2> QED
    BY <2>1, <2>3, <2>4, <2>7 DEF Sound, Earned, Scope
<1>3. CASE ReadGrants(r)
  <2> DEFINE t == tx[r]
             entitled == t.actor \in Admins \/ \E g \in t.held : Grants(g, t.route)
  <2>1. /\ t.at = "weighing"
        /\ tx'[r] = [at |-> IF entitled THEN "admitted" ELSE "refused", actor |-> t.actor]
    BY <1>0, <1>3 DEF ReadGrants, Goto, TxOK
  <2>2. /\ tx'[r].at = IF entitled THEN "admitted" ELSE "refused"
        /\ tx'[r].actor = t.actor
    BY <2>1
  <2>3. watch'[r] = watch[r]
    BY <2>2, Observing DEF Open
  <2>4. /\ \A g \in t.held : g \in Scope(t) /\ g \in watch[r].role
        /\ \A g \in watch[r].always : g \in t.held /\ Grants(g, t.route)
        /\ \A g \in Scope(t) : Grants(g, t.route) => g \in watch[r].grant
    BY <1>0, <2>1 DEF Sound, Seen, Open, GrantNow
  <2>5. entitled => t.actor \in Admins \/ watch[r].role \cap watch[r].grant # {}
    BY <2>4
  <2>6. ~entitled => watch[r].always = {}
    BY <2>4
  <2> HIDE DEF entitled
  <2> QED
    BY <2>2, <2>3, <2>5, <2>6 DEF Sound, Earned
<1>4. CASE tx'[r].at \notin {"fresh", "asked", "weighing", "admitted", "refused"}
  BY <1>4 DEF Sound, Earned
<1>5. Ask(r) \/ ReadRoles(r) \/ ReadGrants(r)
        \/ tx'[r].at \notin {"fresh", "asked", "weighing", "admitted", "refused"}
  <2>1. ASSUME Answer(r) PROVE tx'[r].at = "answered"
    BY <1>0, <2>1 DEF Answer, Goto, TxOK
  <2>2. CASE BeginAddMember(r)
    BY <1>0, <2>2 DEF BeginAddMember, Goto, TxOK
  <2>3. CASE BeginRemoveMember(r)
    BY <1>0, <2>3 DEF BeginRemoveMember, Goto, TxOK
  <2>4. CASE BeginAssign(r)
    BY <1>0, <2>4 DEF BeginAssign, Goto, TxOK
  <2>5. CASE BeginCreateUser(r)
    BY <1>0, <2>5 DEF BeginCreateUser, Goto, TxOK
  <2>6. CASE ResolveCode(r)
    BY <1>0, <2>6 DEF ResolveCode, Goto, TxOK
  <2>7. CASE SaveUser(r)
    BY <1>0, <2>7 DEF SaveUser, Goto, TxOK
  <2>8. CASE SaveMember(r)
    BY <1>0, <2>8 DEF SaveMember, Goto, TxOK
  <2> QED
    BY <2>1, <2>2, <2>3, <2>4, <2>5, <2>6, <2>7, <2>8
       DEF Step, CreateOrganization, DeleteOrganization, CreateGroup, DeleteGroup, Grant, Revoke,
           AddMember, RemoveMember, Assign, RemoveFromGroup, SaveRole, Fail
<1> QED
  BY <1>1, <1>2, <1>3, <1>4, <1>5

LEMMA VerdictInvInit == Init => VerdictInv
<1> SUFFICES ASSUME Init PROVE VerdictInv
  OBVIOUS
<1>1. \A r \in Requests : Seen(r) /\ Sound(r) /\ Earned(r)
  BY DEF Init, Seen, Open, Sound, Earned
<1> QED
  BY <1>1, TypedInit DEF VerdictInv

LEMMA VerdictInvNext == VerdictInv /\ [Next]_vars => VerdictInv'
<1> SUFFICES ASSUME VerdictInv, [Next]_vars PROVE VerdictInv'
  OBVIOUS
<1>1. Typed'
  BY TypedNext DEF VerdictInv
<1>2. CASE UNCHANGED vars
  BY <1>1, <1>2 DEF vars, rows, VerdictInv, Seen, Sound, Earned, Open, Scope, RoleNow, GrantNow,
                    Grants
<1>3. ASSUME NEW r \in Requests, Step(r), Observe PROVE VerdictInv'
  <2>1. ASSUME NEW q \in Requests PROVE Sound(q)' /\ Earned(q)'
    <3>1. CASE q = r
      BY <1>3, <3>1, VerdictStep
    <3>2. CASE q # r
      BY <1>3, <3>2, Moves, VerdictStays DEF VerdictInv
    <3> QED
      BY <3>1, <3>2
  <2>2. \A q \in Requests : Seen(q)'
    BY <1>3, Observing
  <2> QED
    BY <1>1, <2>1, <2>2 DEF VerdictInv
<1> QED
  BY <1>2, <1>3 DEF Next

(* No verdict is an accident of when the statements behind it ran: whoever is admitted was
   entitled through one group while the question was open, and whoever is refused was not
   entitled throughout, for any number of handlers changing rows meanwhile. *)
THEOREM VerdictsHold == Spec => []VerdictsAreEarned
<1>1. VerdictInv => VerdictsAreEarned
  BY DEF VerdictInv, Earned, VerdictsAreEarned
<1> QED
  BY <1>1, VerdictInvInit, VerdictInvNext, PTL DEF Spec
=============================================================================
