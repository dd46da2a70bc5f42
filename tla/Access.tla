------------------------------- MODULE Access -------------------------------
(***************************************************************************)
(* Who may do what: organizations, their members, permission groups with   *)
(* the users in them and the permissions granted to them, the accounts     *)
(* createUser provisions, and the questions the permission guard and the   *)
(* services ask of all this before they let a request through.             *)
(*                                                                         *)
(* A role (a row of user_groups) hangs on a group, not on a membership: no *)
(* foreign key takes it away when its user leaves the organization.        *)
(*                                                                         *)
(* A handler is a process; each step is one statement or one transaction,  *)
(* and other requests run between any two.                                 *)
(***************************************************************************)
EXTENDS Integers, FiniteSets

CONSTANTS
  Users, Admins,
  Overlapping,  \* users about whom several requests may be served at once
  Orgs, Groups,
  OrgOf,        \* [Groups -> Orgs], the organization a group is created in
  Permissions,
  Routes,       \* the sets of permissions any one of which admits to a route
  Requests,     \* each is served once
  Emails,
  Codes,        \* the codes a name leads to, in the order they are tried
  Opening,      \* rows at the start
  None

VARIABLES
  life,     \* [Orgs \cup Groups -> Life], rows of organizations and org_groups
  account,  \* [Users -> Account \cup {None}], users.email and users.code
  member,   \* users_orgs
  role,     \* user_groups
  grant,    \* group_permissions
  tx,       \* [Requests -> Tx]
  watch     \* [Requests -> Watch], what was true while a question was open

rows == <<life, account, member, role, grant>>
vars == <<rows, tx, watch>>

-----------------------------------------------------------------------------
Life == {"unborn", "live", "deleted"}
Account == [email: Emails, code: Codes]

ASSUME AccessAssumption ==
  /\ Admins \subseteq Users
  /\ Overlapping \subseteq Users
  /\ OrgOf \in [Groups -> Orgs]
  /\ Orgs \cap Groups = {}
  /\ Routes \subseteq SUBSET Permissions
  /\ Codes \subseteq Nat
  /\ None \notin Account \cup Orgs

ASSUME OpeningAssumption ==
  /\ Opening.life \in [Orgs \cup Groups -> Life]
  /\ Opening.account \in [Users -> Account \cup {None}]
  /\ \A m \in Opening.member :
       /\ m \in Users \X Orgs
       /\ Opening.account[m[1]] # None
       /\ Opening.life[m[2]] = "live"
  /\ \A x \in Opening.role :
       /\ x \in Users \X Groups
       /\ <<x[1], OrgOf[x[2]]>> \in Opening.member
       /\ Opening.life[x[2]] = "live"
  /\ \A x \in Opening.grant : x \in Groups \X Permissions /\ Opening.life[x[1]] = "live"
  /\ \A g \in Groups : Opening.life[g] = "live" => Opening.life[OrgOf[g]] = "live"
  /\ \A u, w \in Users :
       LET a == Opening.account[u]
           b == Opening.account[w]
       IN u # w /\ a # None /\ b # None => a.email # b.email /\ a.code # b.code

\* Requests in flight; "about" is the user whose membership or roles they write.
Joining   == [at: {"add_member"}, about: Users, org: Orgs]
Leaving   == [at: {"remove_member"}, about: Users, org: Orgs, groups: SUBSET Groups]
Assigning == [at: {"assign"}, about: Users, group: Groups]
\* createUser past its checks; then with a code; then past each of its saves
Hashing   == [at: {"hash"}, about: Users, group: Groups, email: Emails]
Creating  == [at: {"save_user"}, about: Users, group: Groups, email: Emails, code: Codes]
Entering  == [at: {"save_member", "save_role"}, about: Users, group: Groups]
\* the guard (org = None) or a service: the groups in question; those of the actor; the verdict
Asking    == [at: {"asked"}, actor: Users, org: Orgs \cup {None}, route: Routes, known: SUBSET Groups]
Weighing  == [at: {"weighing"}, actor: Users, org: Orgs \cup {None}, route: Routes, held: SUBSET Groups]
Verdict   == [at: {"admitted", "refused"}, actor: Users]

Tx == [at: {"fresh", "answered"}] \cup Joining \cup Leaving \cup Assigning \cup
      Hashing \cup Creating \cup Entering \cup Asking \cup Weighing \cup Verdict

Watch == [role: SUBSET Groups, grant: SUBSET Groups, always: SUBSET Groups]

Writing(r) == tx[r].at \in {"add_member", "remove_member", "assign",
                            "hash", "save_user", "save_member", "save_role"}
Open(r) == tx[r].at \in {"asked", "weighing"}

Goto(r, t) == tx' = [tx EXCEPT ![r] = t]
Answer(r)  == Goto(r, [at |-> "answered"])

GroupsOf(o) == {g \in Groups : OrgOf[g] = o}
Live(x) == life[x] = "live"

\* Nothing else is being written about the user.
Alone(u) == u \in Overlapping \/ \A q \in Requests : Writing(q) => tx[q].about # u

-----------------------------------------------------------------------------
Init ==
  /\ life = Opening.life
  /\ account = Opening.account
  /\ member = Opening.member
  /\ role = Opening.role /\ grant = Opening.grant
  /\ tx = [r \in Requests |-> [at |-> "fresh"]]
  /\ watch = [r \in Requests |-> [role |-> {}, grant |-> {}, always |-> {}]]

(* Organizations and groups.  Each is one INSERT or DELETE whose foreign keys repeat the
   checks before it. *)
CreateOrganization(r) ==
  \E o \in Orgs :
    /\ tx[r].at = "fresh"
    /\ life[o] = "unborn"
    /\ life' = [life EXCEPT ![o] = "live"]
    /\ Answer(r)
    /\ UNCHANGED <<account, member, role, grant>>

\* ON DELETE CASCADE; (mutant) user_groups without it.
RolesKept(groups) == role
RolesWithout(groups) == {x \in role : x[2] \notin groups}

Erase(deleted, groups) ==
  /\ life' = [x \in Orgs \cup Groups |-> IF x \in deleted \cup groups THEN "deleted" ELSE life[x]]
  /\ member' = {m \in member : m[2] \notin deleted}
  /\ role' = RolesWithout(groups)
  /\ grant' = {x \in grant : x[1] \notin groups}
  /\ UNCHANGED account

DeleteOrganization(r) ==
  \E o \in Orgs :
    /\ tx[r].at = "fresh"
    /\ Live(o)
    /\ Erase({o}, {g \in GroupsOf(o) : Live(g)})
    /\ Answer(r)

CreateGroup(r) ==
  \E g \in Groups :
    /\ tx[r].at = "fresh"
    /\ life[g] = "unborn" /\ Live(OrgOf[g])
    /\ life' = [life EXCEPT ![g] = "live"]
    /\ Answer(r)
    /\ UNCHANGED <<account, member, role, grant>>

DeleteGroup(r) ==
  \E g \in Groups :
    /\ tx[r].at = "fresh"
    /\ Live(g)
    /\ Erase({}, {g})
    /\ Answer(r)

Grant(r) ==
  \E g \in Groups, p \in Permissions :
    /\ tx[r].at = "fresh"
    /\ Live(g)
    /\ grant' = grant \cup {<<g, p>>}
    /\ Answer(r)
    /\ UNCHANGED <<life, account, member, role>>

Revoke(r) ==
  \E x \in grant :
    /\ tx[r].at = "fresh"
    /\ grant' = grant \ {x}
    /\ Answer(r)
    /\ UNCHANGED <<life, account, member, role>>

-----------------------------------------------------------------------------
(* Members and roles *)

BeginAddMember(r) ==
  \E u \in Users, o \in Orgs :
    /\ tx[r].at = "fresh"
    /\ Live(o) /\ account[u] # None
    /\ <<u, o>> \notin member
    /\ Alone(u)
    /\ Goto(r, [at |-> "add_member", about |-> u, org |-> o])
    /\ UNCHANGED rows

AddMember(r) ==
  /\ tx[r].at = "add_member"
  /\ Live(tx[r].org)
  /\ member' = member \cup {<<tx[r].about, tx[r].org>>}
  /\ Answer(r)
  /\ UNCHANGED <<life, account, role, grant>>

\* removeMember lists the organization's groups before its transaction.
BeginRemoveMember(r) ==
  \E u \in Users, o \in Orgs :
    /\ tx[r].at = "fresh"
    /\ Alone(u)
    /\ Goto(r, [at |-> "remove_member", about |-> u, org |-> o,
                groups |-> {g \in GroupsOf(o) : Live(g)}])
    /\ UNCHANGED rows

\* (mutant) the membership alone
DroppedNone(u, groups) == role
Dropped(u, groups) == {x \in role : ~(x[1] = u /\ x[2] \in groups)}

RemoveMember(r) ==
  LET m == <<tx[r].about, tx[r].org>>
  IN /\ tx[r].at = "remove_member"
     /\ m \in member
     /\ member' = member \ {m}
     /\ role' = Dropped(tx[r].about, tx[r].groups)
     /\ Answer(r)
     /\ UNCHANGED <<life, account, grant>>

BeginAssign(r) ==
  \E u \in Users, g \in Groups :
    /\ tx[r].at = "fresh"
    /\ Live(g)
    /\ <<u, OrgOf[g]>> \in member
    /\ <<u, g>> \notin role
    /\ Alone(u)
    /\ Goto(r, [at |-> "assign", about |-> u, group |-> g])
    /\ UNCHANGED rows

Assign(r) ==
  /\ tx[r].at = "assign"
  /\ Live(tx[r].group)
  /\ role' = role \cup {<<tx[r].about, tx[r].group>>}
  /\ Answer(r)
  /\ UNCHANGED <<life, account, member, grant>>

RemoveFromGroup(r) ==
  \E x \in role :
    /\ tx[r].at = "fresh"
    /\ Alone(x[1])
    /\ role' = role \ {x}
    /\ Answer(r)
    /\ UNCHANGED <<life, account, member, grant>>

-----------------------------------------------------------------------------
(* Provisioning *)

Taken(column, x) == \E u \in Users : account[u] # None /\ account[u][column] = x

\* A new id: no row and no request has it.
Unused(u) == account[u] = None /\ \A q \in Requests : Writing(q) => tx[q].about # u

BeginCreateUser(r) ==
  \E u \in Users, g \in Groups, e \in Emails :
    /\ tx[r].at = "fresh"
    /\ Unused(u)
    /\ Live(g)
    /\ ~Taken("email", e)
    /\ Goto(r, [at |-> "hash", about |-> u, group |-> g, email |-> e])
    /\ UNCHANGED rows

\* resolveUserCode: the code asked for if it is free, or the first free one of those derived.
ResolveCode(r) ==
  /\ tx[r].at = "hash"
  /\ \E c \in Codes :
       /\ ~Taken("code", c)
       /\ Goto(r, [at |-> "save_user", about |-> tx[r].about, group |-> tx[r].group,
                   email |-> tx[r].email, code |-> c])
  /\ UNCHANGED rows

\* The unique indexes of users; (mutant) none on the code.
UniqueEmail(t) == ~Taken("email", t.email)
Unique(t) == ~Taken("email", t.email) /\ ~Taken("code", t.code)

SaveUser(r) ==
  LET t == tx[r]
  IN /\ t.at = "save_user"
     /\ Unique(t)
     /\ account' = [account EXCEPT ![t.about] = [email |-> t.email, code |-> t.code]]
     /\ Goto(r, [at |-> "save_member", about |-> t.about, group |-> t.group])
     /\ UNCHANGED <<life, member, role, grant>>

SaveMember(r) ==
  LET t == tx[r]
  IN /\ t.at = "save_member"
     /\ Live(OrgOf[t.group])
     /\ member' = member \cup {<<t.about, OrgOf[t.group]>>}
     /\ Goto(r, [at |-> "save_role", about |-> t.about, group |-> t.group])
     /\ UNCHANGED <<life, account, role, grant>>

SaveRole(r) ==
  /\ tx[r].at = "save_role"
  /\ Live(tx[r].group)
  /\ role' = role \cup {<<tx[r].about, tx[r].group>>}
  /\ Answer(r)
  /\ UNCHANGED <<life, account, member, grant>>

\* A handler that finds its check or a constraint failed, or dies with its process.
Fail(r) ==
  /\ Writing(r)
  /\ Answer(r)
  /\ UNCHANGED rows

-----------------------------------------------------------------------------
(* Questions: PermissionsGuard asks of any organization, a service of its own *)

\* (mutant) the groups of every organization
InAnyOrg(g, o) == TRUE
InScope(g, o) == o = None \/ OrgOf[g] = o

\* assertOrgMembership
Belongs(u, o) == o = None \/ u \in Admins \/ <<u, o>> \in member

Ask(r) ==
  \E u \in Users, o \in Orgs \cup {None}, route \in Routes :
    /\ tx[r].at = "fresh"
    /\ account[u] # None
    /\ IF Belongs(u, o)
       THEN Goto(r, [at |-> "asked", actor |-> u, org |-> o, route |-> route,
                     known |-> {g \in Groups : Live(g) /\ InScope(g, o)}])
       ELSE Goto(r, [at |-> "refused", actor |-> u])
    /\ UNCHANGED rows

\* The guard's user_groups are not filtered by groups it knows: it reads them all.
ReadRoles(r) ==
  LET t == tx[r]
  IN /\ t.at = "asked"
     /\ Goto(r, [at |-> "weighing", actor |-> t.actor, org |-> t.org, route |-> t.route,
                 held |-> {g \in Groups : <<t.actor, g>> \in role /\ (t.org = None \/ g \in t.known)}])
     /\ UNCHANGED rows

Grants(g, route) == \E p \in route : <<g, p>> \in grant

ReadGrants(r) ==
  LET t == tx[r]
  IN /\ t.at = "weighing"
     /\ Goto(r, [at |-> IF t.actor \in Admins \/ \E g \in t.held : Grants(g, t.route)
                        THEN "admitted" ELSE "refused",
                 actor |-> t.actor])
     /\ UNCHANGED rows

-----------------------------------------------------------------------------
Step(r) ==
  \/ CreateOrganization(r) \/ DeleteOrganization(r)
  \/ CreateGroup(r) \/ DeleteGroup(r) \/ Grant(r) \/ Revoke(r)
  \/ BeginAddMember(r) \/ AddMember(r)
  \/ BeginRemoveMember(r) \/ RemoveMember(r)
  \/ BeginAssign(r) \/ Assign(r) \/ RemoveFromGroup(r)
  \/ BeginCreateUser(r) \/ ResolveCode(r) \/ SaveUser(r) \/ SaveMember(r) \/ SaveRole(r)
  \/ Fail(r)
  \/ Ask(r) \/ ReadRoles(r) \/ ReadGrants(r)

\* What holds of an open question in this state.
Scope(t)    == {g \in Groups : t.org = None \/ OrgOf[g] = t.org}
RoleNow(t)  == {g \in Scope(t) : <<t.actor, g>> \in role}
GrantNow(t) == {g \in Scope(t) : Grants(g, t.route)}
Now(t)      == [role |-> RoleNow(t), grant |-> GrantNow(t), always |-> RoleNow(t) \cap GrantNow(t)]

Also(w, now) == [role |-> w.role \cup now.role, grant |-> w.grant \cup now.grant,
                 always |-> w.always \cap now.always]

Observe ==
  watch' = [r \in Requests |->
    IF ~Open(r)' THEN watch[r] ELSE IF Open(r) THEN Also(watch[r], Now(tx[r])') ELSE Now(tx[r])']

Next == (\E r \in Requests : Step(r)) /\ Observe

Spec == Init /\ [][Next]_vars

-----------------------------------------------------------------------------
(* Properties *)

\* Rows, requests and observations have their types, and no foreign key dangles.
TypeOK ==
  /\ life \in [Orgs \cup Groups -> Life]
  /\ account \in [Users -> Account \cup {None}]
  /\ \A m \in member : m \in Users \X Orgs /\ account[m[1]] # None /\ Live(m[2])
  /\ \A x \in role : x \in Users \X Groups /\ account[x[1]] # None /\ Live(x[2])
  /\ \A x \in grant : x \in Groups \X Permissions /\ Live(x[1])
  /\ tx \in [Requests -> Tx]
  /\ watch \in [Requests -> Watch]

(* Nobody holds a role in an organization they are not, or no longer, a member of: a
   removal takes the roles along, a provisioning that dies half way leaves none
   (organization.service.ts:180-194, 473-479).  For users about whom requests do not
   overlap. *)
RolesGoWithMembership ==
  \A x \in role : x[1] \in Overlapping \/ <<x[1], OrgOf[x[2]]>> \in member

(* "User must be a member of the org first", and a removal drops the roles "or they would
   keep granting the org's permissions after leaving" (organization.service.ts:181-183, 241):
   no role without the membership, with any requests in flight. *)
EveryRoleHasAMember == \A x \in role : <<x[1], OrgOf[x[2]]>> \in member

(* A question is decided by statements at different moments while roles and grants change:
   still nobody is admitted but through one group of the organization in question that had
   them and had the permission some time while it was asked, and nobody refused whom one
   group entitled all along (organization.service.ts:317-352, permissions.guard.ts:49-59). *)
VerdictsAreEarned ==
  \A r \in Requests :
    /\ tx[r].at = "admitted" =>
         tx[r].actor \in Admins \/ watch[r].role \cap watch[r].grant # {}
    /\ tx[r].at = "refused" => watch[r].always = {}

(* No two accounts share an e-mail or a code, though both are looked up long before the
   row is saved (organization.service.ts:459-471, 1331-1345). *)
AccountsAreDistinct ==
  \A u, w \in Users :
    u # w /\ account[u] # None /\ account[w] # None =>
      account[u].email # account[w].email /\ account[u].code # account[w].code
=============================================================================
