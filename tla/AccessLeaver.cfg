\* A member is removed while somebody gives them a role.
SPECIFICATION Spec
CONSTANTS
  ann = ann bob = bob new = new other = other east = east west = west
  clerks = clerks chiefs = chiefs read = read
  r1 = r1 r2 = r2 r3 = r3 r4 = r4 None = None
  Users <- FourUsers
  Admins <- Nobody
  Overlapping <- JustBob
  Orgs <- TwoOrgs
  Groups <- TwoGroups
  OrgOf <- WhereGroups
  Permissions <- OnePermission
  Routes <- OneRoute
  Requests <- Reqs4
  Emails <- OneToFour
  Codes <- OneToThree
  Opening <- AtStart
SYMMETRY Perms
INVARIANT EveryRoleHasAMember
CHECK_DEADLOCK FALSE
