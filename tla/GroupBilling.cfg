\* Two credit groups, two users, fees of one and two, two handlers at a time.
SPECIFICATION Spec
CONSTANTS
  gold = gold silver = silver ann = ann bob = bob r1 = r1 r2 = r2 None = None
  Groups <- TwoGroups
  Users <- TwoUsers
  Requests <- TwoRequests
  Amounts <- OneTwo
SYMMETRY Symmetry
INVARIANTS
  TypeOK
  OneGroupPerClient
  NothingOutlivesItsGroup
  EveryMarkupHasAPayee
