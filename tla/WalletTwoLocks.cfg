\* Two locks of one order, both past the check of locked.
SPECIFICATION Spec
CONSTANTS
  ann = ann bob = bob order = order parcel = parcel
  r1 = r1 r2 = r2 r3 = r3 r4 = r4 None = None
  Users <- BothUsers
  ProfileUsers <- NoUsers
  Targets <- OneOrder
  Orders <- OneOrder
  Client <- AnnsOrder
  OwnersOf <- BobOwns
  Requests <- ThreeReqs
  Opening <- Funded
  Rates <- OneTwo
  Qtys <- One
  Prices <- One
  Corrections <- Minus
INVARIANT OneLockFeePerTarget
CHECK_DEADLOCK FALSE
