\* Two voids of one fee, both past the check of voided_at.
SPECIFICATION Spec
CONSTANTS
  ann = ann bob = bob order = order parcel = parcel
  r1 = r1 r2 = r2 r3 = r3 r4 = r4 None = None
  Users <- BothUsers
  ProfileUsers <- NoUsers
  Targets <- OneOrder
  Orders <- OneOrder
  Client <- AnnsOrder
  OwnersOf <- BobOwns
  Requests <- FourReqs
  Opening <- Funded
  Rates <- Free
  Qtys <- One
  Prices <- One
  Corrections <- Minus
INVARIANT VoidedFeesNetOut
CHECK_DEADLOCK FALSE
