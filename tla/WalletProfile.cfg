\* A profile edit around a top-up.
SPECIFICATION Spec
CONSTANTS
  ann = ann bob = bob order = order parcel = parcel
  r1 = r1 r2 = r2 r3 = r3 r4 = r4 None = None
  Users <- BothUsers
  ProfileUsers <- JustBob
  Targets <- NoTargets
  Orders <- NoTargets
  Client <- NoClients
  OwnersOf <- BobOwns
  Requests <- ThreeReqs
  Opening <- Funded
  Rates <- OneTwo
  Qtys <- One
  Prices <- One
  Corrections <- Minus
INVARIANT EveryChangeMirrored
CHECK_DEADLOCK FALSE
