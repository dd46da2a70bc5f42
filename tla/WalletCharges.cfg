\* Three requests over an order and a shipment, owners of their own and of each other's groups.
SPECIFICATION FairSpec
CONSTANTS
  ann = ann bob = bob order = order parcel = parcel
  r1 = r1 r2 = r2 r3 = r3 r4 = r4 None = None
  Users <- BothUsers
  ProfileUsers <- JustBob
  Targets <- TwoTargets
  Orders <- OneOrder
  Client <- TheirTargets
  OwnersOf <- EachOther
  Requests <- ThreeReqs
  Opening <- Funded
  Rates <- ZeroTwo
  Qtys <- One
  Prices <- One
  Corrections <- Minus
INVARIANTS
  TypeOK
  NoOverdraft
  LedgerExplainsCredit
  LiveFeeBilled
  LockedHasFee
PROPERTIES
  WalletKeepsBooks
  BooksAppendOnly
  EveryRequestAnswered
CHECK_DEADLOCK FALSE
