\* Three activities of two transactions, a listener for each, a sweep of two rows at
\* a time, one fault.
SPECIFICATION FairSpec
CONSTANTS
  lock = lock paid = paid placed = placed
  w1 = w1 w2 = w2 s1 = s1 ann = ann bob = bob None = None
  Activities <- AllActivities
  Writers <- BothWriters
  RowsOf <- TheirRows
  CreatedAt <- TheirTimes
  Actor <- Actors
  Subject <- Subjects
  StaffHear <- ForStaff
  Users <- AllUsers
  Sweeps <- OneSweep
  SweepBatch = 2
  MaxFaults = 1
INVARIANTS
  TypeOK
  ClaimsStand
PROPERTIES
  InboxIsAMailbox
  EveryActivityTold
CHECK_DEADLOCK FALSE
