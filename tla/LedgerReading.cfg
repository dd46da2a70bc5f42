\* Pages, summaries, reports and day closings of a ledger that goes on growing.
SPECIFICATION Spec
CONSTANTS
  ann = ann bob = bob east = east west = west
  r1 = r1 r2 = r2 r3 = r3 v1 = v1 None = None
  Users <- Both
  Orgs <- TwoOrgs
  Overlapping <- JustBob
  Requests <- Reqs
  OrgOf <- InOrgs
  Jobs <- TheJobs
  Opening <- OnTheBooks
  Ids <- SixIds
  MaxTime = 2
  DayLength = 2
  Readers <- OneReader
  Scopes <- TheScopes
  Limit = 1
INVARIANTS
  TypeOK
  WalkTellsAll
  SummariesAgree
  DaysClose
CHECK_DEADLOCK FALSE
