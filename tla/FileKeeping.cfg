\* Two top-ups and a shipment, three uploads or removals, overlapping on one top-up and the
\* shipment.
SPECIFICATION FairSpec
CONSTANTS
  topUp = topUp other = other parcel = parcel r1 = r1 r2 = r2 r3 = r3 None = None
  Bills <- TwoBills
  Labels <- TheLabel
  Requests <- ThreeRequests
  Overlapping <- Crowded
  MaxMishaps = 1
INVARIANTS
  TypeOK
  RowsHaveObjects
  NoDrift
PROPERTIES
  StaleFilesGo
CHECK_DEADLOCK FALSE
