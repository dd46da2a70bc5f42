\* Two re-uploads for one top-up at the same time.
SPECIFICATION Spec
CONSTANTS
  topUp = topUp other = other parcel = parcel r1 = r1 r2 = r2 r3 = r3 None = None
  Bills <- JustTopUp
  Labels <- NoOwner
  Requests <- ThreeRequests
  Overlapping <- JustTopUp
  MaxMishaps = 0
PROPERTY ReuploadDropsPrevious
CHECK_DEADLOCK FALSE
