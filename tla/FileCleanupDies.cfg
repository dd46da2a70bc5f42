\* A clean-up that fails between a row and its object.
SPECIFICATION Spec
CONSTANTS
  topUp = topUp other = other parcel = parcel r1 = r1 r2 = r2 r3 = r3 None = None
  Bills <- JustTopUp
  Labels <- NoOwner
  Requests <- ThreeRequests
  Overlapping <- NoOwner
  MaxMishaps = 1
PROPERTY OnePassDropsBoth
CHECK_DEADLOCK FALSE
