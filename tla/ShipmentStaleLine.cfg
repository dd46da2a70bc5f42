\* The order side saves a line that a shipment draws from meanwhile.
SPECIFICATION Spec
CONSTANTS
  a = a b = b box = box crate = crate
  r1 = r1 r2 = r2 r3 = r3 None = None
  Lines <- JustA
  EditedLines <- JustA
  Shipments <- JustS
  Overlapping <- NoOne
  Requests <- TwoReqs
  Qtys <- OneTwo
INVARIANT ShippedViaLockedShipments
CHECK_DEADLOCK FALSE
