\* A shipment is saved by a request that loaded it before another one closed it.
SPECIFICATION Spec
CONSTANTS
  a = a b = b box = box crate = crate
  r1 = r1 r2 = r2 r3 = r3 None = None
  Lines <- BothLines
  EditedLines <- NoOne
  Shipments <- JustS
  Overlapping <- JustS
  Requests <- ThreeReqs
  Qtys <- One
PROPERTY ClosedIsTerminal
CHECK_DEADLOCK FALSE
