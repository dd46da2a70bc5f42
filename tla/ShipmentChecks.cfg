\* Shipments on which requests overlap draw on the same two lines, one of them edited.
SPECIFICATION Spec
CONSTANTS
  a = a b = b box = box crate = crate
  r1 = r1 r2 = r2 r3 = r3 None = None
  Lines <- BothLines
  EditedLines <- JustB
  Shipments <- BothShips
  Overlapping <- BothShips
  Requests <- ThreeReqs
  Qtys <- OneTwo
SYMMETRY Symmetry
INVARIANTS
  NeverOverShipped
  LockedLinesStand
CHECK_DEADLOCK FALSE
