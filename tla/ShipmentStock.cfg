\* Three requests over two shipments that draw on the same two lines, one of them edited.
SPECIFICATION Spec
CONSTANTS
  a = a b = b box = box crate = crate
  r1 = r1 r2 = r2 r3 = r3 None = None
  Lines <- BothLines
  EditedLines <- JustB
  Shipments <- BothShips
  Overlapping <- NoOne
  Requests <- ThreeReqs
  Qtys <- OneTwo
SYMMETRY Symmetry
INVARIANTS
  TypeOK
  NeverOverShipped
  LockedLinesStand
  StockMatchesShipments
  NeverStuck
PROPERTIES
  StockIsAShelf
CHECK_DEADLOCK FALSE
