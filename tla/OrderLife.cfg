\* Three requests over an order served row by row and an order where they overlap.
SPECIFICATION Spec
CONSTANTS
  quiet = quiet busy = busy a = a b = b c = c d = d
  r1 = r1 r2 = r2 r3 = r3 t1 = t1 t2 = t2 None = None Gone = Gone
  Orders <- BothOrders
  LinesOf <- TwoEach
  Overlapping <- JustBusy
  Requests <- ThreeReqs
  Trackings <- BothRefs
  Qtys <- OneTwo
SYMMETRY Symmetry
INVARIANTS
  TypeOK
  HandledOnlyOnceLocked
  HistoryTellsRows
  AlwaysALine
PROPERTIES
  ArrivalSettlesLines
  OrdersHaveALife
CHECK_DEADLOCK FALSE
