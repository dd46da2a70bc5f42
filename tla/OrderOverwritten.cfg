\* A line is settled while its order enters the warehouse.
SPECIFICATION Spec
CONSTANTS
  quiet = quiet busy = busy a = a b = b c = c d = d
  r1 = r1 r2 = r2 r3 = r3 t1 = t1 t2 = t2 None = None Gone = Gone
  Orders <- JustBusy
  LinesOf <- BusyTwo
  Overlapping <- JustBusy
  Requests <- ThreeReqs
  Trackings <- BothRefs
  Qtys <- One
PROPERTY ResolvedLinesLeft
CHECK_DEADLOCK FALSE
