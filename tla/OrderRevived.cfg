\* An order is saved by a request that loaded it before it was cancelled.
SPECIFICATION Spec
CONSTANTS
  quiet = quiet busy = busy a = a b = b c = c d = d
  r1 = r1 r2 = r2 r3 = r3 t1 = t1 t2 = t2 None = None Gone = Gone
  Orders <- JustBusy
  LinesOf <- BusyTwo
  Overlapping <- JustBusy
  Requests <- ThreeReqs
  Trackings <- BothRefs
  Qtys <- One
PROPERTY CancelledIsTerminal
CHECK_DEADLOCK FALSE
