SPECIFICATION Spec
CONSTANTS
  Call = {t1, t2}
  OneWay = {}
  Key = {k1, k2}
  Closer = {c1, c2}
  Callback = {}
  Handler = h
  None = None
SYMMETRY Symmetry
INVARIANTS OneResult NoAbandonedEntry KeyMatched WriteExclusive NoWaiterAfterDone
PROPERTIES ImplementsRequests
CHECK_DEADLOCK FALSE
