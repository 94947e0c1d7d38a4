SPECIFICATION FairSpec
CONSTANTS
  Call = {t1, s1}
  OneWay = {s1}
  Key = {k1}
  Closer = {c1}
  Callback = {h}
  Handler = h
  None = None
PROPERTIES CallsReturn CloseReturns CloseReleasesCalls SlowWriteHoldsOne
CHECK_DEADLOCK FALSE
