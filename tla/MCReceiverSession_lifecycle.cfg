SPECIFICATION FairSpec
CONSTANTS
  Slot = {s1, s2}
  Handle = {h1, h2}
  ReportsCap = 1
  InitCap = 1
  MaxReports = 2
  None = None
INVARIANTS TableIsLive ClosedIsRemoved
PROPERTIES RemovedIsFinal CloseReturns
CHECK_DEADLOCK FALSE
