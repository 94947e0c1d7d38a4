SPECIFICATION FairSpec
CONSTANTS
  Button <- MCButton
  Key = {"ctrl", "c"}
  Settings <- MCSettings
  Motion <- MCMotion
  Axis = {"wheel"}
  Delta = {1}
  Unit = 1
  MaxStarts = 2
  Stopper = {p, q}
INVARIANTS HeldIsDown HeldIsWanted ClosedIsReleased
PROPERTIES StopReturns
CHECK_DEADLOCK FALSE
