SPECIFICATION Spec
CONSTANTS
  p1 = p1
  p2 = p2
  NoNode = NoNode
  Scan <- MCScan
  MaxSlot = 2
  MaxFaults = 2
  MaxChanges = 1
INVARIANTS
  OpenedIsOwned
  EnumerationIsExact
  FirstIsSelected
CHECK_DEADLOCK FALSE
