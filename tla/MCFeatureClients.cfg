SPECIFICATION Spec
CONSTANTS
  Job <- MCJob
  Threshold = {5, 255}
  Torque = {0, 8}
  MaxTorque = 100
  MaxFaults = 2
  MaxPresses = 2
  MaxValues = 5
  MaxWords = 8
INVARIANTS
  UnsetIsKept
  RestoredExactly
  NearestIsSet
CHECK_DEADLOCK FALSE
