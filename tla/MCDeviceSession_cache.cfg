SPECIFICATION FairSpec
CONSTANTS
  Feature = {f, g}
  User = {u, v}
  MaxLives = 2
  MaxWire = 2
  None = None
INVARIANTS CacheIsRight
PROPERTIES LookupsReturn ResetReturns
CHECK_DEADLOCK FALSE
