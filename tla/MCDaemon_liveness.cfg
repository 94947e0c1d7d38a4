SPECIFICATION FairSpec
CONSTANTS
  Handle = {h1, h2}
  Index = {1, 2}
  Matching = {1}
  Target = {a1}
  QueueCap = 1
  MaxSessions = 2
  MaxEvents = 2
  None = None
PROPERTIES CancelReturns ResumeReconnects TargetConfigured
CHECK_DEADLOCK FALSE
