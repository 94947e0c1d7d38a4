SPECIFICATION Spec
CONSTANTS
  Handle = {h1, h2}
  Index = {1, 2, 3}
  Matching = {1, 2}
  Target = {a1, a2}
  QueueCap = 2
  MaxSessions = 2
  MaxEvents = 4
  None = None
SYMMETRY Symmetry
INVARIANTS SessionsClosed NoHalfTarget ResumeNotLost 
CHECK_DEADLOCK FALSE
