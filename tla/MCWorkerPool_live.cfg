SPECIFICATION Spec
CONSTANTS
  Workers = {w1, w2}
  Callers = {c1, c2}
  Observations = {o1, o2}
  MaxPending = 2
  MaxBatch = 1
  MaxCalls = 1
  MaxOpens = 1
  MaxSpurious = 1
  NoThread = NoThread
CHECK_DEADLOCK FALSE
PROPERTIES
  QueuedIsTaken
  CallsReturn
