SPECIFICATION Spec
CONSTANTS
  Workers = {w1}
  Callers = {c1}
  Observations = {o1}
  MaxPending = 1
  MaxBatch = 1
  MaxCalls = 0
  MaxOpens = 1
  MaxSpurious = 1
  NoThread = NoThread
CHECK_DEADLOCK FALSE
PROPERTIES
  StopReturns
