SPECIFICATION Spec
CONSTANTS
  Workers = {w1, w2}
  Callers = {c1, c2}
  Observations = {o1, o2, o3}
  MaxPending = 2
  MaxBatch = 2
  MaxCalls = 2
  MaxOpens = 2
  MaxSpurious = 0
  NoThread = NoThread
CHECK_DEADLOCK FALSE
SYMMETRY Interchangeable
INVARIANTS
  ExactlyOnePlace
PROPERTIES
  CompletionBarrier
  ImplementsContract
