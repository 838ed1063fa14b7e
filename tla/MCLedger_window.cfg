SPECIFICATION Spec
CONSTANTS
  MaxCount = 4
  Capacity = 1
  Window = 2
  RegressionAsReset = TRUE
  NoPath = NoPath
  Paths = {}
  Observations <- ConsecutiveEvidence
INVARIANT DuplicateIsExact
