SPECIFICATION Spec
CONSTANTS
  MaxCount = 4
  Capacity = 2
  Window = 2
  RegressionAsReset = TRUE
  NoPath = NoPath
  Paths = {}
  Observations <- MixedEvidence
INVARIANTS
  TypeOK
  AccountingMatchesEvidence
  NeverAppliedTwice
  RetainedAboveFolded
  RefusedOnlyBelowEvidence
  ArrivalOrderIrrelevant
  CapacityIrrelevant
PROPERTIES
  NeverOutOfOrder
