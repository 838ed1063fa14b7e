SPECIFICATION Spec
CONSTANTS
  Runtimes = {r1}
  Observations = {o1, o2}
  Files = {f1, f2}
  NoFile = NoFile
  NoOne = NoOne
  MaxBytes = 6
  HeaderSize = 1
  MaxSnapshot = 1
  TruncateTornTail = TRUE
  MaxCrashes = 1
  MaxFaults = 0
  MaxEpoch = 3
CHECK_DEADLOCK FALSE
SYMMETRY Interchangeable
INVARIANTS
  FlushedSurvives
