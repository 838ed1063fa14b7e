SPECIFICATION Spec
CONSTANTS
  Runtimes = {r1}
  Observations = {o1, o2, o3}
  Files = {f1, f2}
  NoFile = NoFile
  NoOne = NoOne
  MaxBytes = 4
  HeaderSize = 1
  MaxSnapshot = 3
  TruncateTornTail = TRUE
  MaxCrashes = 2
  MaxFaults = 1
  MaxEpoch = 3
CHECK_DEADLOCK FALSE
SYMMETRY Interchangeable
INVARIANTS
  RecoveryIsPrefix
  FlushedIsRecovered
  JournalHoldsLive
PROPERTIES
  EpochsIncrease
