SPECIFICATION RSpec
CONSTANTS
  MaxCount = 9
  Capacity = 2
  Window = 4
  RegressionAsReset = TRUE
  NoPath = NoPath
  Paths = {SomePath}
  SomePath = SomePath
  MaxRestarts = 2
  Observations <- RestartedSource
PROPERTIES
  SnapshotKeepsAccounting
  NothingCountedTwiceAcrossRestart
