SPECIFICATION Spec
CONSTANTS
  MaxSources = 2
  MaxFlows = 2
  MaxGenerations = 2
  MaxPathHops = 1
  MaxQueues = 1
  MaxHistory = 1
  MaxAnomalies = 1
  MaxKeyBytes = 2
  MaxDetailBytes = 4
  MaxIngestRecords = 3
  DetailOverhead = 1
  QueuesPerSource = 1
  MaxDropped = 1
  MaxRestarts = 1
  MaxCalls = 2
  None = None
  KeyBytes <- Keys
  UnregisteredKey <- MadeUp
  Descriptors <- Registered
  Observations <- Evidence
CHECK_DEADLOCK FALSE
INVARIANT
  EncodedIsReadable
