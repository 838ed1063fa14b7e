SPECIFICATION Spec
CONSTANTS
  FreshWindow = 0
  ExpiryEnabled = TRUE
  IdleAfter = 0
  ExpireAfter = 1
  AbsoluteTolerance = 1
  RelativePpm = 0
  HigherAuthorityResolves = TRUE
  Sources = {1, 2}
  Observations <- Evidence
  Descriptor <- OneDescriptorEach
  Retirable = {1}
  MaxSkew = 1
  MaxTime = 3
  MaxLog = 2
  MaxRetirements = 1
  MaxCompactions = 1
  MaxRestarts = 1
CHECK_DEADLOCK FALSE
INVARIANTS
  TickDeniesStaleLiveness
PROPERTIES
  LivenessNotResurrected
  TerminalIsFinal
  TerminationSurvivesRestart
  RestartKeepsEvidence
