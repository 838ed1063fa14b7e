SPECIFICATION ASpec
CONSTANTS
  MaxWord = 15
  Now = 2
  FreshWindow = 0
  ExpiryEnabled = FALSE
  IdleAfter = 1
  ExpireAfter = 1
  AbsoluteTolerance = 1
  RelativePpm = 0
  HigherAuthorityResolves = TRUE
  RequireReconfirmation = FALSE
  MaxResultSet = 6
  QueuesPerSource = 1
  None = None
  Generations <- MCGenerations
  Policies <- MCPolicies
INVARIANTS
  SharesSumToTotal
  LargestRemainder
  PublishesTrustedTotals
