SPECIFICATION Spec
CONSTANTS
  NoEvent = NoEvent
  NoQuestion = NoQuestion
  Asked = {1}
  Keys = {"a", "collides with a", "b", "c"}
  Names = {"p", "collides with p", "q", "r"}
  IdOf <- MCIdOf
  NameId <- MCNameId
  Observations <- MCObservations
  Sources = {1, 2, 3}
  Retirable = {1}
  Decisions = {"Active", "Completed"}
  Terminal = {"Completed"}
  MaxSources = 2
  MaxFlows = 2
  MaxGenerations = 2
  MaxSourcesPerFlow = 1
  MaxHistory = 2
  Clamps = FALSE
  RequireCurrent = TRUE
  MaxTime = 2
  MaxEvents = 4
INVARIANTS
  TablesCoherent
  RingKeepsNewest
  HistoryExplainsState
  PagesPartition
PROPERTIES
  EvictionTakesOnlyFinished
