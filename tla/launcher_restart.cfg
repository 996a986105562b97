SPECIFICATION FaultsSpec
CONSTANTS
  Runners <- TwoRunners
  MaxRunners = 1
  IDFromCreate = TRUE
  JobBudget = 1
  FaultBudget = 1
  LossBudget = 0
  PassBudget = 1
  EndBudget = 1
INVARIANTS
  CapacityRespected
  RegistrationsDiscoverable
  GaugeExact
  ReconcileSparesTracked
  ShutdownLeavesNothing
PROPERTIES
  TerminateBeforeRelease
