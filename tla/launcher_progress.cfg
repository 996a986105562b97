SPECIFICATION ProgressSpec
CONSTANTS
  Runners <- TwoRunners
  MaxRunners = 1
  IDFromCreate = TRUE
  JobBudget = 1
  FaultBudget = 1
  LossBudget = 0
  PassBudget = 0
  EndBudget = 1
PROPERTIES
  DemandServedUndisturbed
  ShutdownCompletes
  CleanupConverges
