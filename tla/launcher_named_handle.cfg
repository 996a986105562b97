SPECIFICATION Spec
CONSTANTS
  Runners <- TwoRunners
  MaxRunners = 1
  IDFromCreate = FALSE
  JobBudget = 1
  FaultBudget = 1
  LossBudget = 0
  PassBudget = 1
  EndBudget = 0
PROPERTIES
  TerminateBeforeRelease
