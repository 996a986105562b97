SPECIFICATION Spec
CONSTANTS
  Runners <- ThreeRunners
  MaxRunners = 2
  IDFromCreate = TRUE
  JobBudget = 2
  FaultBudget = 0
  LossBudget = 1
  PassBudget = 0
  EndBudget = 1
INVARIANTS
  NoIdleSurplus
PROPERTIES
  StoppedCreatesNothing
