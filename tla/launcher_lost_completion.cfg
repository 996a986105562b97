SPECIFICATION FairSpec
CONSTANTS
  Runners <- ThreeRunners
  MaxRunners = 1
  IDFromCreate = TRUE
  JobBudget = 2
  FaultBudget = 0
  LossBudget = 1
  PassBudget = 0
  EndBudget = 0
PROPERTIES
  DemandServed
