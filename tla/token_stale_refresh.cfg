SPECIFICATION Spec
CONSTANTS
  p1 = p1
  p2 = p2
  p3 = p3
  Procs <- TwoProcs
  MaxVersion = 3
  FaultBudget = 0
  LossBudget = 0
INVARIANTS SpendsTheLiveToken
