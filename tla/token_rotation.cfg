SPECIFICATION FairSpec
CONSTANTS
  p1 = p1
  p2 = p2
  p3 = p3
  Procs <- ThreeProcs
  MaxVersion = 3
  FaultBudget = 2
  LossBudget = 1
INVARIANTS
  LivePairKept
PROPERTIES
  TokensHandedOutAreLive
  SidecarNeverRegresses
  EventuallySaved
