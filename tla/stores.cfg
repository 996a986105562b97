SPECIFICATION Spec
CONSTANTS
  StoreSetups <- TwoStores
  ServerSetups <- OneServer
  MirrorSetups <- OneMirror
  EnvSetups <- TwoEnvs
  GoldenSetups <- OneGolden
  PlanSetups <- OnePlan
  Off = Off
INVARIANTS
  ArchivesAreWhole
  AccessIsGranted
  GitCacheIsSafe
PROPERTIES
  RemovalsAreDue
  GoldenIsMaintained
CHECK_DEADLOCK FALSE
