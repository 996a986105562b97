SPECIFICATION Spec
CONSTANTS
  PoolSetups <- SafePools
  ScalerSetups <- SafeScalers
  PollSetups <- SafePolls
  SessionSetups <- AllSessions
  ServiceSetups <- SafeServices
  Off = Off
  None = None
INVARIANTS
  RunsCleanUp
  LaunchesAreAuthorised
  PollsAreExact
  ReturnedIsOver
  RecoveryIsBounded
  HealthTellsTruth
