SPECIFICATION FairSpec
CONSTANTS
  PoolSetups <- LivePools
  ScalerSetups <- LiveScalers
  PollSetups <- LivePolls
  SessionSetups <- AllSessions
  ServiceSetups <- LiveServices
  Off = Off
  None = None
PROPERTIES
  EachKeepsServing
  QueuedJobsAreServed
  FailuresAreRetried
  StopEnds
