SPECIFICATION Spec
CONSTANTS
  ConfigSetups <- Files
  DoctorSetups <- TwoHosts
  LaunchSetups <- ManyLaunches
  PortSetups <- FourPorts
  LoginSetups <- TwoLogins
  AppSetups <- TwoApps
  Off = Off
INVARIANTS
  ConfigIsCoherent
  VerdictIsSound
  LaunchesFit
  ConnectedIsUsable
CHECK_DEADLOCK FALSE
