SPECIFICATION MCSpec
CONSTANTS
  o1 = o1  p1 = p1  other = other  handO = handO  handP = handP
  Launches = {o1, p1}
  Owned = {o1}
  Bystanders = {handO, handP, other}
  NameOf <- MCNameOf
  ScopeOf <- MCScopeOf
  Mine = "mine"
  MaxFaults = 4
  VMs = {"v1", "v2"}
  OwnedVMs = {"v1"}
  Pids = {1, 2}
  Addrs = {"a"}
  Crashes = 1
  VMFaults = 2
INVARIANTS
  BystandersUnharmed
  KilledIsGone
  VMRecordsAreSafe
PROPERTIES
  KeepsContract
  VMKeepsContract
  LeftoversAreCollected
CHECK_DEADLOCK FALSE
