SPECIFICATION MCSpec
CONSTANTS
  Clis = {c1, c2}
  MaxServers = 2
  Requests = {r1, r2}
  MaxTunnels = 3
CHECK_DEADLOCK FALSE
INVARIANTS
  ExclusiveUntilRobbed
  NoLockLeftBehind
  
  
PROPERTIES
  
  DeadTunnelIsForgotten
