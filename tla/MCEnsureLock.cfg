SPECIFICATION Spec
CONSTANTS
  Clis = {c1, c2}
  MaxServers = 2
CHECK_DEADLOCK FALSE
INVARIANT LockExcludes
