SPECIFICATION Spec
CONSTANTS
  Requests = {r1, r2}
  Root = Root
  OwnOnly = {a}
  Shared = {s}
  MaxTabs = 3
  MaxCommands = 4
CHECK_DEADLOCK FALSE
INVARIANT PinsAreUndone
