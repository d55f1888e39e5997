SPECIFICATION Spec
CONSTANTS
  Requests = {r1, r2}
  Root = Root
  OwnOnly = {a}
  Shared = {s}
  MaxTabs = 3
  MaxCommands = 3
SYMMETRY Symmetry
CHECK_DEADLOCK FALSE
INVARIANT ActiveIsOpen
