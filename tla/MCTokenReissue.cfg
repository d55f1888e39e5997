SPECIFICATION Spec
CONSTANTS
  Clients = {c1, c2}
  MaxTokens = 3
INVARIANTS
  ReissueIsUnused
CHECK_DEADLOCK FALSE
