SPECIFICATION Spec
CONSTANTS
  Clients = {c1, c2}
  MaxTokens = 4
SYMMETRY ClientSymmetry
INVARIANTS
  OneSessionPerClient
  KeyMintsOnce
  ReissueIsLive
CHECK_DEADLOCK FALSE
