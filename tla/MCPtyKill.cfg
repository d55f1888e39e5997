SPECIFICATION PtySpec
CONSTANTS
  Sockets = {w1}
  MaxPtys = 1
  MaxAgents = 1
PROPERTY PtyIsKilled
CHECK_DEADLOCK FALSE
