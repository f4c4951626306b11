SPECIFICATION FairSpec
CONSTANTS
  Workers = {w1, w2}
  Size = 2
  MaxSockets = 4
  NoSocket = NoSocket
  NoOne = NoOne
CHECK_DEADLOCK FALSE
PROPERTY
  StopReturns
