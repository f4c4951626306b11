SPECIFICATION FairSpec
CONSTANTS
  Workers = {w1, w2}
  Size = 2
  MaxSockets = 6
  NoSocket = NoSocket
  NoOne = NoOne
CHECK_DEADLOCK FALSE
INVARIANTS
  TypeOK
  QueueIndices
  NoStrandedSocket
  MasterSleepsOnFull
  ContextOutlivesThreads
PROPERTIES
  ImplementsQueue
  EverySocketServed
