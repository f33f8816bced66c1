CONSTANTS
  NodeCount = 2
  ThreadCount = 2
  Nodes <- MCNodes
  NoNode = 0
  Coord = 1
  Threads <- MCThreads
  NodeOf <- MCNodeOf
  Ops <- MCStores
  MaxStores = 4
  QUEUE_CAPACITY = 1
  Evictable = {}
SPECIFICATION Spec
INVARIANT OneCopy
CHECK_DEADLOCK FALSE
