CONSTANTS
  NodeCount = 1
  ThreadCount = 3
  Nodes <- MCNodes
  NoNode = 0
  Coord = 1
  Threads <- MCThreads
  NodeOf <- MCNodeOf
  Ops <- MCOps
  MaxStores = 4
  QUEUE_CAPACITY = 1
  Evictable = {}
SPECIFICATION FairSpec
INVARIANT NoStaleCopy
PROPERTY AccessesComplete
