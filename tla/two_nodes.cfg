CONSTANTS
  NodeCount = 2
  ThreadCount = 3
  Nodes <- MCNodes
  NoNode = 0
  Coord = 1
  Threads <- MCThreads
  NodeOf <- MCNodeOf
  Ops <- MCOps
  MaxStores = 2
  QUEUE_CAPACITY = 2
  Evictable = {}
SPECIFICATION FairSpec
INVARIANTS NoForgottenFault ValidIsMapped
PROPERTY FaultsResolve
