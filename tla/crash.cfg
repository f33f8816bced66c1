CONSTANTS
  NodeCount = 2
  ThreadCount = 3
  Nodes <- MCNodes
  NoNode = 0
  Coord = 1
  Threads <- MCThreads
  NodeOf <- MCNodeOf
  Ops <- MCOps
  MaxStores = 2
  QUEUE_CAPACITY = 1
  Evictable = {}
  MaxCrashes = 1
SPECIFICATION CrashFairSpec
INVARIANT ValidIsMapped
PROPERTIES SurvivorsServed OrphansServed ClosedNotAsked
CHECK_DEADLOCK FALSE
