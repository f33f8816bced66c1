CONSTANTS
  NodeCount = 3
  ScriptLength = 5
  Nodes <- MCNodes
  NoNode = 0
  Coord = 1
  Threads <- MCNodes
  NodeOf <- MCNodeOf
  Ops <- MCOps
  MaxStores = 5
  QUEUE_CAPACITY = 1
  Evictable = {}
  Scripts <- MCMigrating
SPECIFICATION TestFairSpec
PROPERTIES ReadsSeeAllWrites WritesAreExclusive ScriptCompletes
CHECK_DEADLOCK FALSE
