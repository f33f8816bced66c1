CONSTANTS
  NodeCount = 2
  ScriptLength = 5
  Nodes <- MCNodes
  NoNode = 0
  Coord = 1
  Threads <- MCNodes
  NodeOf <- MCNodeOf
  Ops <- MCOps
  MaxStores = 5
  QUEUE_CAPACITY = 1
  Evictable = {}
  Scripts <- MCDriver
SPECIFICATION TestSpec
PROPERTY ReadsSeeAllWrites
CHECK_DEADLOCK FALSE
