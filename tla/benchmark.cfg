CONSTANTS
  NodeCount = 2
  Nodes <- MCNodes
  NoNode = 0
  Coord = 1
  Threads <- MCNodes
  NodeOf <- MCNodeOf
  Ops <- MCOps
  MaxStores = 4
  QUEUE_CAPACITY = 1
  Evictable = {}
  Words = 2
SPECIFICATION BenchSpec
PROPERTY ValidationSucceeds
CHECK_DEADLOCK FALSE
