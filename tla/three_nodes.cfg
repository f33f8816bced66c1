CONSTANTS
  NodeCount = 3
  ThreadCount = 3
  Nodes <- MCNodes
  NoNode = 0
  Coord = 1
  Threads <- MCThreads
  NodeOf <- MCNodeOf
  Ops <- MCOps
  MaxStores = 2
  QUEUE_CAPACITY = 1
  Evictable = {2}
SPECIFICATION Spec
INVARIANTS TypeOK DirectoryConsistent ChannelDiscipline HoldersRegistered WorkerDirectoryPassive AcksInFlight
CHECK_DEADLOCK FALSE
