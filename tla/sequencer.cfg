CONSTANTS
  NodeCount = 4
  Nodes <- MCNodes
  NoNode = 0
  Faulty = {1}
  MaxFaults = 1
SPECIFICATION FairSpec
INVARIANTS TypeOK AcksBelong
PROPERTIES GrantedUnlessStranded ImplementsMSI
CHECK_DEADLOCK FALSE
