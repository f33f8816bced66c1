CONSTANTS
  r1 = r1
  r2 = r2
  Requests = {r1, r2}
  ZeroRequest = r1
  QUEUE_CAPACITY = 3
  MaxPushes = 5
SPECIFICATION FairSpec
INVARIANTS TypeOK NoLostWakeup
PROPERTIES EveryRequestPopped ImplementsFIFO
CHECK_DEADLOCK FALSE
