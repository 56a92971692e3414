SPECIFICATION FairSpec
CONSTANTS
  PipeCap = 2
  QueueCap = 1
  MaxRequests = 3
PROPERTY
  EveryStopReturns
CHECK_DEADLOCK FALSE
