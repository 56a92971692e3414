SPECIFICATION Spec
CONSTANTS
  PipeCap = 2
  QueueCap = 1
  MaxRequests = 3
INVARIANT
  NeverTerminates
CHECK_DEADLOCK FALSE
