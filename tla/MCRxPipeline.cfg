SPECIFICATION FairSpec
CONSTANTS
  PipeCap = 2
  QueueCap = 1
  MaxRequests = 3
INVARIANTS
  EngineHoldsState
  CaptureUndone
  NoStrayEngine
PROPERTIES
  StopReturns
  EngineEnds
  ImplementsReceiver
CHECK_DEADLOCK FALSE
