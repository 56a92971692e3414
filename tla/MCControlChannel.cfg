SPECIFICATION FairSpec
CONSTANTS
  RingSize = 9
  FrameBytes = 2
  ChunkBytes = 1
  BurstLen = 2
  QueueCap = 2
  Configs = {c1, c2}
  MaxResponses = 4
INVARIANTS
  WriteNeverSpins
  ResponsesInOrder
  SystemRotation
PROPERTIES
  StopReturns
  StreamContinues
  ResponseAired
  ImplementsChannel
  ImplementsSchedule
