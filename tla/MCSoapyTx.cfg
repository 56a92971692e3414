SPECIFICATION FairSpec
CONSTANTS
  RingSize = 4
  ChunkBytes = 2
  BlockSizes = {1, 3}
  MaxBytes = 7
INVARIANTS
  UnreadIntact
  ChunkInOrder
PROPERTIES
  DeviceHeld
  WriteCompletes
  StopReturns
  EverythingRead
  ImplementsStream
