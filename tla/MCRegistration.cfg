SPECIFICATION Spec
CONSTANTS
  Commands <- MCCommands
  Site     <- MCSite
  Clocks   <- MCClocks
  Counts   = {2, 5}
  Frame    = 2
  Chunk    = 3
  Depth    = 2
  IntSize  = 16
  QueueCap = 2
  MaxRuns  = 2
INVARIANT RegistrationAccepted
