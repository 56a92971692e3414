SPECIFICATION Spec
CONSTANTS
  BlockBits  = 7
  ErrorBurst = 16
  Fade       = 24
  Nac        = {0, 3, 4, 7, 9}
  Streams   <- MCStreams
INVARIANTS
  CrcExact
  NidSeparated
  BlockDetermined
  
