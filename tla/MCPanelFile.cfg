SPECIFICATION Spec
CONSTANTS
  Bad = Bad
  Missing = Missing
  Bands <- OneBand
  Presets <- NoPresets
  EnteredFreqs = {}
  Offsets <- EdgeOffsets
  Texts <- HexTexts
  Rests = {1}
  ForeignFiles = {}
INVARIANTS
  RoundTrip
  OffsetNearest
