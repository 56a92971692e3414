SPECIFICATION Spec
CONSTANTS
  Bad = Bad
  Missing = Missing
  Bands <- AmateurBands
  Presets <- QuickPicks
  EnteredFreqs <- EdgeFreqs
  Offsets = {}
  Texts = {}
  Rests = {}
  ForeignFiles <- InBandFiles
INVARIANTS
  TransmitInBand
  SelectorAgrees
