SPECIFICATION Spec
CONSTANTS
  Configs <- MCConfigs
  Default <- MCDefault
CHECK_DEADLOCK FALSE
INVARIANTS
  OneFrequency
  DeviceTuned
  StoppedMeansQuiet
  ReceiverTuned
PROPERTY
  ImplementsComponents
