SPECIFICATION Spec
CONSTANTS
  Configs <- MCConfigs
  Default <- MCDefault
CHECK_DEADLOCK FALSE
INVARIANTS
  LogHasPanel
