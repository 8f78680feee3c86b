CONSTANTS
  root = root
  Name <- MCNames
  Version = {1}
  ROOT = root
  Universes <- MCMultiple
  TestMode = FALSE
  MultipleVersions = TRUE
  SdistOnly = FALSE
  MaxFaults = 1
SPECIFICATION Spec
INVARIANTS OneWheelInBuildDir
CHECK_DEADLOCK FALSE
