CONSTANTS
  root = root
  Name <- MCName
  Version = {1, 2}
  ROOT = root
  Universes <- MCOverlap
  TestMode = FALSE
  MultipleVersions = FALSE
  SdistOnly = FALSE
  MaxFaults = 1
SPECIFICATION Spec
INVARIANTS BuildHasItsRequirements
CHECK_DEADLOCK FALSE
