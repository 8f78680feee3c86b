CONSTANTS
  root = root
  Name <- MCName
  Version = {1, 2}
  ROOT = root
  Universes <- MCNormal
  TestMode = FALSE
  MultipleVersions = FALSE
  SdistOnly = FALSE
  MaxFaults = 1
SPECIFICATION Spec
INVARIANTS TypeOK NoFailureWithoutFault BuildableInOrder EdgesRecorded BuildSystemVersionKept
CHECK_DEADLOCK FALSE
