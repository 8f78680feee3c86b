CONSTANTS
  root = root
  Name <- MCName
  Version = {1, 2}
  ROOT = root
  Universes <- MCTest
  TestMode = TRUE
  MultipleVersions = FALSE
  SdistOnly = FALSE
  MaxFaults = 2
SPECIFICATION FairSpec
INVARIANTS ParentsKnown NothingLost
PROPERTIES Terminates
CHECK_DEADLOCK FALSE
