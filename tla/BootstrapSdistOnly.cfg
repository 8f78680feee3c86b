CONSTANTS
  root = root
  Name <- MCName
  Version = {1, 2}
  ROOT = root
  Universes <- MCSdistOnly
  TestMode = FALSE
  MultipleVersions = TRUE
  SdistOnly = TRUE
  MaxFaults = 1
SPECIFICATION Spec
INVARIANTS WheelsAreForBuilds NeededWheelsAreBuilt OneFetchAtATime
PROPERTIES NoRebuild
CHECK_DEADLOCK FALSE
