SPECIFICATION Spec
CONSTANTS
  root = root
  extra = extra
  ROOT = root
  Package <- MCPackage
  MaxRemovals = 1
CHECK_DEADLOCK FALSE
INVARIANTS TypeOK RemovalCascades KeptIsExplained FileFollowsGraph InstallsFit ExplainAgrees SubsetIsUsable ReductionKeepsPaths LossIsExplained
PROPERTIES ConstraintsWritten
