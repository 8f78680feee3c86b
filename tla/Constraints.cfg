SPECIFICATION Spec
CONSTANTS
  root = root
  extra = extra
  ROOT = root
  Package <- MCPackage
  MaxRemovals = 1
CHECK_DEADLOCK FALSE
INVARIANT InstallableTogether
