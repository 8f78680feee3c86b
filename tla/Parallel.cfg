CONSTANTS
  a = a
  b = b
  c = c
  root = root
  t1 = t1
  t2 = t2
  Package <- MCPackage
  ROOT = root
  Worker = {t1, t2}
  Exclusive = {b, c}
  PreBuilt = {b}
  Rank <- MCRank
  ForceBuild = FALSE
  Cached = {b}
  Leftovers <- MCLeftovers
  Graphs <- MCGraphs
SPECIFICATION FairSpec

INVARIANTS TypeOK EnvironmentComplete ExclusiveAlone DoneMeansAllBuilt BuiltOnce
PROPERTIES ScheduleSpec Terminates
CHECK_DEADLOCK FALSE
