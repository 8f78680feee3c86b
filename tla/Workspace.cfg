SPECIFICATION Spec
CONSTANTS
  Tries = 2
  Attempts = 2
  MaxTemps = 1
  Kinds = 2
  MaxRuns = 3
  MaxRecipe = 2
  MaxTag = 2
CHECK_DEADLOCK FALSE
INVARIANTS TypeOK FailureJustified WheelFollowsRecipe CleanRunsDoNotFail ReuseIsCurrent MirrorComplete
