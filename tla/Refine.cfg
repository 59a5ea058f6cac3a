\* Four passes over one task.
SPECIFICATION FairSpec
CONSTANTS
  Loops = 4
  Budget = 1
  MaxCost = 2
  HasCheck = TRUE
  TotalBudget = 2
  Levels <- ThreeLevels
  Threshold = 2
  MinImprovement = 1
  MaxPassSteps = 2
  HasHistory = TRUE
INVARIANTS
  NeverWorse
  OvershootIsOnePass
  ScoresKeepRising
PROPERTIES
  RefinementEnds
CHECK_DEADLOCK FALSE
