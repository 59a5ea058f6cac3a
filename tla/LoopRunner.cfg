\* One run of the standalone loop, with an operator, a judge and a check.
SPECIFICATION FairSpec
CONSTANTS
  MaxSteps = 4
  Budget = 4
  MaxCost = 2
  WarnTenths = 8
  MaxRung = 1
  StepsPerRung = 3
  StepCap <- Caps
  MaxCalls = 2
  Tools <- TwoTools
  Reversibility <- Classed
  CycleLength = 2
  ErrorCascade = 2
  ReviewSteps = 2
  MaxPremature = 1
  HasCheck = TRUE
  HasOperator = TRUE
  Questioner = TRUE
INVARIANTS
  EveryCallAnswered
  AttentionIsBudgeted
  LadderKeepsUp
PROPERTIES
  ImplementsLoopPass
  RunEnds
CHECK_DEADLOCK FALSE
