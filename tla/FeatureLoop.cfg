\* The pipeline under its hooks: state machine, ceilings and metering.
SPECIFICATION Spec
CONSTANTS
  MaxTestAttempts = 1
  MaxSteps <- PhaseSteps
  MaxSpend <- PhaseSpend
  CallGuard = 4
  RunMaxSteps = 3
  RunBudget = 5
  MaxCost = 1
  UpstreamHooks = TRUE
  Steerable = TRUE
  MaxTurns = 3
INVARIANTS
  CallsWithinCeilings
  EveryAttemptPricedOnce
PROPERTIES
  ImplementsPhaseMachine
  BoundaryDrainsAreExact
CHECK_DEADLOCK FALSE
