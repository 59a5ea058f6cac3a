\* The boundary and the verdicts of a session of two turns.
SPECIFICATION Spec
CONSTANTS
  Calls <- SomeCalls
  GatePolicy <- Rules
  Writes <- FileCalls
  InEnvelope <- Allowed
  ReadOnly <- Looks
  MaxSteps = 3
  CheckpointAt = 2
  CycleLength = 2
  ErrorCascade = 2
  ReviewSteps = 2
  MaxTurns = 2
  MaxCalls = 2
INVARIANTS
  RepetitionIsTold
  ConfidenceIsFresh
  LandedIsRecorded
CHECK_DEADLOCK FALSE
