\* Two calls of one turn, with every way a worker can end.
SPECIFICATION FairSpec
CONSTANTS
  MaxDispatches = 2
  Allow <- TwoCLIs
  HasRoot = TRUE
  Files <- OneFile
  Unterminated = TRUE
INVARIANTS
  ReportedIsGone
  ReportAgreesWithExit
  ImplementerOwnsItsFiles
PROPERTIES
  StartedIsReported
CHECK_DEADLOCK FALSE
