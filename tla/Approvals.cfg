\* Safety of the approval registry, and that it implements HumanGate.
SPECIFICATION Spec
CONSTANTS
  runA = runA
  runB = runB
  write = write
  bash = bash
  policy = policy
  other = other
  MaxAsks = 3
  Runs <- RunIds
  Tools <- ToolNames
  GrantableTools <- FileTools
  Texts <- AskTexts
  PolicyTexts <- PolicyOnly
  Answers = TRUE
SYMMETRY RunSymmetry
INVARIANTS
  GrantReleases
  AllowedByHuman
  ClickIsTheOutcome
PROPERTIES
  ImplementsHumanGate
CHECK_DEADLOCK FALSE
