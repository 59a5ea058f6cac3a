\* What a review brief promises the reader of the card.
SPECIFICATION FairBriefSpec
CONSTANTS
  runA = runA
  write = write
  policy = policy
  other = other
  MaxAsks = 3
  Runs <- RunIds
  Tools <- ToolNames
  GrantableTools <- ToolNames
  Texts <- AskTexts
  PolicyTexts <- PolicyOnly
  Answers = TRUE
  GiveUpAfter = 2
  Enabled = TRUE
INVARIANTS
  TwinHasTheBrief
  DeadExplainerIsCheap
PROPERTIES
  BriefsSettle
CHECK_DEADLOCK FALSE
