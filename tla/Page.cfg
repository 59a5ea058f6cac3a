\* What a page that stays open comes to show.
SPECIFICATION FairPageSpec
CONSTANTS
  runA = runA
  write = write
  policy = policy
  looksGood = looksGood
  MaxAsks = 1
  Runs <- RunIds
  Tools <- ToolNames
  GrantableTools <- ToolNames
  Texts <- PolicyOnly
  PolicyTexts <- PolicyOnly
  Answers = TRUE
  Notes <- SomeNotes
  NoNote = NoNote
  ThreadLimit = 2
  Loads <- TwoLoads
  MaxAnswers = 1
  MaxEvents = 1
INVARIANTS
  FinalChangeIsTold
PROPERTIES
  PageConverges
CHECK_DEADLOCK FALSE
