\* The registry behind its front ends: the watcher flag, and every ask settling.
SPECIFICATION FrontSpec
CONSTANTS
  runA = runA
  write = write
  policy = policy
  tab1 = tab1
  tab2 = tab2
  MaxAsks = 2
  Runs <- RunIds
  Tools <- ToolNames
  GrantableTools <- ToolNames
  Texts <- AskTexts
  PolicyTexts <- AskTexts
  Answers = TRUE
  Tabs <- TabIds
  TTL = 5
  Keepalive = 2
INVARIANTS
  TabsAreWatching
PROPERTIES
  ClaimsSettle
CHECK_DEADLOCK FALSE
