SPECIFICATION FairSpec
CONSTANTS
  l1 = l1
  l2 = l2
  l3 = l3
  h1 = h1
  h2 = h2
  Launches <- TwoLaunches
  Handlers <- OneHandler
  MaxBoot = 1
  Freezes = TRUE
  DoubleRestart = FALSE
  PidsRecur = FALSE
  Pushes = TRUE
  Polls = FALSE
PROPERTIES
  FinishedIsKnown
CHECK_DEADLOCK FALSE
