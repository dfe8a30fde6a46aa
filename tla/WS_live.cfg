SPECIFICATION FairSpec
CONSTANTS
  l1 = l1
  l2 = l2
  l3 = l3
  h1 = h1
  h2 = h2
  Launches <- TwoLaunches
  Handlers <- TwoHandlers
  MaxBoot = 1
  Freezes = FALSE
  DoubleRestart = FALSE
  PidsRecur = FALSE
  Pushes = FALSE
  Polls = TRUE
PROPERTIES
  SetupCompletes
  FinishedIsKnown
CHECK_DEADLOCK FALSE
