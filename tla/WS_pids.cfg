SPECIFICATION FairSpec
CONSTANTS
  l1 = l1
  l2 = l2
  l3 = l3
  h1 = h1
  h2 = h2
  Launches <- TwoLaunches
  Handlers <- OneHandler
  MaxBoot = 1
  Freezes = FALSE
  DoubleRestart = FALSE
  PidsRecur = TRUE
  Pushes = FALSE
  Polls = TRUE
PROPERTIES
  SetupCompletes
CHECK_DEADLOCK FALSE
