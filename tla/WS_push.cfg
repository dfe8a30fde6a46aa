SPECIFICATION Spec
CONSTANTS
  l1 = l1
  l2 = l2
  l3 = l3
  h1 = h1
  h2 = h2
  Launches <- ThreeLaunches
  Handlers <- TwoHandlers
  MaxBoot = 1
  Freezes = FALSE
  DoubleRestart = FALSE
  PidsRecur = TRUE
  Pushes = TRUE
  Polls = FALSE
SYMMETRY Symmetry
INVARIANTS
  TypeOK
  RecordIsTrue
PROPERTIES
  FinishedStaysFinished
  RecordOnlyAdvances
CHECK_DEADLOCK FALSE
