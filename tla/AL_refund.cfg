CONSTANTS
  a = a
  b = b
  p = p
  q = q
  Runs <- MCRuns
  Requests <- MCOneRequest
  MaxRuns = 2
  MonthlyRuns = 1
  ExtraRuns = 1
  CanCrash = FALSE
  Choices = {FALSE}
SYMMETRY MCSymmetry
SPECIFICATION MCSpec
CHECK_DEADLOCK FALSE
INVARIANT FailedStartsAreRefunded
