CONSTANTS
  a = a
  b = b
  p = p
  q = q
  Runs <- MCRuns
  Requests <- MCRequests
  MaxRuns = 2
  MonthlyRuns = 1
  ExtraRuns = 0
  CanCrash = FALSE
  Choices = {TRUE, FALSE}
SYMMETRY MCSymmetry
SPECIFICATION MCSpec
CHECK_DEADLOCK FALSE
INVARIANTS TypeOK StartedRunsArePaid
PROPERTY LedgerLosesToOverlapOnly
