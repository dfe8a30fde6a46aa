SPECIFICATION FairSpec

CONSTANTS
  k1 = k1
  k2 = k2
  k3 = k3
  s1 = s1
  s2 = s2
  r1 = r1
  r2 = r2
  Keys <- TwoKeys
  Sessions <- OneSession
  Requests <- TwoRequests
  CanCrash = FALSE
  CanStop = FALSE

PROPERTIES
  IsolatedRunsSettle

\* Once every key is used and every run over, nothing is left to do.
CHECK_DEADLOCK FALSE
