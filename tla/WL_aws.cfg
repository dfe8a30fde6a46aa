SPECIFICATION FairSpec
CONSTANTS
  r1 = r1
  r2 = r2
  s1 = s1
  s2 = s2
  s3 = s3
  Requests <- TwoRequests
  Ops <- CleanupOps
  Provider = "aws"
  CreationSettlement = "immediate"
  RestartSettlement = "immediate"
  SessionIds <- OneSession
  CanCrash = TRUE
PROPERTIES CleanupCompletes
\* The one workspace may be terminated, or its creation fail, for good.
CHECK_DEADLOCK FALSE
