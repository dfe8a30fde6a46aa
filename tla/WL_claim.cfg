SPECIFICATION Spec
CONSTANTS
  r1 = r1
  r2 = r2
  s1 = s1
  s2 = s2
  s3 = s3
  Requests <- TwoRequests
  Ops <- ResumeOps
  Provider = "daytona"
  CreationSettlement = "immediate"
  RestartSettlement = "webhook"
  SessionIds <- TwoSessions
  CanCrash = FALSE
SYMMETRY Symmetry
PROPERTIES ReconcileNeverOverwritesClaim
\* The one workspace may be terminated, or its creation fail, for good.
CHECK_DEADLOCK FALSE
