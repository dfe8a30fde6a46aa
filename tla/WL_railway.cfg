SPECIFICATION Spec
CONSTANTS
  r1 = r1
  r2 = r2
  s1 = s1
  s2 = s2
  s3 = s3
  Requests <- TwoRequests
  Ops <- RailwayOps
  Provider = "railway"
  CreationSettlement = "webhook"
  RestartSettlement = "webhook"
  SessionIds <- TwoSessions
  CanCrash = TRUE
SYMMETRY Symmetry
INVARIANTS TypeOK NoOrphanInstance TerminatedMeansGone
PROPERTIES OnlyStaleWritersRevive
\* The one workspace may be terminated, or its creation fail, for good.
CHECK_DEADLOCK FALSE
