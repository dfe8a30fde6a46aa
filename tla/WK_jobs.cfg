SPECIFICATION WorkersFairSpec
CONSTANTS
  w1 = w1
  sweeper = sweeper
  Workspaces <- OneWorkspace
  Persistent <- OnePersistent
  Sweeper = sweeper
  CanCrash = TRUE
  Metered = {"a", "b"}
  Stoppers = {"request"}
  Reaper = "reaper"
  Quota = 2
  MaxSession = 2
  MaxStarts = 2
  MaxDay = 1
  Trials = {"t"}
  Visitor = "visitor"
INVARIANTS WorkersTypeOK LiveIsWhole ClearedMeansStopped UsageIsExact
PROPERTIES Swept QuotaIsEnforced TrialsEnd
\* Workspaces, starts, days and trials are used once.
CHECK_DEADLOCK FALSE
