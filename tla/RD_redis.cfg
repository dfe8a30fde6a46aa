SPECIFICATION RedisSpec
CONSTANTS
  p = p
  q = q
  Procs <- TwoProcs
  Routes <- OneUpstream
  Access <- TwoHeaders
  PosTTL = 1
  MissTTL = 1
  Flight = 1
  Codes <- TwoCodes
  UserCodes <- OneUserCode
  Users <- TwoUsers
  Logins <- TwoProcs
  Recordings <- TwoRecordings
  Timeout = 5
  Tightest = 2
  Throttle = 2
  Delay = 1
  Trials <- TwoTrials
  Reaper = "reaper"
  Visitor = "visitor"
SYMMETRY Symmetry
INVARIANTS
  StaleEntriesExpire
  CleanCacheIsTrue
  TokensAreApproved
  ListedIsIdle
  AnsweredOnce
\* Device codes and trials are used once.
CHECK_DEADLOCK FALSE
