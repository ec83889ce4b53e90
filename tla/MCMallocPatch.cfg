SPECIFICATION FairSpec
CONSTANTS
  Threads = {t1, t2}
  NoThread = NoThread
  MaxStarts = 2
  MaxDepth = 2
  RawNoGil = TRUE
CHECK_DEADLOCK FALSE
INVARIANTS
  HooksHaveProfiler
  HooksFollowProfiler
  OnlyOutermostTraced
  WalksHaveGIL
  OnlyExposedCallsLost
PROPERTY
  CallsReturn
