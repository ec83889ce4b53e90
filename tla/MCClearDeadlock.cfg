SPECIFICATION FairSpec
CONSTANTS
  Threads = {t1, t2}
  Ptrs = {p1, p2}
  Sizes = {1}
  Counts = {1}
  MaxSize = 2
  Traces = {c1}
  NoThread = NoThread
  nullptr = nullptr
  NoTrace = NoTrace
  NoBlock = NoBlock
  NoEntry = NoEntry
  RawReallocNoGil = FALSE
  ReallocMayFail = FALSE
  StringsMayDie = TRUE
CHECK_DEADLOCK FALSE
PROPERTIES
  ClearReturns
