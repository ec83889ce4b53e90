SPECIFICATION FairPSpec
CONSTANTS
  Threads = {t1, t2}
  Ptrs = {p1, p2}
  Sizes = {1}
  Counts = {1}
  MaxSize = 1
  Traces = {c1}
  NoThread = NoThread
  nullptr = nullptr
  NoTrace = NoTrace
  NoBlock = NoBlock
  NoEntry = NoEntry
  RawReallocNoGil = FALSE
  ReallocMayFail = TRUE
  StringsMayDie = TRUE
  Forkers = {t1}
  MaxCollected = 1
CHECK_DEADLOCK FALSE
INVARIANTS
  LockDiscipline
  HandlesInterned
  ForkInterruptsOnlyFrees
PROPERTIES
  SomeCallReturns
