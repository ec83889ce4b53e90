SPECIFICATION Spec
CONSTANTS
  Threads = {t1, t2}
  Ptrs = {p1, p2}
  Sizes = {1, 2}
  Counts = {2}
  MaxSize = 3
  Traces = {c1}
  NoThread = NoThread
  nullptr = nullptr
  NoTrace = NoTrace
  NoBlock = NoBlock
  NoEntry = NoEntry
  RawReallocNoGil = FALSE
  ReallocMayFail = FALSE
  StringsMayDie = TRUE
CHECK_DEADLOCK FALSE
SYMMETRY Perms
INVARIANTS
  RecordedBlockHasEntry
  EntryHasRecordedBlock
  TotalIsSum
PROPERTIES
  ImplementsTracedMemory
