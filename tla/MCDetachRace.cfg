SPECIFICATION Spec
CONSTANTS
  Threads = {t1, t2}
  NoThread = NoThread
  MaxStarts = 2
  MaxDepth = 2
  RawNoGil = TRUE
CHECK_DEADLOCK FALSE
INVARIANT
  ProfilerOutlivesCalls
