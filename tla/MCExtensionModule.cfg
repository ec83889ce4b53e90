SPECIFICATION Spec
CONSTANTS
  Threads = {t1}
  NoThread = NoThread
  Sizes = {0, 1, 3}
  IntMax = 3
  NeverInterval = 4
  MaxMeans = 2
  Frames = {1, 3}
  Rates = {0, 1, 2, 7}
  EnvFrames <- AllEnvFrames
  EnvRates <- AllEnvRates
  Unset = Unset
  Garbage = Garbage
  kMaxFramesToCapture = 2
  MaxHandlers = 2
CHECK_DEADLOCK FALSE
INVARIANTS
  NoneLeftAtExit
  SnapshotOfOneSession
PROPERTIES
  SampledIffMarked
  FreshRateZeroSamplesAll
  FailedCallsChangeNothing
  KeepsSampling
