SPECIFICATION Spec
CONSTANTS
  Tracebacks <- SomeTracebacks
  Sizes = {0, 3}
  Rates = {1, 2}
  FilterLists <- SomeFilterLists
  MaxTraces = 2
  AnyLine = AnyLine
  Scale <- SeriesScale
INVARIANTS
  StatisticsAreSums
  ScalingKeepsAverage
  DiffsAddUp
  FilterSelectsGroups
