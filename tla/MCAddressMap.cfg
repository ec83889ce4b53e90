SPECIFICATION Spec
CONSTANTS
  LastAddress = 15
  Keys = {0, 1, 10}
  Values = {0, 5}
  NoValue = NoValue
  BlockSize = 2
  ClusterBlocks = 2
  HashSize = 2
  HashInt <- MCHashInt
  ALLOC_COUNT = 2
  SizeFunc <- Size
  MaxSize = 5
INVARIANTS
  EntriesAccountedFor
  IterateVisitsEach
  FindInsideFindsRange
PROPERTIES
  ImplementsMap
