SPECIFICATION Spec
CONSTANTS
  Ptrs = {p1, p2}
  Sizes = {1, 4}
  Untraced = Untraced
  Stacks = {s1, s2}
  NoStack = NoStack
  Unknown = Unknown
  NoPtr = NoPtr
  IntMax = 3
  MaxClears = 2
SYMMETRY Perms
CHECK_DEADLOCK FALSE
INVARIANTS
  SurvivorsExact
  EveryBlockOnce
  OnlyKnownCrashes
PROPERTY
  CurrentAtMostPeak
