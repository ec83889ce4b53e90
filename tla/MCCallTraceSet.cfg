SPECIFICATION Spec
CONSTANTS
  Strings = {s1, s2, s3}
  Contents = {c1, c2, c3}
  Skipped = {c3}
  Free = Free
  MaxStack = 3
  max_frames_ = 3
  kMaxFramesToCapture = 2
SYMMETRY Perms
INVARIANTS
  NoDanglingString
  RefcountsExact
  InternedOnce
  InternReturnsTrace
PROPERTIES
  HandlesKeepTheirTrace
