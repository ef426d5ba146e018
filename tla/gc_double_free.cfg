CONSTANTS
  Blocks = {b1, b2, b3, b4}
  Null = Null
  TrackerSize = 4
  Reallocates = FALSE
SPECIFICATION Spec
INVARIANT NoDoubleFree
CHECK_DEADLOCK FALSE
