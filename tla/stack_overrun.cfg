CONSTANTS
  Items = {x1, x2, x3}
  NoItem = NoItem
  Unset = Unset
  Depth = 2
  Underrun = 2
  WordSizes = {64}
SPECIFICATION StackSpec
\* A write through a null pointer ends the process.
CHECK_DEADLOCK FALSE
INVARIANTS
  NeverOverruns
