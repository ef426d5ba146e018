CONSTANTS
  t1 = t1
  t2 = t2
  t3 = t3
  Threads = {t1, t2, t3}
  NArenas = 2
  MaxCalls <- CallsOf
  Null = Null
SPECIFICATION Spec
CHECK_DEADLOCK FALSE
INVARIANT ChildLocksFree
INVARIANT SpreadEvenly
PROPERTY CallsReturn
