CONSTANTS
  Blocks = {b1, b2, b3}
  Null = Null
  TrackerSize = 3
  Reallocates = FALSE
  Threads = {t1, t2}
  MaxCalls = 2
  MaxDepth = 4
  MaxAdds = 10
  Items = {x1, x2}
  NoItem = NoItem
  Unset = Unset
  Depth = 2
  Underrun = 2
  WordSizes = {32, 64}
  LogSize = 4
  RecordLens = {2, 3}
  RecordMax = 3
  FlushCap = 4
  Majors <- MCMajors
  Minors <- MCMinors
  ShortWrites = TRUE
SPECIFICATION PartsSpec
CHECK_DEADLOCK FALSE
INVARIANTS
  LockHasHolder
  FlagsAgree
  OverrunBounded
  OverrunWithinRecord
  NeverSpins
  NeverUnderstated
PROPERTIES
  CallsReturn
  KeepsOrder
  FullClears
  IsLifo
  ClearedIsReported
  KeepsJournal
