CONSTANTS
  s = s
  t = t
  Threads = {s, t}
  NPages = 10
  ChunkPages = 2
  SizeMod = 32
  BaseNodes = 2
  Ids = {1, 2, 3}
  Programs <- Racing
  Null = Null
SPECIFICATION Spec
CHECK_DEADLOCK FALSE
INVARIANT KeysDiffer
