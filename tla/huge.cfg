CONSTANTS
  s = s
  t = t
  Threads = {s, t}
  NPages = 10
  ChunkPages = 2
  SizeMod = 32
  BaseNodes = 2
  Ids = {1, 2, 3}
  Programs <- Clients
  Null = Null
SPECIFICATION Spec
CONSTRAINT NoFault
CHECK_DEADLOCK FALSE
INVARIANT HeldIntact
INVARIANT NothingLeaks
INVARIANT NodesKept
