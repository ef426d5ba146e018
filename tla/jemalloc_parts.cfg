CONSTANTS
  m = m
  t = t
  Threads = {m, t}
  Main = m
  NArenas = 2
  Objects <- MCObjects
  CachedMax <- Maxima
  GcIncr = 2
  Rounds = 2
  Programs <- Clients
  Null = Null
  k1 = k1
  k2 = k2
  k3 = k3
  k4 = k4
  Keys = {1, 2, 3, 4, 5, 6, 7, 8, 9, 10, 11, 12}
  Nil = Nil
  HKeys = {k1, k2, k3, k4}
  LgCells = 1
  MinItems = 1
  MaxLg = 3
  MaxFailures = 2
  Hashes <- MCHashes
  NoKey = NoKey
SPECIFICATION PartsSpec
VIEW View
CHECK_DEADLOCK FALSE
INVARIANT OneOwner
INVARIANT MarkAgrees
INVARIANT IdleBinsDrain
INVARIANT ExitKeepsNothing
INVARIANT Balanced
INVARIANT SearchesAgree
INVARIANT KeysKept
