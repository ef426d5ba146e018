CONSTANTS
  Threads = {t1, t2}
  NC = 2
  NP = 3
  MapBias = 1
  RunPages = 2
  Regs = 2
  PageSize = 4
  Reg0 = 2
  RegSize = 3
  DirtyMult = 2
  SizeMod = 16
  Null = Null
  Programs <- Clients
SPECIFICATION Spec
INVARIANT MapMatchesTrees
INVARIANT EveryRunHasOneOwner
INVARIANT DirtyPagesCounted
INVARIANT PurgatoryBalanced
INVARIANT CleanIsZero
INVARIANT PartRunsAreFound
CHECK_DEADLOCK FALSE

CONSTRAINT FewRuns
SYMMETRY Alike
