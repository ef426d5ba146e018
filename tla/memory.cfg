\* Five blocks, a table of four slots: the slot index wraps around, the count
\* passes the size of the table, and blocks are reused while stale copies of
\* them are still in the table.  The client may stop calling, and undefined
\* behaviour stops the system: no deadlock check.
CONSTANTS
  Blocks = {b1, b2, b3, b4, b5}
  Null = Null
  TrackerSize = 4
  Reallocates = TRUE
SPECIFICATION Spec
SYMMETRY BlockSymmetry
INVARIANTS
  CountTracksSlots
  HeldIsLive
PROPERTIES
  FreesAreSound
  KeepsHeapPromise
CHECK_DEADLOCK FALSE
