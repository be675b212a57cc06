SPECIFICATION Spec
CONSTANTS
  EP = 3
  GLocal = 1
  TLocal = 2
  TopK = 1
  RowBlk = 2
  TileM = 4
  Block = 2
  Window = 2
  SlotField = 64
  Rounds = 2
  CallLists <- TwoCalls
INVARIANTS
  LandsInside
  RowsThisRound
  NothingLeft
  BarrierFree
PROPERTIES
  Terminates
  ImplementsAllToAll
