SPECIFICATION CallSpec
CONSTANTS
  EP = 2
  GLocal = 2
  TLocal = 6
  TopK = 2
  RowBlk = 2
  TileM = 8
  Block = 4
  Window = 2
  SlotField = 64
  RoutingSet <- MixedRoutings
INVARIANTS
  PlansAgree
  SlabsInBounds
  TransportsAgree
  LandApart
  CountsBalance
  PairsReturn
