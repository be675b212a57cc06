SPECIFICATION Spec
CONSTANTS
  Calls <- MCCalls
  MaxSteps = 3
  NBuffer = 2
  NumLanes = 2
INVARIANTS
  CallServed
  CacheKept
  WaitsMatch
PROPERTY Terminates
