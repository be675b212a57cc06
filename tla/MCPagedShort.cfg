SPECIFICATION Spec
CONSTANTS
  Calls <- ShortCalls
  MaxSteps = 3
  NBuffer = 2
  NumLanes = 2
INVARIANT NewTokensStored
