SPECIFICATION CombineSpec
CONSTANTS
  Parities = 4
  Lead = 2
  Steps = 8
INVARIANTS
  OwnSteps
  Complete
PROPERTY CombineTerminates
