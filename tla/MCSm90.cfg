SPECIFICATION Spec
CONSTANTS
  Stages = 2
  Launches <- SomeLaunches
INVARIANTS
  StableReads
  FullPhases
  NoPhaseMissed
  TakeTurns
  
PROPERTY Terminates
