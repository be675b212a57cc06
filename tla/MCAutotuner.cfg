SPECIFICATION Spec
CONSTANTS
  Configs = {c1, c2, c3}
  Workers = 2
  Timeout = 1
  NoTimeout = NoTimeout
  Times = {1}
  MaxTime = 3
INVARIANTS
  QuietBenchmarks
  EveryConfigAccounted
  SharedArguments
  VerdictsJustified
PROPERTIES
  GivenUpForGood
  Terminates
