SPECIFICATION Spec
CONSTANTS
  Configs = {c1, c2}
  Workers = 1
  Timeout = 1
  NoTimeout = NoTimeout
  Times = {1}
  MaxTime = 3
INVARIANT TimeoutPerConfig
