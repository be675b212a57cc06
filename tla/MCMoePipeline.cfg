SPECIFICATION Spec
CONSTANT Schedules <- AllSchedules
INVARIANTS
  RightTiles
  NoClash
  NothingLeft
PROPERTY Terminates
