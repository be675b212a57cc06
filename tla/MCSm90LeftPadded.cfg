SPECIFICATION Spec
CONSTANTS
  Stages = 2
  Launches <- LeftPadded
PROPERTY Terminates
CHECK_DEADLOCK FALSE
