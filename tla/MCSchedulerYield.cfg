CONSTANTS
  Tasks = {a, b}
  BatchLimit = 10
  GlobalInterval = 5
SPECIFICATION Spec
INVARIANT CorePlacedBack
CHECK_DEADLOCK FALSE
