CONSTANTS
  NCells = 5
  ArgCounts = {1, 5}
SPECIFICATION Spec
PROPERTY NoUnexpected
CHECK_DEADLOCK FALSE
