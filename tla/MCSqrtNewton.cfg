CONSTANTS
  SCALE_SQRT = 10
  MAX = 1000
  LIMIT = 2047
  Numbers <- MCNumbers
SPECIFICATION Spec
INVARIANTS AboveTheRoot ReturnsTheFloor FailsOnlyAtTheTop
PROPERTIES HalvesTheError Returns
CHECK_DEADLOCK FALSE
