CONSTANTS
  SCALE_SQRT = 10
  MAX = 2400
  Coefficients <- MCCoefficients
SPECIFICATION Spec
INVARIANT AgreesWithProgram
CHECK_DEADLOCK FALSE
