SPECIFICATION Spec
CONSTANTS
  Red <- AllValues
  Channel <- Others
  Exponent <- Scales
INVARIANTS Normalised StaysClose
PROPERTY Settles
CHECK_DEADLOCK FALSE
