\* One value for the registers that are kept, two for each half of val.
CONSTANTS
  Word = {0}
  Bottom = 2
  Half = {0, 1}
  Assertions = TRUE
SPECIFICATION Spec
INVARIANT NeverReturnsZero
CHECK_DEADLOCK FALSE
