CONSTANTS
  Failures = FALSE
  MaxLines = 2
  MaxBoots = 0
SPECIFICATION Spec
INVARIANTS LostIsExact
CHECK_DEADLOCK FALSE
