SPECIFICATION Spec
CONSTANTS
  MaxSends = 1
  MaxSpurious = 0
  MayFailToStart = FALSE
PROPERTIES SendReturns
CHECK_DEADLOCK FALSE
