SPECIFICATION Spec
CONSTANTS
  Refused = Refused
  None = None
  SHIFT = 6
  BYTE = 2
  WIDE = 26
  Seeds <- MCLost
  Operands <- MCLostBy
  Few <- MCFew
  Counts <- MCCounts
  Places <- MCPlaces
  Strides <- MCStrides
  MaxShift = 13
  MaxNumber = 300000
  MaxBits = 20
  MaxSteps = 1
  Careful = FALSE
INVARIANT Exact
CHECK_DEADLOCK FALSE
