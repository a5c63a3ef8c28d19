SPECIFICATION Spec
CONSTANTS
  Names <- MCNames
  Programs <- MCPrograms
  MaxMoves = 2
  MaxPass = 5
INVARIANT NoneLost
CHECK_DEADLOCK FALSE
