SPECIFICATION AllSpec
CONSTANTS
  Names <- MCNames
  Programs <- MCPrograms
  MaxMoves = 2
  MaxPass = 5
  Ascii = 7
  Bound = 3
  Predefined <- MCPredefined
  Buckets = 2
  str_hash <- MChash
  Cheap = {"_u"}
  Sources <- MCSources
  BranchSources <- MCBranchSources
INVARIANTS Placed NotLost Settles TextsSettle RangesFound NamesSettle Nearest  
CHECK_DEADLOCK FALSE
