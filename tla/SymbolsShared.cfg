CONSTANTS
  Name <- MCName
  NoName = NoName
  Programs <- MCAliases
  MaxPass = 5
  ZpTop = 2
  Listing = {TRUE}
  Signals = FALSE
SPECIFICATION Spec
INVARIANT ReadsAreFinal
CHECK_DEADLOCK FALSE
