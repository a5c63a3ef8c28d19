CONSTANTS
  Name <- MCName
  NoName = NoName
  Programs <- MCFlips
  MaxPass = 5
  ZpTop = 2
  Listing = {TRUE}
  Signals = FALSE
SPECIFICATION Spec
INVARIANT ListingRepeats
CHECK_DEADLOCK FALSE
