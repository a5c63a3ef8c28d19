CONSTANTS
  Name <- MCName3
  NoName = NoName
  Programs <- MCPrograms
  MaxPass = 5
  ZpTop = 2
  Listing = {TRUE, FALSE}
  Signals = TRUE
SPECIFICATION FairSpec
INVARIANTS FwcountExact NoStaleLookup ReadsAreFinal NothingMissing ListingRepeats
PROPERTY Terminates
CHECK_DEADLOCK FALSE
