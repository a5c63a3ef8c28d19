SPECIFICATION FairSpec
CONSTANTS
  Size = 3
  WithSection = TRUE
  Keeps <- MCBoth
  Reports <- MCReports
  Inclusions <- MCInclusions
  MaxPass = 2
  Limits <- MCLimits
INVARIANTS ImageKept KeptWhole EachShown NotesBelow Located StatusTold
PROPERTY AllWritten
CHECK_DEADLOCK FALSE
