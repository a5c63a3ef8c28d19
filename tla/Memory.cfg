SPECIFICATION Spec
CONSTANTS
  AllMem2 = 2
  AllMem = 2
  Word = 12
  Starts <- MCStarts
  Values <- MCValues
  MaxData = 2
  MaxBytes = 3
  MaxOpen = 2
  MaxRefs = 1
  Alphabets <- MCAlphabets
INVARIANTS Covered NoSilentWrap ReadsBack
PROPERTY Implements
CHECK_DEADLOCK FALSE
