SPECIFICATION AllSpec
CONSTANTS
  Alphabets <- MCAlphabets
  Section = {1}
  MaxFrames = 4
  MaxCalls = 3
  Names <- MCNames
  Slots = 2
  Steps = 4
  Literals <- MCLiterals
  Subscripts <- MCSubscripts
  Operators <- MCOperators
  Starts <- MCStarts
INVARIANTS SkipExact Balanced Means CountsExact KeysFound
