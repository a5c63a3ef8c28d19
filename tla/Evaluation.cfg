SPECIFICATION AllSpec
CONSTANTS
  Refused = Refused
  None = None
  SHIFT = 6
  BYTE = 2
  WIDE = 26
  Seeds <- MCSeeds
  Operands <- MCOperands
  Few <- MCFew
  Counts <- MCCounts
  Places <- MCPlaces
  Strides <- MCStrides
  MaxShift = 13
  MaxNumber = 300000
  MaxBits = 20
  MaxSteps = 2
  Careful = TRUE
  Alphabets <- MCAlphabets
  TasmAlphabets <- MCTasm
  MaxLength = 5
  Stops <- MCStops
INVARIANTS Exact Complete Precedence TasmReading
