CONSTANTS
  Alphabets <- MCIncluding
  Section = {1}
  MaxFrames = 3
  MaxCalls = 4
SPECIFICATION Spec
INVARIANT SkipExact
