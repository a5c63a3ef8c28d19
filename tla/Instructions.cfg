SPECIFICATION AllSpec
CONSTANTS
  Unsigned = 256
  Limit = 64
  Byte = 4
  Cpus = {"w65816", "c6502", "c45gs02"}
  Program <- MCProgram
  opcode <- MCopcode
  regopcode <- MCregopcode
  Memory <- MCMemory
  Places <- MCPlaces
  Bases <- MCBases
  Others <- MCOthers
  Seconds <- MCSeconds
  Steps <- MCSteps
  W = 2
  Programs <- MCPrograms
INVARIANTS
  Sound
  AdviceRight
  Arithmetic
  Reaches
  Best
