SPECIFICATION Spec
CONSTANTS
  ByteBits = 4
  WordBits = 8
  NativeBits = 16
  Fuel = 20
  SweepCap = 32
  GlobalNames = {"g", "h", "mem"}
  Structs <- NoStructs
  Builtins <- Output
  Programs <- CorrectPrograms
  Pipelines <- AllSSAPipelines
  Tried <- OnceOnOverlaps
INVARIANTS
  SameBehaviour
  StaysWellFormed
  RoundTripKeepsNames
CHECK_DEADLOCK FALSE
