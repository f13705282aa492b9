SPECIFICATION Spec
CONSTANTS
  ByteBits = 4
  WordBits = 8
  NativeBits = 16
  Fuel = 20
  SweepCap = 32
  GlobalNames = {"g", "h", "mem"}
  Structs <- NoStructs
  Builtins <- Output
  Programs <- AllPrograms
  Pipelines <- AllPipelines
  Tried <- ShortOnFamily
INVARIANTS
  SameBehaviour
  StaysWellFormed
  DominatorsExact
PROPERTIES
  PassesKeepPromises
  ReachesFixedPoint
CHECK_DEADLOCK FALSE
