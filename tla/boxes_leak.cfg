\* A function reads its own number through a box another function made.
SPECIFICATION Spec
CONSTANTS
  ByteBits = 4
  WordBits = 8
  NativeBits = 16
  Fuel = 20
  Turns = 100
  Programs <- MCBoxesLeak
  Units <- Lowered
  Structs <- MCStructs
  Builtins <- MCBuiltins
INVARIANTS OracleAgrees
CHECK_DEADLOCK FALSE
