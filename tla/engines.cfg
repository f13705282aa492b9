\* Every program of the instance, on the interpreter, the VM and the tree interpreter.
SPECIFICATION Spec
CONSTANTS
  ByteBits = 4
  WordBits = 8
  NativeBits = 16
  Fuel = 20
  Turns = 100
  Programs <- MCPrograms
  Units <- Lowered
  Structs <- MCStructs
  Builtins <- MCBuiltins
INVARIANTS VMAgrees OracleAgrees NoInternalError ValuesInRange
PROPERTIES EndsWithTheTree
CHECK_DEADLOCK FALSE
