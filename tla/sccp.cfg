SPECIFICATION Spec
CONSTANTS
  ByteBits = 4
  WordBits = 8
  NativeBits = 16
  Structs <- NoStructs
  Builtins <- Output
  Graphs <- MCGraphs
INVARIANTS
  NoChangeIsLost
  SettlesOnFacts
CHECK_DEADLOCK FALSE
