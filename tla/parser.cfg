SPECIFICATION MCSpec
CONSTANTS
  ByteBits = 4
  WordBits = 8
  NativeBits = 16
  MaxDepth = 4
  MaxErrors = 6
  Literals <- MCLiterals
  Files <- MCFiles
INVARIANTS ParsedAsWritten ParsersAgree ErrorsAreContained
PROPERTY EveryFileEnds
