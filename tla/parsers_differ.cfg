\* A local of a struct type of its own is not static for the parser written by hand.
SPECIFICATION MCSpec
CONSTANTS
  ByteBits = 4
  WordBits = 8
  NativeBits = 16
  MaxDepth = 4
  MaxErrors = 6
  Literals <- MCLiterals
  Files <- MCLastingFiles
INVARIANT ParsersAgree
