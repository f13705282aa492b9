SPECIFICATION Spec
CONSTANTS
  Channels = {"out", "err"}
  Inputs = {0, 3}
  Quotas = {0, 3}
  InRoom = 2
  OutRoom = 2
  ReadLimit = 1
INVARIANTS
  AnsweredOnce
  FullPipeIsDrained
  UndisturbedOutputIsWhole
PROPERTIES
  ProcessEnds
  ImplementsCall
CHECK_DEADLOCK FALSE
