SPECIFICATION Spec
CONSTANTS
  Instances <- MCInstances
  InitialBuf = 4
  MaxBuf = 8
  ReadChunk = 1
  k1 = k1
  k2 = k2
  Watched = k1
CHECK_DEADLOCK FALSE
INVARIANTS
  HandledAsSent
  AnsweredInOrder
  OnlyOversizeRefused
  ReturnsLast
PROPERTIES
  
  StopReturns
