SPECIFICATION WriterFairSpec
CONSTANTS
  Entry = {e1, e2, e3}
  BufferSize = 1
  BatchSize = 2
INVARIANTS
  Conserved
  AtMostTwice
  AcceptOrder
  CloseDrains
PROPERTY EventuallySettled
CHECK_DEADLOCK FALSE
