SPECIFICATION Spec
CONSTANTS
  Entry = {e1, e2, e3}
  BufferSize = 1
  BatchSize = 2
SYMMETRY EntrySymmetry
INVARIANT NeverFailsRequest
CHECK_DEADLOCK FALSE
