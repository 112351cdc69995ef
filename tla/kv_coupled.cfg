SPECIFICATION Spec
CONSTANTS
  Size = 3
  NSeqMax = 2
  MaxPos = 2
  Unified = TRUE
  NSwa = 0
  NUbatch = 2
  MaxBatch = 2
  MaxSeqs = 2
  MaxPending = 0
  RmRanges <- None
  CpRanges <- None
  AddRanges <- None
  Deltas <- None
  DivRanges <- None
  Divs <- None
  KeepSeqs = {}
  Faults = {"compute"}
PROPERTY FailedGraphAddsNothing
