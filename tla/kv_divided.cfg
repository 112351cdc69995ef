SPECIFICATION Spec
CONSTANTS
  Size = 2
  NSeqMax = 1
  MaxPos = 3
  Unified = TRUE
  NSwa = 0
  NUbatch = 2
  MaxBatch = 2
  MaxSeqs = 1
  MaxPending = 0
  RmRanges <- All
  CpRanges <- None
  AddRanges <- None
  Deltas <- None
  DivRanges <- All
  Divs <- Halves
  KeepSeqs = {}
  Faults = {}
INVARIANT RowsMatch
