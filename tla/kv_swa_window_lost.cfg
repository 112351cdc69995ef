SPECIFICATION Spec
CONSTANTS
  Size = 4
  NSeqMax = 2
  MaxPos = 4
  Unified = TRUE
  NSwa = 3
  NUbatch = 1
  MaxBatch = 4
  MaxSeqs = 1
  MaxPending = 0
  RmRanges <- All
  CpRanges <- None
  AddRanges <- None
  Deltas <- None
  DivRanges <- None
  Divs <- None
  KeepSeqs = {}
  Faults = {}
INVARIANT WindowKept
