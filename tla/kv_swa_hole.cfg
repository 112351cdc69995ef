SPECIFICATION Spec
CONSTANTS
  Size = 4
  NSeqMax = 2
  MaxPos = 4
  Unified = TRUE
  NSwa = 2
  NUbatch = 1
  MaxBatch = 3
  MaxSeqs = 1
  MaxPending = 0
  RmRanges <- Suffixes
  CpRanges <- None
  AddRanges <- None
  Deltas <- None
  DivRanges <- None
  Divs <- None
  KeepSeqs = {}
  Faults = {"compute"}
INVARIANT NoHoles
