SPECIFICATION Spec
CONSTANTS
  Size = 3
  NSeqMax = 2
  MaxPos = 4
  Unified = FALSE
  NSwa = 2
  NUbatch = 2
  MaxBatch = 2
  MaxSeqs = 1
  MaxPending = 1
  RmRanges <- Suffixes
  CpRanges <- All
  AddRanges <- None
  Deltas <- None
  DivRanges <- None
  Divs <- None
  KeepSeqs = {}
  Faults = {"compute"}
INVARIANT NoHoles
INVARIANT WindowKept
