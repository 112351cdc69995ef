SPECIFICATION Spec
CONSTANTS
  Size = 3
  NSeqMax = 1
  MaxPos = 4
  Unified = TRUE
  NSwa = 2
  NUbatch = 1
  MaxBatch = 2
  MaxSeqs = 1
  MaxPending = 1
  RmRanges <- Suffixes
  CpRanges <- None
  AddRanges <- All
  Deltas <- Left
  DivRanges <- None
  Divs <- None
  KeepSeqs = {}
  Faults = {"shift"}
INVARIANT RowsMatch
