SPECIFICATION Spec
CONSTANTS
  Size = 2
  NSeqMax = 1
  MaxPos = 2
  Unified = TRUE
  NSwa = 0
  NUbatch = 1
  MaxBatch = 2
  MaxSeqs = 1
  MaxPending = 0
  RmRanges <- Ends
  CpRanges <- None
  AddRanges <- Tails
  Deltas <- Left
  DivRanges <- Tails
  Divs <- Halves
  KeepSeqs = {}
  Faults = {"shift_abort", "shift", "compute"}
PROPERTY ImplementsStore
PROPERTY DecodeReturns
