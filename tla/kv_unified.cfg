SPECIFICATION Spec
CONSTANTS
  Size = 3
  NSeqMax = 2
  MaxPos = 2
  Unified = TRUE
  NSwa = 0
  NUbatch = 2
  MaxBatch = 3
  MaxSeqs = 1
  MaxPending = 0
  RmRanges <- Parts
  CpRanges <- Suffixes
  AddRanges <- None
  Deltas <- None
  DivRanges <- None
  Divs <- None
  KeepSeqs = {0, 1}
  Faults = {"compute"}
INVARIANT TypeOK
INVARIANT SlotsStillValid
PROPERTY NoSlotRestores
PROPERTY NoSpuriousFailure
PROPERTY ImplementsStore
