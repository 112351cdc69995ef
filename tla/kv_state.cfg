SPECIFICATION StateSpec
CONSTANTS
  Size = 2
  NSeqMax = 2
  MaxPos = 1
  Unified = FALSE
  NSwa = 0
  NUbatch = 2
  MaxBatch = 2
  MaxSeqs = 1
  MaxPending = 2
  RmRanges <- Suffixes
  CpRanges <- Everywhere
  AddRanges <- Everywhere
  Deltas <- Left
  DivRanges <- Nowhere
  Divs <- Nowhere
  KeepSeqs = {}
  Faults = {}
  Careful = TRUE
  Whole = FALSE
INVARIANT CellsConsistent
INVARIANT RowsMatch
PROPERTY ImplementsSaved
