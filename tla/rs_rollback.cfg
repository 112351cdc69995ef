SPECIFICATION Spec
CONSTANTS
  Size = 3
  NRsSeq = 1
  NUbatch = 4
  Sequential = FALSE
  MaxBatch = 2
  MaxGroups = 2
  Pairs <- Coupled
  MaxLen = 2
  MaxHeld = 3
  RmRanges <- Cut
  Deltas = {}
  Divs = {}
  Saves = {"one", "all"}
  Careful = FALSE
PROPERTY RollbackExact
VIEW LiveView
