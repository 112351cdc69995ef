SPECIFICATION Spec
CONSTANTS
  NThreads = 3
  Graphs <- One
  Requests = {1, 2, 4}
  Extra = 1
  MaxGraphs = 2
  Aborts = TRUE
INVARIANT TypeOK
INVARIANT InputsReady
INVARIANT QuietReset
INVARIANT ResultTrue
CHECK_DEADLOCK FALSE
PROPERTY Returns
