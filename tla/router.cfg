SPECIFICATION Spec
CONSTANTS
  Models = {m1, m2}
  Requests = {r1, r2}
  ModelsMax = 1
  MaxPipe = 1
  MaxCalls = 3
INVARIANT TypeOK
INVARIANT LiveWithinLimit
INVARIANT UnloadedIsGone
INVARIANT LoadedSaidReady
CHECK_DEADLOCK FALSE
PROPERTY StopCompletes
PROPERTY ExitNoticed
