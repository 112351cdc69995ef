SPECIFICATION Spec
CONSTANTS
  Models = {m1}
  Requests = {r1}
  ModelsMax = 0
  MaxPipe = 1
  MaxCalls = 1
CHECK_DEADLOCK FALSE
PROPERTY EveryExitNoticed
