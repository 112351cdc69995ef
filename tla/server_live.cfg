SPECIFICATION Spec
CONSTANTS
  a = a
  b = b
  c = c
  Reader = {a, b, c}
  TaskId = {1, 2, 3, 4}
  NSlots = 2
  Post <- Requests
  Children <- OneChild
  Kind <- AllCmpl
  IdSlot <- LastOnZero
  Rounds = 1
  IdleSleep = FALSE
  MayTerminate = FALSE
  Leaves = {}
  Faults = {}
INVARIANT NoneStranded
PROPERTY Served
