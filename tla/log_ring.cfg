SPECIFICATION Spec
CONSTANTS
  Capacity = 3
  Files = {"a.log", "b.log"}
  MaxMsgs = 7
  MaxCalls = 3
INVARIANT TypeOK
INVARIANT Flushed
PROPERTY ImplementsLog
PROPERTY PauseReturns
PROPERTY Printed
CHECK_DEADLOCK FALSE
