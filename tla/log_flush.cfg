SPECIFICATION Spec
CONSTANTS
  Capacity = 3
  Files = {"a.log"}
  MaxMsgs = 2
  MaxCalls = 1
PROPERTY FlushPrints
CHECK_DEADLOCK FALSE
