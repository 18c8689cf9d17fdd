SPECIFICATION FairSpec
CONSTANTS
  MaxElements = 3
  LoopAt = {1, 2, 3}
PROPERTIES
  AnyCallReturns
CHECK_DEADLOCK FALSE
