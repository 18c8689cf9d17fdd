SPECIFICATION FairSpec
CONSTANTS
  MaxElements = 3
  LoopAt = {1, 2, 3}
PROPERTIES
  LoopResult
CHECK_DEADLOCK FALSE
