SPECIFICATION BindFairSpec
CONSTANTS
  MaxElements = 6
  LoopAt = {1}
  FirstSizes = {1, 2, 3}
  SecondSizes = {1, 2, 3}
INVARIANTS
  BindDrawings
  NoUseAfterFree
  NoLeak
PROPERTIES
  BindReturns
CHECK_DEADLOCK FALSE
