SPECIFICATION FairSpec
CONSTANTS
  MaxElements = 5
  LoopAt = {1, 2, 3, 4, 5}
INVARIANTS
  TypeOK
  NoUseAfterFree
  NoLeak
PROPERTIES
  ImplementsNetShape
  CallReturns
CHECK_DEADLOCK FALSE
