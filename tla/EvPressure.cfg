SPECIFICATION EvSpec
CONSTANTS
  EV_MAXEVENTS = 2
  Fds = {f1, f2}
  Jobs = {j1, j2}
  Bags = {b1, b2, b3}
  NULL = NULL
  ArmMayFail = TRUE
  Overlap = TRUE
INVARIANTS
  EvTypeOK
  CounterExact
  NoDanglingBag
PROPERTIES
  ImplementsWaits
CHECK_DEADLOCK FALSE
