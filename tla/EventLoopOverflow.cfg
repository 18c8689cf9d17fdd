SPECIFICATION LoopSpec
CONSTANTS
  j1 = j1
  j2 = j2
  Fds = {j1, j2}
  Jobs = {j1, j2}
  NULL = NULL
  EV_MAXEVENTS = 1
  Bags = {b1, b2, b3}
  ArmMayFail = FALSE
  Overlap = TRUE
  Circuits <- OwnCircuits
  CircOf <- OwnCircOf
  Net <- OwnNet
  Back <- OwnBack
  FatalCircuits = {}
  MaxIn = 1
  MaxSignals = 0
INVARIANTS
  NoWaiterAbandoned
CHECK_DEADLOCK FALSE
