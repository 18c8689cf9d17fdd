SPECIFICATION LoopFairSpec
CONSTANTS
  j1 = j1
  j2 = j2
  Fds = {j1, j2}
  Jobs = {j1, j2}
  NULL = NULL
  EV_MAXEVENTS = 2
  Bags = {b1, b2}
  ArmMayFail = FALSE
  Overlap = FALSE
  Circuits <- OwnCircuits
  CircOf <- OwnCircOf
  Net <- OwnNet
  Back <- OwnBack
  FatalCircuits = {}
  MaxIn = 1
  MaxSignals = 1
PROPERTIES
  SignalStops
CHECK_DEADLOCK FALSE
