SPECIFICATION LoopSpec
CONSTANTS
  j1 = j1
  j2 = j2
  Fds = {j1, j2}
  Jobs = {j1, j2}
  NULL = NULL
  EV_MAXEVENTS = 2
  Bags = {b1, b2}
  ArmMayFail = FALSE
  Overlap = FALSE
  Circuits <- SharedCircuits
  CircOf <- SharedCircOf
  Net <- SharedNet
  Back <- SharedBack
  FatalCircuits = {}
  MaxIn = 1
  MaxSignals = 0
PROPERTIES
  ResumesWhereItWaited
CHECK_DEADLOCK FALSE
