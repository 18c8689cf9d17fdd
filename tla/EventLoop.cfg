SPECIFICATION LoopFairSpec
CONSTANTS
  j1 = j1
  j2 = j2
  Fds = {j1, j2}
  Jobs = {j1, j2}
  NULL = NULL
  EV_MAXEVENTS = 2
  Bags = {b1, b2}
  ArmMayFail = TRUE
  Overlap = FALSE
  Circuits <- OwnCircuits
  CircOf <- OwnCircOf
  Net <- OwnNet
  Back <- OwnBack
  FatalCircuits = {j2}
  MaxIn = 1
  MaxSignals = 1
INVARIANTS
  TypeOK
  FailedIsOver
  NoWaiterAbandoned
PROPERTIES
  UsesEv
  ResumesWhereItWaited
  ReadyIsServed
  LoopEnds
  FatalErrorStops
  SignalStopsAtNextEvent
CHECK_DEADLOCK FALSE
