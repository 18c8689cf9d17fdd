SPECIFICATION EchoFairSpec
CONSTANTS
  Listener = Listener
  Conns = {c1, c2}
  Jobs = {Listener, c1, c2}
  Fds = {Listener, c1, c2}
  Sockets = {Listener, c1, c2}
  NULL = NULL
  EV_MAXEVENTS = 3
  ArmMayFail = TRUE
  Circuits <- EchoCircuits
  Net <- EchoNet
  Back <- EchoBack
  FatalCircuits <- EchoFatal
  MaxIn = 3
INVARIANTS
  EchoTypeOK
  ClientsCounted
  NoNullReturn
  BuffersLive
  EchoIsFaithful
  KeepsListening
PROPERTIES
  PendingAccepted
  EchoArrives
CHECK_DEADLOCK FALSE
