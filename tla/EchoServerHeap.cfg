SPECIFICATION EchoSpec
CONSTANTS
  Listener = Listener
  Conns = {c1, c2}
  Jobs = {Listener, c1, c2}
  Fds = {Listener, c1, c2}
  Sockets = {Listener, c1, c2}
  NULL = NULL
  EV_MAXEVENTS = 3
  ArmMayFail = TRUE
  Circuits <- EchoCircuits
  Net <- EchoNet
  Back <- EchoBack
  FatalCircuits <- EchoFatal
  MaxIn = 3
INVARIANT
  HeapFreed
CHECK_DEADLOCK FALSE
