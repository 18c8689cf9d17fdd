SPECIFICATION ClientsFairSpec
CONSTANTS
  EV_MAXEVENTS = 3
  Fds <- ClientFds
  Jobs <- ClientJobs
  Sockets = {"conn"}
  NULL = NULL
  ArmMayFail = TRUE
  Circuits <- ClientCircuits
  Net <- ClientNet
  Back <- ClientBack
  FatalCircuits <- ClientFatal
  MaxAddrs = 2
  Intervals <- ClientIntervals
  MaxIn = 2
INVARIANTS
  ClientsTypeOK
  SoundCalls
  ResumesItsElement
  LockStep
  VerifiedBeforeRequest
  NoOrphans
  OpensOnce
  OpenWhileUsed
PROPERTIES
  SleepEnds
  HangupEnds
CHECK_DEADLOCK FALSE
