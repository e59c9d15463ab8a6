CONSTANTS
  conf = conf
  a1 = a1
  a2 = a2
  Conf = conf
  Accept <- TwoAccepts
  Fd <- ThreeFds
  LocalId = 1
  OpenMsg <- Higher
  OtherMsg <- Inputs
  Orderly = TRUE
  ConfHold = 9
  ConnectMode = "both"
  AdminOps = {"shutdown", "no_shutdown", "clear"}
  EarlyShutdown = FALSE
SPECIFICATION Spec
INVARIANTS
  ReaderAlive
  NoDescriptorLeak
