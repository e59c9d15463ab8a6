CONSTANTS
  conf = conf
  a1 = a1
  a2 = a2
  Conf = conf
  Accept <- OneAccept
  Fd <- TwoFds
  LocalId = 2
  OpenMsg <- Lower
  OtherMsg <- Inputs
  Orderly = TRUE
  ConfHold = 9
  ConnectMode = "both"
  AdminOps = {}
  EarlyShutdown = FALSE
SPECIFICATION Spec
PROPERTIES
  NewcomerYields
