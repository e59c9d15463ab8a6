CONSTANTS
  conf = conf
  a1 = a1
  a2 = a2
  Conf = conf
  Accept = {}
  Fd <- TwoFds
  LocalId = 1
  OpenMsg <- Higher
  OtherMsg <- Inputs
  Orderly = TRUE
  ConfHold = 9
  ConnectMode = "active"
  AdminOps = {"shutdown", "no_shutdown"}
  EarlyShutdown = FALSE
SPECIFICATION FairSpec
PROPERTIES
  HandshakeEnds
  DownRetries
