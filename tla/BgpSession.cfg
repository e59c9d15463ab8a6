CONSTANTS
  conf = conf
  a1 = a1
  a2 = a2
  Conf = conf
  Accept <- OneAccept
  Fd <- ThreeFds
  LocalId = 2
  OpenMsg <- ThreeIds
  OtherMsg <- Inputs
  Orderly = FALSE
  ConfHold = 9
  ConnectMode = "both"
  AdminOps = {"shutdown", "no_shutdown", "clear", "delete", "create"}
  EarlyShutdown = FALSE
SPECIFICATION Spec
INVARIANTS
  TypeOK
  SelectSafe
  TimersMatchStatus
  IdentityKnown
  RoutesFollowSession
  ShutIsDown
  DeletedIsDetached
PROPERTIES
  SessionPromise
