SPECIFICATION FairSpec
CONSTANTS
  Daemon <- OneDaemon
  Fd = {"f1", "f2"}
  Type = {"static"}
  Order <- OneOrder
  Cap = 1
  QueueBound = 1
  DueBound = 1
  InBound = 1
  MayStop = TRUE
  MayKill = FALSE
  MaySplit = TRUE
INVARIANTS
  Subscribed
PROPERTIES
  Reconnects
