SPECIFICATION FairSpec
CONSTANTS
  Daemon <- OneDaemon
  Fd = {"f1", "f2"}
  Type = {"static"}
  Order <- OneOrder
  Cap = 3
  QueueBound = 3
  DueBound = 9
  InBound = 2
  MayStop = FALSE
  MayKill = TRUE
  MaySplit = FALSE
INVARIANTS
  InOrder
PROPERTIES
  QueueDrains
