SPECIFICATION Spec
CONSTANTS
  Prefix <- MCPrefix
  Default = "D"
  Order <- MCOrder
  Gate <- MCGate
  Path <- MCPath
  Iface = {"e1", "e2"}
  Addr <- MCAddr
  Client = {"c1"}
  Martian = {}
  Environment <- AllEnv
  rtm_table_default = 0
CHECK_DEADLOCK FALSE
INVARIANTS
  SelectionCurrent
  KernelInStep
  OriginExact
  RedistExact
  CloseClean
