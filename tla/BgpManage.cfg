SPECIFICATION Spec
CONSTANTS
  Caps <- MCCaps
  PeerOrder <- MCPeers
  GroupOrder <- MCGroups
  Environment <- MCEnv
CHECK_DEADLOCK FALSE
INVARIANTS
  SessionCurrent
  PolicyCurrent
  GroupsConsistent
  ClearReaches
  
