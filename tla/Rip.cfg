SPECIFICATION MCSpec
CONSTANTS
  Prefixes <- MCPrefixes
  Martian = {"mart"}
  Ifs <- MCIfs
  Infinity = 4
  Default = "dflt"
  Nbrs <- MCNbrs
  NbrIf <- MCNbrIf
  NbrNet <- MCNbrNet
  Types = {"connect", "ospf"}
  NPrefixes <- MCNPrefixes
  Covers <- MCCovers
  LinkLocal <- MCLinkLocal
  NIfs <- MCIfs
  NInfinity = 4
  NMaxCount = 3
  NEnvironment <- MCNEnvironment
  Environment <- MCEnvironment
INVARIANTS  TriggersKept AggregatesExact
 
CHECK_DEADLOCK FALSE
