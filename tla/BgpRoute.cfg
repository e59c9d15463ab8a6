SPECIFICATION Spec
CONSTANTS
    Self = "self"
    DefaultRoute = 100
    Peers <- MCPeers
    Nets <- MCNets
    Table <- MCTable
    Under <- MCUnder
    Environment <- MCEnvironment
INVARIANTS TableCurrent SelectionOrderFree ToldAgrees  AggregateExact
CHECK_DEADLOCK FALSE
