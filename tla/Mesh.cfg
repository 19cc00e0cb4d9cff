CONSTANTS
    Broadcast = 255
    RteSize = 2
    HistSize = 4
    MeshPend = 2
    OwnPend = 2
    DiscHops = 3
    ScoreMax = 3
    SeqRange = 8
    Fifo = 2
    Node <- Nodes
    Net <- Nets
SPECIFICATION FairSpec
INVARIANTS DeliveredOnce AckedWasDelivered RoutesSane DiscoveryMarked
    SendsBounded RoutesAreWays
PROPERTIES Quiesces
CHECK_DEADLOCK FALSE
