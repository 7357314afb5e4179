CONSTANTS
    d1 = d1
    d2 = d2
    Daemons = {d1, d2}
    Budget <- Talkative
    QueueCapacity = 1
    WireCapacity = 1
    MaxFaults = 2
SPECIFICATION FairSpec
INVARIANTS
    TypeOK
    OvertakingNeedsLoss
PROPERTIES
    TransportIsChannel
    BroadcastReturns
    AllArrive
