CONSTANTS
    Node = {1, 2, 3, 4}
    Link <- Diamond
    Source = {1}
    Managed <- ManagedRelay
    Ttl = 3
    CacheSize = 4
    PoolSize = 1
    Depth = 1
    MaxMsgs = 1
    Booting = {}
    Resetting = {1, 2}
SPECIFICATION Spec
INVARIANTS
    TypeOK
    FloodStaysWithinTtl
    DirectMeansNeighbour
    ConfigStaysInRange
    DeliveredAtMostOnce
    ForwardedAtMostOnce
PROPERTY FloodDies
CHECK_DEADLOCK FALSE
