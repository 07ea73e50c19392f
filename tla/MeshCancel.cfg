CONSTANTS
    Node = {1, 2, 3}
    Link <- Row
    Source = {1}
    Managed = {}
    Ttl = 3
    CacheSize = 4
    PoolSize = 1
    Depth = 1
    MaxMsgs = 2
    Booting = {}
    Resetting = {}
SPECIFICATION Spec
PROPERTY
    CancelledWasForwarded
CHECK_DEADLOCK FALSE
