CONSTANTS
    PoolSize = 2
    Key = {k1, k2}
    DelayConfig <- MCDelayConfig
    Rssi <- MCRssi
    MaxTickets = 4
SPECIFICATION Spec
INVARIANTS
    TypeOK
    ClaimedAtMostOnce
    CancelledNeverClaimed
    ClaimedOnlyWhenDue
    SlotDiscipline
    WeakestForwardsFirst
PROPERTIES
    ImplementsForwardPool
    ArmedSlotIsEmptied
