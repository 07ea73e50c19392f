CONSTANTS
    Node = {1, 2, 3, 4}
    Reach <- MCReach
    Image <- MCImage
    Flashed <- MCFlashed
    Reading <- MCReading
    Uptime = 2147483647
    Remote <- MCRemote
    Sensing = {1}
    Status = {2}
    Operator = {1}
    Ttl = 2
    FirstId = 65536
    KeySize = 1
    QueueDepth = 1
    Restarting = {2}
    MaxSends = 2
    Exposed = {2}
SPECIFICATION Spec
INVARIANTS
    TypeOK
    ArrivesAsSent
    EpochsStayApart
    OwnNeverHandled
    FitsEveryBuffer
PROPERTY
    TtlAloneEndsFloods
CHECK_DEADLOCK FALSE
