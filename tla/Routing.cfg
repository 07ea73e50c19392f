\* Six foreign headers and three slots: the ring wraps twice, and a header
\* can be evicted and accepted again.
CONSTANTS
    Node <- MCNode
    MsgId <- MCMsgId
    Self = 1
    CacheSize = 3
    CountMod = 16
    MaxMarks = 7
    EarlyRx = FALSE
SPECIFICATION Spec
INVARIANTS
    TypeOK
    NoRepeatWithinWindow
    RefusedWasAccepted
    RingIsTailOfMarked
PROPERTY ImplementsSeenWindow
