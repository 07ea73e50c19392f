\* Packets may arrive while main() is still inside ts_routing_init.
CONSTANTS
    Node <- MCNode
    MsgId <- MCMsgId
    Self = 1
    CacheSize = 2
    CountMod = 16
    MaxMarks = 4
    EarlyRx = TRUE
SPECIFICATION Spec
INVARIANT JustMarkedIsDuplicate
