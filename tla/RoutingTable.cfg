CONSTANTS
    Node = {1, 2, 3}
    TableSize = 2
    StaleAfter = 2
    AgeInterval = 1
    Backlog = 2
    Word = 256
    MaxClock = 6
SPECIFICATION Spec
INVARIANTS
    TypeOK
    OneCurrentEntryPerNode
    SilentNodesLeave
PROPERTIES
    AgingKeepsFresh
    EvictsLongestSilent
