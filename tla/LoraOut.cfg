CONSTANTS
    Depth = 2
    MaxMsgs = 5
SPECIFICATION Spec
INVARIANTS
    TypeOK
    TakenInOrder
    OneTransmissionPerPublish
    NewestNotStranded
PROPERTIES
    BothThreadsStart
    NewestIsTaken
