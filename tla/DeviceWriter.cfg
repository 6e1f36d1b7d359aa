\* One device through midnight, a kill or power loss, and a restart.
CONSTANTS
    Days = {d1, d2}
    NoDay = NoDay
    HardLimit = 2
    SoftLimit = 1
    FlushMax = 2
    WriteErrors = FALSE
    LateProducers = FALSE
    MaxMsgs = 4
    MaxLives = 2
SPECIFICATION Spec
INVARIANTS
    NoMergedLine
    InOrder
    OfferedInOrder
PROPERTIES
    DurableStays
    LastFlushIsDurable
CHECK_DEADLOCK FALSE
