\* A write fails half way in a running process.
CONSTANTS
    Days = {d1, d2}
    NoDay = NoDay
    HardLimit = 2
    SoftLimit = 1
    FlushMax = 2
    WriteErrors = TRUE
    LateProducers = FALSE
    MaxMsgs = 3
    MaxLives = 1
SPECIFICATION Spec
INVARIANT
    NoMergedLine
CHECK_DEADLOCK FALSE
