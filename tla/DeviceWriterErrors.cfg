\* File system calls fail in a running process, which may be killed, lose power
\* and restart: the writer still implements DeviceLog, still accounts for every
\* message, and does not get stuck.
CONSTANTS
    Days = {d1, d2}
    NoDay = NoDay
    HardLimit = 2
    SoftLimit = 1
    FlushMax = 2
    WriteErrors = TRUE
    LateProducers = FALSE
    MaxMsgs = 3
    MaxLives = 2
SPECIFICATION FairSpec
INVARIANT
    Accounted
PROPERTIES
    ImplementsDeviceLog
    EventuallySettled
    StopReturns
CHECK_DEADLOCK FALSE
