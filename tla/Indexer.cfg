\* Two months, two process runs, every kind of failure.
CONSTANTS
    Months = {m1, m2}
    NoMonth = NoMonth
    HardLimit = 2
    SoftLimit = 1
    FlushMax = 2
    Faults = {"dir", "open", "row", "fts", "rollback", "commit"}
    MaxMsgs = 3
    MaxLives = 2
SPECIFICATION FairSpec
INVARIANTS
    RowsInOrder
    Accounted
    WrittenIsIndexed
PROPERTIES
    EventuallySettled
    StopReturns
    ImplementsSearchIndex
CHECK_DEADLOCK FALSE
