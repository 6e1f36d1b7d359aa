\* Two months of two receipt times, three rows, pages of one row, ranges that
\* begin or end with the last day of the first month.
CONSTANTS
    LastMonth = 2
    Slots = 2
    MaxRows = 3
    Unseeded = Unseeded
    TailLimit = 1
    Recent = 2
    Offsets = {0, 1}
    Limits = {1}
    Bounds = {0, 2}
    NoHost = NoHost
    HostOf <- MCHostOf
    AddressOf <- MCAddressOf
SPECIFICATION FairSpec
INVARIANTS
    TailHasNoGap
    PageIsStable
    HasMoreIsRight
    DevicesAreRight
PROPERTY
    RowsAreShown
CHECK_DEADLOCK FALSE
