\* Two devices, one with an IPv6 address, two months of one day, any text of the
\* corpus alone or one of a few with others around it; two crashes or power
\* losses, one failed write, two rebuilds.
CONSTANTS
    TagMax = 3
    Devices = {1, 2}
    Address <- MCAddress
    Days = {1, 2}
    Months = {1, 2}
    MonthOf <- MCMonthOf
    Corpus <- MCCorpus
    CutAt <- MCCutAt
    MaxFailures = 1
    MaxCrashes = 2
    MaxRebuilds = 2
SPECIFICATION Spec
INVARIANTS
    SentIsRead
    NothingIsDropped
    RecordsAgree
    RebuiltIsTheFiles
    RebuiltRowIsLiveRow
CHECK_DEADLOCK FALSE
