\* Five days of three months, a time zone at or ahead of UTC, one failed pass.
CONSTANTS
    MaxDay = 5
    MonthOf <- MCMonthOf
    MonthEnd <- MCMonthEnd
    Devices = {dev1}
    DayChoices = {1, 2}
    Skews = {0, 1}
    IndexMisses = TRUE
    MaxFailures = 1
SPECIFICATION FairSpec
PROPERTIES
    KeepsRetentionDays
    ActivePartitionKept
    IndexEventuallyDropped
CHECK_DEADLOCK FALSE
