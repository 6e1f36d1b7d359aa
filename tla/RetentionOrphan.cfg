\* A pass fails between the database and the day files; the next completes.
CONSTANTS
    MaxDay = 5
    MonthOf <- MCMonthOf
    MonthEnd <- MCMonthEnd
    Devices = {dev1}
    DayChoices = {1}
    Skews = {0}
    IndexMisses = FALSE
    MaxFailures = 1
SPECIFICATION Spec
INVARIANT
    ExpiredRawIsGone
CHECK_DEADLOCK FALSE
