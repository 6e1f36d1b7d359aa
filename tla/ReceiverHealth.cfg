\* Ten seconds are one unit of time; the event loop is at most that late.
CONSTANTS
    Errors = {udp, tcp}
    Heartbeat = 1
    RetryInterval = 3
    StaleAfter = 6
    None = None
    Slack = 1
    ClockSteps <- MCClockSteps
    MaxSteps = 1
    MaxTime = 10
SPECIFICATION Spec
INVARIANTS
    HealthyMeansServing
    NoFalseAlarm
    ErrorIsShown
CHECK_DEADLOCK FALSE
