\* Two devices, three messages, two failed attempts to start.
CONSTANTS
    Devices = {dev1, dev2}
    MaxMsgs = 3
    MaxFailures = 2
SPECIFICATION FairSpec
INVARIANTS
    StopLosesNothing
    AttemptsDoNotOverlap
PROPERTIES
    EventuallyServes
    StopTerminates
CHECK_DEADLOCK FALSE
