\* Two addresses, two handlers at a time, two failures within two units of
\* time lock for two.
CONSTANTS
    Addresses = {a1, a2}
    Handlers = {t1, t2}
    MaxAttempts = 2
    Window = 2
    Lockout = 2
    MaxTime = 4
SPECIFICATION LimiterSpec
INVARIANTS
    AttemptsAreLimited
    LockedForCause
CHECK_DEADLOCK FALSE
