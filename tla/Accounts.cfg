\* Two handlers at a time on two users and two sessions.
CONSTANTS
    Threads = {t1, t2}
    Tokens = {k1, k2}
    MaxUsers = 2
    Nobody = Nobody
SPECIFICATION Spec
INVARIANTS
    SessionsHaveUsers
    DeactivationRevokes
    AdminRemains
