SPECIFICATION FairSpec
CONSTANTS
    d1 = d1
    d2 = d2
    j1 = j1
    j2 = j2
    None = None
    Sockets = {s1, s2}
    Drivers = {d1, d2}
    Tokens = {j1, j2}
    DriverOf <- MCDriverOf
    TimerIds = {t1, t2, t3}
    Tasks = {k1, k2}
    AuthFails = TRUE
INVARIANTS
    TypeOK
    SocketsWatched
PROPERTIES
    EvictedForCause
    ExpiredTokenLeaves
CHECK_DEADLOCK FALSE
