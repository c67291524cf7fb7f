SPECIFICATION FairSpec
CONSTANTS
    None = None
    Clients = {c1, c2}
    Drivers = {d1, d2}
    TimerIds = {t1, t2, t3}
    Tasks = {k1, k2}
INVARIANTS
    TypeOK
    OneTimerPerClient
    SlowOnlyWhenOffline
PROPERTIES
    GoneStaysGone
    ServedForEver
CHECK_DEADLOCK FALSE
