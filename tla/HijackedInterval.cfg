SPECIFICATION SessionsSpec
CONSTANTS
    None = None
    Clients = {c1}
    Drivers = {d1, d2}
    Calls = {k1, k2}
    TimerIds = {t1, t2}
    MaxClock = 1
    SerialClients = TRUE
    CommandsFail = FALSE
SYMMETRY Symmetry
INVARIANT IntervalForSubscribedDriver
CHECK_DEADLOCK FALSE
