SPECIFICATION BoundedSpec
CONSTANTS
    None = None
    Clients = {c1, c2}
    Drivers = {d1, d2}
    Calls = {k1, k2}
    TimerIds = {t1, t2, t3}
    MaxClock = 2
    SerialClients = TRUE
    CommandsFail = FALSE
SYMMETRY Symmetry
VIEW Seen
INVARIANT ServedIsFollowed
PROPERTIES
    ImplementsFollowing
    ViewsFollowCache
CHECK_DEADLOCK FALSE
