SPECIFICATION Spec
CONSTANTS
    None = None
    Clients = {c1, c2}
    Drivers = {d1, d2}
    Calls = {k1, k2}
    MaxClock = 0
    SerialClients = TRUE
    CommandsFail = FALSE
SYMMETRY Symmetry
INVARIANT FollowersIndexed
