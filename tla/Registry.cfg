SPECIFICATION FairSpec
CONSTANTS
    None = None
    Clients = {c1, c2}
    Drivers = {d1, d2}
    Calls = {k1, k2}
    MaxClock = 1
    SerialClients = TRUE
    CommandsFail = TRUE
INVARIANTS
    TypeOK
    SubscribersFollow
PROPERTY CallsComplete
