SPECIFICATION Spec
CONSTANTS
    None = None
    Clients = {c1, c2}
    Drivers = {d1, d2}
    Calls = {k1, k2}
    MaxClock = 2
    SerialClients = FALSE
    CommandsFail = FALSE
SYMMETRY Symmetry
INVARIANT RegistryMatchesRedis
PROPERTY SettledCacheAdvances
