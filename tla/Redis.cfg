SPECIFICATION Spec
CONSTANTS
    General = General
    Instances = {i1, i2}
    Drivers = {d1}
    MaxClock = 2
    MaxLosses = 1
SYMMETRY Symmetry
VIEW Seen
INVARIANTS
    TypeOK
    PublishedOnce
    HandlerCacheCurrent
PROPERTY HandlerCacheAdvances
