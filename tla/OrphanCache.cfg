SPECIFICATION Spec
CONSTANTS
    General = General
    Instances = {i1}
    Drivers = {d1}
    MaxClock = 2
    MaxLosses = 0
INVARIANT GatewayCacheCurrent
