SPECIFICATION FairSpec
CONSTANTS
    None = None
    Drivers = {d1}
    Requests = {r1}
    MaxHistory = 2
    MaxClock = 1
    MaxLosses = 1
PROPERTY SavedIsPublished
