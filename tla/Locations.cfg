SPECIFICATION FairSpec
CONSTANTS
    None = None
    Drivers = {d1, d2}
    Requests = {r1, r2}
    MaxHistory = 2
    MaxClock = 4
    MaxLosses = 2
INVARIANTS
    TypeOK
    HistoryKeepsLatest
    HistoryQueryComplete
    DeliveredInOrder
    SettledChannelLatest
PROPERTIES
    AnsweredIsPublished
    AcceptedIsPublished
