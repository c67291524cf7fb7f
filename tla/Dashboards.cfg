SPECIFICATION FairSpec
CONSTANTS
    None = None
    Drivers = {d1, d2}
    Reporters = {d1}
    Requests = {r1}
    Lifetime = 1
    MaxTime = 1
    MaxReports = 2
INVARIANTS
    TypeOK
    AnswersAreTrue
    ServedToHolder
    ServedWhole
    ShownNotOlder
PROPERTY EveryRequestAnswered
