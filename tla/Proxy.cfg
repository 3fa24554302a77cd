SPECIFICATION FairSpec
CONSTANTS
    View = {v1, v2}
    NoView = NoView
    MaxTasks = 3
INVARIANTS
    TypeOK
    OneCallInFlight
    ShownStateIsTrue
PROPERTY ProxyComesUp
CHECK_DEADLOCK FALSE
