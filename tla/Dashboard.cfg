SPECIFICATION FairSpec
CONSTANTS
    Ids = {c1, c2, c3}
    MaxRetainedEndedConnections = 2
    View = {v1, v2}
    NoView = NoView
INVARIANTS
    TypeOK
    OrderMatchesDictionary
    ReceiverShowsNothingOpenForever
    CaughtUpViewIsExact
PROPERTY EndReachesTheView
CHECK_DEADLOCK FALSE
