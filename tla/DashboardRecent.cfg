SPECIFICATION Spec
CONSTANTS
    Ids = {c1, c2, c3}
    MaxRetainedEndedConnections = 2
    View = {v1}
    NoView = NoView
PROPERTY JustEndedIsRecent
CHECK_DEADLOCK FALSE
