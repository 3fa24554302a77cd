SPECIFICATION FairSpec
CONSTANTS
    View = {v1, v2}
    MaxWindows = 2
    MaxRelayed = 2
    MaxLaunches = 2
INVARIANTS
    TypeOK
    SessionMatchesNative
    EveryByteIsAccountedFor
PROPERTY RelayedIsPublished
CHECK_DEADLOCK FALSE
