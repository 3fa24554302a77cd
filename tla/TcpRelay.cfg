SPECIFICATION ReadingSpec
CONSTANTS
    MaxSent = 3
    InCapacity = 3
    OutCapacity = 1
    BufferSize = 2
    FlushAt = 2
INVARIANTS
    TypeOK
    NothingIsLostInTransit
    CloserIsHeardOut
    TotalsMatchRelayed
PROPERTY SessionEnds
CHECK_DEADLOCK FALSE
