SPECIFICATION AnsweringSpec
CONSTANTS
    Addr = {a1, a2, a3}
    Fd = {f1, f2, f3}
    NoAddr = NoAddr
    NoFd = NoFd
    MaxPollFds = 4
    MaxId = 4
INVARIANTS
    TypeOK
    PollSetMatchesList
    SocketsMatchDestinations
    ReportsMatchList
    ErrorsAreNotPassedOver
PROPERTIES
    LifecycleSpec
    AssociationEnds
