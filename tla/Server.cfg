SPECIFICATION FairSpec
CONSTANTS
    Client = {c1, c2}
    Thread = {t1, t2, t3}
    Fd = {f1, f2}
    NoClient = NoClient
    NoFd = NoFd
INVARIANTS
    TypeOK
    StructuresAreListed
    DescriptorsAreOwned
    CollectIsComplete
PROPERTY ClientIsAccepted
CHECK_DEADLOCK FALSE
