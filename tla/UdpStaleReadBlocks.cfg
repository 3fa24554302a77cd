SPECIFICATION FairSpec
CONSTANTS
    Addr = {a1, a2}
    Fd = {f1, f2}
    NoAddr = NoAddr
    NoFd = NoFd
    MaxPollFds = 4
    MaxId = 3
PROPERTY AssociationEnds
