SPECIFICATION Spec
CONSTANTS
    Client = {c1, c2, c3}
    Ip = {ip1, ip2}
SYMMETRY Interchangeable
INVARIANTS
    TypeOK
    ServedAreAuthorized
    AuthIpsAreDistinct
    ReportsMatchSessions
PROPERTY LifecycleSpec
CHECK_DEADLOCK FALSE
