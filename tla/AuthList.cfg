SPECIFICATION Spec
CONSTANTS
    Thread = {t1, t2, t3}
    Ip = {ip1, ip2, ip3}
    Block = {b1, b2}
    BlockItems = 2
    NoThread = NoThread
    NoBlock = NoBlock
    Garbage = Garbage
SYMMETRY Interchangeable
INVARIANT NoStaleAccess
PROPERTY WhitelistSpec
