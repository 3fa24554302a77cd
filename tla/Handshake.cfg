SPECIFICATION FairSpec
CONSTANTS
    Clients <- MCClients
    Account <- MCAccount
    NoAccount = NoAccount
    Names <- MCNames
    Destination <- MCDestination
    Here <- MCHere
    RelayPort = 5000
    Leftover = {0, 2}
    BufSize = 32
PROPERTIES
    NegotiationSpec
    NegotiationEnds
CHECK_DEADLOCK FALSE
