SPECIFICATION FairSpec
CONSTANTS
    x = x
    y = y
    z = z
    none = none
    Clients = {x, y, z}
    MaxNodes = 3
    None = none
INVARIANTS TypeOK SocketsListed WalksOnList
PROPERTIES ClientsServed
CHECK_DEADLOCK FALSE
