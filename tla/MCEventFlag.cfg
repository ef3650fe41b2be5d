CONSTANTS
    owner = owner
    other = other
    b1 = b1
    Thread = {owner, other}
    Bit = {b1}
    InitBits = {}
    Request <- Requests
    Asks <- Owned
    Modifier = {owner}
    Single = TRUE
    MaxDrift = 1
SPECIFICATION FairSpec
CHECK_DEADLOCK FALSE
INVARIANT MirrorAgrees
PROPERTIES
    SetReachesWaiters
    DeleteEmpties
