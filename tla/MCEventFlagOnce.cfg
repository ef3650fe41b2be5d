CONSTANTS
    owner = owner
    other = other
    b1 = b1
    Thread = {owner, other}
    Bit = {b1}
    InitBits = {}
    Request <- Requests
    Asks <- SharedOneBit
    Modifier = {owner}
    Single = FALSE
    MaxDrift = 1
SPECIFICATION CountedSpec
CHECK_DEADLOCK FALSE
INVARIANTS
    ConsumedOnce
