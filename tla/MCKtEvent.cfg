CONSTANTS
    t1 = t1
    t2 = t2
    t3 = t3
    b1 = b1
    b2 = b2
    Thread = {t1, t2, t3}
    Bit = {b1, b2}
    InitBits = {}
    Request <- Requests
SPECIFICATION FairSpec
CHECK_DEADLOCK FALSE
INVARIANTS
    TypeOK
    WaitersExact
    NoLostWakeup
    FinalizedOnce
PROPERTIES
    DeleteReleases
    CancelIsTaken
    TimedWaitReturns
    ImplementsEventBits
