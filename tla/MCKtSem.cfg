SPECIFICATION FairSpec
CONSTANTS
    t1 = t1
    t2 = t2
    t3 = t3
    Thread = {t1, t2, t3}
    MaxValue = 2
    InitValue = 1
    Count = {1, 2}
INVARIANTS
    TypeOK
    WaitersExact
    NoLostWakeup
    FinalizedOnce
PROPERTIES
    DeleteReleases
    CancelReleases
    TimedWaitReturns
    ImplementsSemaphore
CHECK_DEADLOCK FALSE
