CONSTANTS
    self = self
    c1 = c1
    c2 = c2
    c3 = c3
    t1 = t1
    t2 = t2
    t3 = t3
    Caller = {self, c1, c2, c3}
    Self = self
    Thread = {t1, t2, t3}
    Calls = 1
SPECIFICATION FairThreadsSpec
CHECK_DEADLOCK FALSE
INVARIANTS
    TypeOK
    DestroyedOnce
    ReapedOnce
    ReturnsInitialised
PROPERTIES
    DetachedIsFreed
    CanceledIsReaped
