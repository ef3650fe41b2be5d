SPECIFICATION Spec
CONSTANTS
    t1 = t1
    t2 = t2
    t3 = t3
    Thread = {t1, t2, t3}
    NoThread = NoThread
    MaxDepth = 2
SYMMETRY MCSym
INVARIANTS
    TypeOK
    GuestExclusion
    NoFalseOwner
    HolderRecognised
    NoSelfDeadlock
PROPERTIES
    ImplementsLock
