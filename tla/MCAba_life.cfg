CONSTANTS
    Threads = {t1, t2}
    Newcomers = {}
    Pointers = {p1}
    Worlds = {w1, w2, w3, w4, w5, w6, w7}
    Nil = Nil
    MaxTimestamp = 2
SPECIFICATION Spec
CHECK_DEADLOCK FALSE
SYMMETRY Symmetric
VIEW View
INVARIANTS
    TypeOK
    WorldHasOneOwner
    NoWorldFreedInUse
    WipeLosesNothing
    CallerIsRegistered
PROPERTIES
    TimestampAdvances
    SwapsAreValid
    ImplementsGracePeriod
