CONSTANTS
    Threads = {t1, t2, t3}
    Newcomers = {}
    Pointers = {p1}
    Worlds = {w1, w2, w3, w4, w5}
    Nil = Nil
    MaxTimestamp = 4
SPECIFICATION SpecMeeting
CHECK_DEADLOCK FALSE
SYMMETRY SymmetricMeeting
VIEW View
INVARIANTS
    NoEarlyRelease
    RetainCountsCheckins
    ListIsAwaited
    SnipIsWholeList
    PointerWaitsOnce
    NoWorldFreedInUse
    Safe
