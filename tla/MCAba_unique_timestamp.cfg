CONSTANTS
    Threads = {t1, t2}
    Newcomers = {}
    Pointers = {p1}
    Worlds = {w1, w2, w3, w4, w5}
    Nil = Nil
    MaxTimestamp = 2
SPECIFICATION Spec
CHECK_DEADLOCK FALSE
SYMMETRY Symmetric
VIEW View
INVARIANT TimestampsAreUnique
