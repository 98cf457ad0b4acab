CONSTANTS
    Threads = {t1, t2}
    Newcomers = {}
    Pointers = {p1, p2}
    Worlds = {w1, w2, w3}
    Nil = Nil
    MaxTimestamp = 3
SPECIFICATION FairRunning
CHECK_DEADLOCK FALSE
PROPERTY EventuallyReleased
