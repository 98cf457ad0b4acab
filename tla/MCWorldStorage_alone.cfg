CONSTANTS
    Threads = {t1, t2}
    Runner = t1
    Storages = {1,2,3,4}
    None = None
    N = 2
    InitialSize = 1
    MaxTimestamp = 7
SPECIFICATION SpecAlone
CHECK_DEADLOCK FALSE
PROPERTY FreeLoopEnds
