CONSTANTS
    Threads = {t1, t2}
    Newcomers = {t1}
    Runner = t1
    Pointers = {p1}
    Worlds = {1, 2, 3, 4, 5}
    Nil = Nil
    MaxTimestamp = 3
SPECIFICATION SpecAlone
CHECK_DEADLOCK FALSE
PROPERTIES
    FreeAndCheckinEnd
    RegisterAndUnregisterEnd
