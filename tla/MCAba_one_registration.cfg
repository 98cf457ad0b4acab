CONSTANTS
    Threads = {t1, t2, t3}
    Newcomers = {t3}
    Pointers = {p1}
    Worlds = {w1, w2, w3, w4}
    Nil = Nil
    MaxTimestamp = 3
SPECIFICATION SpecMeeting
CHECK_DEADLOCK FALSE
SYMMETRY SymmetricMeeting
VIEW View
INVARIANT OneRegistrationAtATime
