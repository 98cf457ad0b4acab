CONSTANTS
    Threads = {t1, t2, t3}
    Width = 4
    Last = 8
SPECIFICATION Spec
SYMMETRY Symmetric
INVARIANTS
    FreesWhatIsRelinquished
