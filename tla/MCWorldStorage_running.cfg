CONSTANTS
    Threads = {t1, t2}
    Storages = {s1, s2, s3, s4}
    None = None
    N = 2
    InitialSize = 1
    MaxTimestamp = 9
SPECIFICATION SpecRunning
CHECK_DEADLOCK FALSE
SYMMETRY Symmetric
VIEW View
INVARIANTS
    AwaitedHaveEntries
    AwaitedAreInUse
    Sound
    EntriesCountCheckins
    StaleWorldsAgree
PROPERTIES
    StepsImplementTimestampEntries
