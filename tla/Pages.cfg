SPECIFICATION FairSpec
CONSTANTS
    Tables = {t1, t2}
    Readers = {r1, r2}
    Writer = w
    Frames = 2
    High = 2
    Low = 1
    Window = 1
    Budget = 1
    MaxCommits = 2
    MaxReads = 2
    MaxFails = 1
CHECK_DEADLOCK FALSE
INVARIANTS
    LivePagesServed
 
