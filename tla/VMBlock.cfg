\* Three threads, two files, two blockers, memory for two blocks.
CONSTANTS
    t1 = t1
    t2 = t2
    t3 = t3
    f1 = f1
    f2 = f2
    o1 = o1
    o2 = o2
    b1 = b1
    b2 = b2
    b3 = b3
    Threads = {t1, t2, t3}
    Files = {f1, f2}
    Blockers = {o1, o2}
    Blocks = {b1, b2}
    None = None
SPECIFICATION FairSpec
INVARIANTS RefsCounted UsersHoldLive ListSound BlockedUntilRemoved
PROPERTIES RemovedWakes
CHECK_DEADLOCK FALSE
