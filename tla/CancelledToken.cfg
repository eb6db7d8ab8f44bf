CONSTANTS
    t1 = t1
    t2 = t2
    t3 = t3
    d1 = d1
    d2 = d2
    Tasks <- ThreeTasks
    NoTask = NoTask
    Dedicated <- NoDedicated
    MaxThreads = 2
    MaxWorkId = 4
    MaxTokens = 4
    MaxFaults = 1
SPECIFICATION Spec
SYMMETRY Symmetry
CHECK_DEADLOCK FALSE
INVARIANTS
    PopFindsTask
