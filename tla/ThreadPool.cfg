\* Two tasks and one dedicated thread, with and without a pool of two threads, one fault.
CONSTANTS
    t1 = t1
    t2 = t2
    t3 = t3
    d1 = d1
    d2 = d2
    Tasks <- TwoTasks
    NoTask = NoTask
    Dedicated <- OneDedicated
    MaxThreads = 2
    MaxWorkId = 3
    MaxTokens = 2
    MaxFaults = 1
SPECIFICATION FairSpec
CHECK_DEADLOCK FALSE
INVARIANTS
    TokensBacked
    RunOnce
    IdNeverZero
    RunningInterrupted
    ShutdownComplete
PROPERTIES
    TasksEnd
    ShutdownTerminates
