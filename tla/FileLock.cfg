CONSTANTS
    p1 = p1
    p2 = p2
    p3 = p3
    h1 = h1
    h2 = h2
    Lockers = {p1, p2, p3}
    Hosts = {h1, h2}
    Host <- MCHost
    Requests <- MCRequests
    Numbers = {1, 2, 3}
    MaxAttempts = 1
    Disturbed = {p1}
    MaxExtras = 1
SPECIFICATION FairSpec
PROPERTY Settles
CHECK_DEADLOCK FALSE
INVARIANT MutualExclusion HolderIsFirst FilesAccounted RestIsClean
