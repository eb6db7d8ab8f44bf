CONSTANTS
    Clients = {c1}
    Children = {p1, p2}
    Listener = L
    MaxBacklog = 1
    MaxConnects = 2
    ShutdownConnects = 1
    MaxExtras = 1
    c1 = c1
    p1 = p1
    p2 = p2
    L = L
SPECIFICATION FairSpec
CHECK_DEADLOCK FALSE
PROPERTY Settles
INVARIANT RefsHeld BacklogCovers ListsSound ConnectStates NothingPends NoHalfOpen NoLeak
