\* Two threads, two files, two devices, and somebody else who freezes or thaws once.
CONSTANTS
    c1 = c1
    c2 = c2
    f1 = f1
    f2 = f2
    d1 = d1
    d2 = d2
    Callers = {c1, c2}
    Files = {f1, f2}
    Devices = {d1, d2}
    PathLists <- Lists
    DeviceOf <- Where
    NoDevice = NoDevice
    NoPath = NoPath
    Nobody = Nobody
    NoSuper = {d2}
    MaxFreezes = 2
    MaxOthers = 1
SPECIFICATION MCFairSpec
INVARIANTS FreezeOnce CountMatches FreedClean
PROPERTIES FrozenThawed

