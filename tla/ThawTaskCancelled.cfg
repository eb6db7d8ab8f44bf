\* One thread that freezes twice through one file.
CONSTANTS
    c1 = c1
    c2 = c2
    f1 = f1
    f2 = f2
    d1 = d1
    d2 = d2
    Callers = {c1}
    Files = {f1}
    Devices = {d1, d2}
    PathLists <- OnePath
    DeviceOf <- Where
    NoDevice = NoDevice
    NoPath = NoPath
    Nobody = Nobody
    NoSuper = {d2}
    MaxFreezes = 2
    MaxOthers = 0
SPECIFICATION Spec
INVARIANT ThawTaskCancelled
