\* An abort while the pool thread freezes.
SPECIFICATION Spec
CONSTANTS
    Layouts <- NoScripts
    MaxScripts = 1
    Faults = {}
    MaxSessions = 2
    Providers = {"syncDriver"}
    FreezeResults = {"freeze"}
    AbortStates = {"SYNC_FREEZE_WAIT"}
    ShutdownStates = {}
    Timeout = TRUE
INVARIANTS FrozenHasOwner
CHECK_DEADLOCK FALSE
