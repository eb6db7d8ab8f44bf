\* Only the legacy freeze script and one regular script are installed; nothing fails.
SPECIFICATION Spec
CONSTANTS
    Layouts <- LegacyFreezeOnly
    MaxScripts = 2
    Faults = {}
    MaxSessions = 1
    Providers = {"null"}
    FreezeResults = {"freeze"}
    AbortStates = {}
    ShutdownStates = {}
    Timeout = TRUE
INVARIANTS ThawErrorMeansFailure
CHECK_DEADLOCK FALSE
