\* Aborts and shutdowns in every state of two backups; odd script installations; all faults.
SPECIFICATION Spec
CONSTANTS
    Layouts <- OddLayouts
    MaxScripts = 2
    Faults <- AllFaults
    MaxSessions = 2
    Providers = {"syncDriver", "null"}
    FreezeResults = {"fail", "freeze"}
    AbortStates <- MStates
    ShutdownStates <- MStates
    Timeout = TRUE
INVARIANTS SourcesOwned IoSignalMatchesState
CHECK_DEADLOCK FALSE
