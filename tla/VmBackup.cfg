\* Everything but an abort during the freeze itself.
SPECIFICATION FairSpec
CONSTANTS
    Layouts <- PlainLayouts
    MaxScripts = 2
    Faults <- HandledFaults
    MaxSessions = 2
    Providers = {"syncDriver", "null"}
    FreezeResults = {"fail", "freeze", "nothing", "noPaths"}
    AbortStates <- LateAborts
    ShutdownStates = {}
    Timeout = TRUE
INVARIANTS FrozenHasOwner CommitMeansQuiesced WorkerStateLive
    FreezeScriptsUndone ThawErrorMeansFailure NoCrash
PROPERTIES DocumentedTransitions BackupEnds ImplementsQuiesce
