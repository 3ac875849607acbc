SPECIFICATION FairSpec
CONSTANTS
    FreeQueueCount = 3
    MaxTelegrams = 3
INVARIANTS
    OnePlace
    Guarded
    DamagedNeedsRadio
PROPERTIES
    ImplementsPool
    ImplementsPath
    TelegramsHandled
    DrainedAfterEnd
CHECK_DEADLOCK FALSE
