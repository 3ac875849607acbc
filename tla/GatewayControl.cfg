SPECIFICATION Spec
CONSTANTS
    Ids = {d1, d2}
    NoId = noId
    ModeOf <- DefaultModes
    HostCommands <- AllCommands
    StartRetries = 1
    MaxFaults = 1
SYMMETRY Symmetry
INVARIANTS
    GatewayAgrees
    LinesOnce
CHECK_DEADLOCK FALSE
