SPECIFICATION FairSpec
CONSTANTS
    Ids = {d1}
    NoId = noId
    ModeOf <- DefaultModes
    HostCommands = {"Operation", "Register"}
    StartRetries = 1
    MaxFaults = 2
INVARIANTS
    AnswerLag
PROPERTIES
    SlipLasts
    MainReturns
CHECK_DEADLOCK FALSE
