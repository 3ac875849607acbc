SPECIFICATION LoopSpec
CONSTANTS
    Commands = {operation, register}
    NoCommand = none
    MaxWrites = 1
INVARIANT
    ListensWhileAsleep
CHECK_DEADLOCK FALSE
