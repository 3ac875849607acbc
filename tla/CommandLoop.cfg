SPECIFICATION FairLoop
CONSTANTS
    Commands = {operation, register}
    NoCommand = none
    MaxWrites = 4
INVARIANTS
    ExecutedInOrder
PROPERTIES
    CaughtIsServed
CHECK_DEADLOCK FALSE
