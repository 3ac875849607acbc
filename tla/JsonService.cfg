SPECIFICATION Spec
CONSTANTS
    Ring = 4
    MaxTelegrams = 9
INVARIANTS
    InOrder
    StopIsFinal
PROPERTIES
    ImplementsLine
CHECK_DEADLOCK FALSE
