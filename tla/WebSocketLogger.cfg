SPECIFICATION Spec
CONSTANTS
    Clients = {c1, c2}
    End = end
    MaxMessages = 3
SYMMETRY Symmetry
INVARIANTS
    CountTrue
    WaitingGetsAll
    NeverAgain
CHECK_DEADLOCK FALSE
