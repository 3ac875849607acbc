SPECIFICATION Spec
CONSTANTS
    Clients = {c1, c2}
    End = end
    MaxMessages = 3
SYMMETRY Symmetry
INVARIANTS
    Distributed
CHECK_DEADLOCK FALSE
