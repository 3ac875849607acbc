SPECIFICATION Spec
CONSTANTS
    Ids = {d1, d2}
    NoId = noId
    NODE_TABLE_SIZE = 3
    SECURE_REGISTER_SIZE = 1
    PUBLICKEY_TABLE_SIZE = 1
SYMMETRY Symmetry
INVARIANTS
    TableIsFile
    MarkedHasKey
    NullKeyCases
PROPERTIES
    NoRelief
