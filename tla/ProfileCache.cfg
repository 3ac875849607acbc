SPECIFICATION MCSpec
CONSTANTS
    d1 = d1
    d2 = d2
    f1 = f1
    f2 = f2
    e1 = e1
    Ids = {d1, d2}
    NoOne = noOne
    Models = {f1, f2}
    Eeps = {e1}
    BaseOf <- SameBase
    EepLike = {"C"}
    PointsOf <- ShortCuts
    CM_CACHE_SIZE = 2
    MAX_SUFFIX = 1
    MaxLines = 3
SYMMETRY Symmetry
INVARIANTS
    NamesAlwaysMean
    DecodedAsTaught
PROPERTIES
    NewPointsAreNew
    CrashCases
