CONSTANTS
    Ids = {i1, i2}
    Vals = {v1, v2}
    Workers = {w1, w2}
    None = None
SPECIFICATION StaticSpec
SYMMETRY Symmetry
CHECK_DEADLOCK FALSE
INVARIANTS
    TypeOK
    WriteAhead
    IndexExact
PROPERTY
    NoSilentLoss
    KeepsPromise
