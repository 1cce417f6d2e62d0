CONSTANTS
    Ids = {i1}
    Vals = {v1, v2}
    Workers = {w1}
    None = None
SPECIFICATION ReloadSpec
CHECK_DEADLOCK FALSE
INVARIANT
    ReloadIdempotent
