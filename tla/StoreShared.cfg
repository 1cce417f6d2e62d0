CONSTANTS
    Ids = {i1, i2}
    Vals = {v1, v2}
    Workers = {w1, w2}
    None = None
SPECIFICATION SharedFairSpec
CHECK_DEADLOCK FALSE
INVARIANTS
    IndexSafe
    MemoryWasLogged
PROPERTY
    HealsWhenQuiet
