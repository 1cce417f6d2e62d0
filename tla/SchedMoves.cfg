CONSTANTS
    a = a
    b = b
    c = c
    Tickets = {a, b}
    BlockedBy <- Duo
    Blocks <- DuoBlocks
    Slots = {s1, s2}
    MaxParallel = 2
    Ends = {"resolved", "failed", "conflict", "noworkflow", "escape"}
    Created = {"absent", "proposed", "open"}
    Moves = {"create", "approve", "close", "reopen", "ask", "flag"}
    MaxMoves = 1
    MaxCrashes = 1
    None = None
SPECIFICATION Spec
CHECK_DEADLOCK FALSE
INVARIANTS
    TypeOK
    
    RegistersOnce
