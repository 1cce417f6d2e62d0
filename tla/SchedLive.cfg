CONSTANTS
    a = a
    b = b
    c = c
    Tickets = {a, b}
    BlockedBy <- Duo
    Blocks <- Free
    Slots = {s1, s2, s3}
    MaxParallel = 1
    Ends = {"resolved", "failed", "conflict", "noworkflow", "escape"}
    Created = {"open"}
    Moves = {"flag", "close"}
    MaxMoves = 2
    MaxCrashes = 1
    None = None
SPECIFICATION FairSpec
INVARIANT
    OneTaskPerTicket
PROPERTIES
    
    CompletionReported
