CONSTANTS
    a = a
    b = b
    c = c
    Tickets = {a, b}
    BlockedBy <- Free
    Blocks <- Free
    Slots = {s1, s2, s3}
    MaxParallel = 3
    Ends = {"resolved", "failed"}
    Created = {"open"}
    Moves = {"reopen"}
    MaxMoves = 1
    MaxCrashes = 0
    None = None
SPECIFICATION Spec
CHECK_DEADLOCK FALSE
INVARIANT
    OneTaskPerTicket
