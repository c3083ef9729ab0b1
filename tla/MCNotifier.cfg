CONSTANTS
    p = p
    q = q
    l1 = l1
    l2 = l2
    None = None
    Proc = {p, q}
    First = {p}
    Of <- SameSession
    Letter = {l1, l2}
    Backoff <- Short
    RetryAfter <- Long
    DegradeAt = 2
    MaxNow = 6
    MaxDrains = 1
    MaxMoves = 1
    MaxFaults = 1
SYMMETRY Letters
SPECIFICATION Spec
INVARIANTS
    TypeOK
    
    

    
CHECK_DEADLOCK FALSE
