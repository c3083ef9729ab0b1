CONSTANTS
    a = a
    b = b
    None = None
    Running = {2, 4}
    Standing = {2}
    Phases = {"ready"}
    Inst = {a, b}
    Proc = {2, 4}
    Of <- OfProc
    Kinds <- KindsOf
    OptIn = {b}
    Call = {1, 2}
    Ways = {"register", "takeover", "release"}
    Killable = TRUE
    MaxCalls = 2
SPECIFICATION FairSpec
INVARIANTS
    TypeOK
PROPERTIES
    Fenced
    FirstClaimant
    Recovers
CHECK_DEADLOCK FALSE
