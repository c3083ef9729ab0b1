CONSTANTS
    Proc = {p1, p2, p3}
    None = None
    StaleAfter = 1
    Prompt = FALSE
    CrashAt <- InWork
    MaxCrashes = 1
SPECIFICATION FairSpec
INVARIANTS
    TypeOK
PROPERTIES
    LockFreed
