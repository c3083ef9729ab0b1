CONSTANTS
    Proc = {p1, p2, p3}
    None = None
    StaleAfter = 2
    Prompt = TRUE
    CrashAt <- InWork
    MaxCrashes = 1
SPECIFICATION Spec
INVARIANTS
    Mutex
