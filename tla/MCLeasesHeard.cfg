CONSTANTS
    a = a
    b = b
    None = None
    Running = {2}
    Standing = {}
    Phases = {"ready"}
    Inst = {a}
    Proc = {2}
    Of <- OfProc
    Kinds <- KindsOf
    OptIn = {}
    Call = {1}
    Ways = {"register", "takeover"}
    Killable = FALSE
    MaxCalls = 2
SPECIFICATION FairSpec
PROPERTIES
    Heard
CHECK_DEADLOCK FALSE
