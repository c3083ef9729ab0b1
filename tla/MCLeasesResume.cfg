CONSTANTS
    a = a
    b = b
    None = None
    Running = {}
    Standing = {}
    Phases = {"starting", "ready"}
    Inst = {a}
    Proc = {2, 3}
    Of <- OfProc
    Kinds <- KindsOf
    OptIn = {}
    Call = {1}
    Ways = {"register", "bind"}
    Killable = FALSE
    MaxCalls = 3
SPECIFICATION FairSpec
PROPERTIES
    
    Heard
CHECK_DEADLOCK FALSE
