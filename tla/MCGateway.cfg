CONSTANTS
    a = a
    None = None
    Address = {a}
    Asks <- All
    Kinds = {"message", "bounce", "notice"}
    MaxUpdates = 2
    MaxLetters = 1
    MaxFaults = 2
SPECIFICATION FairSpec
INVARIANTS
    TypeOK
    ReadAfterPosted
    Repeats
    Handled
PROPERTIES
    Progress
    Relayed
CHECK_DEADLOCK FALSE
