CONSTANTS
    A = A
    B = B
    H = H
    m1 = m1
    None = None
    Node = {H}
    Hub = H
    Core = {H}
    Clock = {H}
    Letter = {m1}
    Origin <- SelfOrigin
    Dest <- SelfDest
    Retention = TRUE
    IOFaults = FALSE
    MaxFaults = 3
SPECIFICATION TimedSpec
INVARIANTS
    TypeOK
    NoSilentDeath
    DedupCovers
PROPERTIES
    AtMostOnce
    Resolved
    BounceArrives
CHECK_DEADLOCK FALSE
