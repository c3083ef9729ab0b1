CONSTANTS
    A = A
    B = B
    H = H
    m1 = m1
    None = None
    Node = {A, H}
    Hub = H
    Core = {A, H}
    Clock = {A, H}
    Letter = {m1}
    Origin <- UpOrigin
    Dest <- UpDest
    Retention = FALSE
    IOFaults = TRUE
    MaxFaults = 1
SPECIFICATION FairSpec
INVARIANTS
    NoSilentDeath
PROPERTIES
    KeepsPromise
    Delivered
CHECK_DEADLOCK FALSE
