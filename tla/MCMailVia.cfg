CONSTANTS
    A = A
    B = B
    H = H
    m1 = m1
    None = None
    Node = {A, B, H}
    Hub = H
    Core = {A, B}
    Clock = {B}
    Letter = {m1}
    Origin <- ViaOrigin
    Dest <- ViaDest
    Retention = FALSE
    IOFaults = FALSE
    MaxFaults = 1
SPECIFICATION Spec
INVARIANTS
    AckMeansDelivered
PROPERTIES
    AtMostOnce
CHECK_DEADLOCK FALSE
