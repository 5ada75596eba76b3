SPECIFICATION ResyncSpec
CONSTANTS
    a1 = a1
    a2 = a2
    a3 = a3
    t1 = t1
    t2 = t2
    p1 = p1
    p2 = p2
    None = None
    ACs = {a1, a2}
    TRs = {t1, t2}
    Replicas = {p1}
    Rapid = TRUE
    Stale = TRUE
    MaxChanges = 2
    MaxFaults = 1
INVARIANTS
    NothingHeldAfterDelete
PROPERTIES
    SupersededReleased
    TransportRotationFinalized
CHECK_DEADLOCK FALSE
