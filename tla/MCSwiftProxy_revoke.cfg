SPECIFICATION Spec
CONSTANTS
    a1 = a1
    a2 = a2
    a3 = a3
    t1 = t1
    t2 = t2
    p1 = p1
    p2 = p2
    None = None
    ACs = {a1, a2, a3}
    TRs = {t1}
    Replicas = {p1, p2}
    Rapid = TRUE
    Stale = FALSE
    MaxChanges = 2
    MaxFaults = 0
INVARIANTS
    NoRevokedCredentialInUse
CHECK_DEADLOCK FALSE
