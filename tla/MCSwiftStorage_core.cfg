SPECIFICATION FairSpec
CONSTANTS
    t1 = t1
    t2 = t2
    far = far
    None = None
    Ordinals = {1, 2}
    IPs = {1, 2}
    Local = {t1, t2}
    Foreign = {far}
    Versions = {1, 2}
    Attached = TRUE
    MaxChanges = 1
    MaxFaults = 1
INVARIANTS
    TypeOK
    NoForeignTopology
PROPERTIES
    NeverScaledIn
    EventuallyCurrent
    
CHECK_DEADLOCK FALSE
