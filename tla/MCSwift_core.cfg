SPECIFICATION Spec
CONSTANTS
    h1 = h1
    h2 = h2
    h3 = h3
    t1 = t1
    v1 = v1
    v2 = v2
    None = None
    Hashes = {h1, h2, h3}
    Topologies = {}
    Versions = {v1, v2}
    Lag = {}
    MaxChanges = 1
    MaxFaults = 1
SYMMETRY
    Perms
INVARIANTS
    TypeOK
    ReadyMeansCurrent
    StoredDataReadable
    ConfReleasedAfterDelete
CHECK_DEADLOCK FALSE
