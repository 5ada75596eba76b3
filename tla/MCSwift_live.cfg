SPECIFICATION FairSpec
CONSTANTS
    h1 = h1
    h2 = h2
    h3 = h3
    t1 = t1
    v1 = v1
    v2 = v2
    None = None
    Hashes = {h1, h2, h3}
    Topologies = {}
    Versions = {v1}
    Lag = {"sub"}
    MaxChanges = 1
    MaxFaults = 0
PROPERTIES
    EventuallyReady
CHECK_DEADLOCK FALSE
