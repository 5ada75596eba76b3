SPECIFICATION FairSpec
CONSTANTS
    d1 = d1
    d2 = d2
    n1 = n1
    n2 = n2
    p1 = p1
    p2 = p2
    account = account
    object = object
    None = None
    Devices = {d1, d2}
    PVs = {d1}
    Attrs = {n1}
    Rings = {account, object}
    Pods = {p1}
    MaxRestarts = 1
    MaxChanges = 2
    MaxFaults = 1
    Faults = {"api", "crash", "kill", "kill_rebalance", "evict", "removal"}
INVARIANTS
    ReadyMeansDevicesServed
PROPERTIES
    LabelledWhenReady
    EventuallyReady
CHECK_DEADLOCK FALSE
