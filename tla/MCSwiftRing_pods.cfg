SPECIFICATION Spec
CONSTANTS
    d1 = d1
    d2 = d2
    n1 = n1
    n2 = n2
    p1 = p1
    p2 = p2
    account = account
    object = object
    None = None
    Devices = {d1, d2}
    PVs = {d1}
    Attrs = {n1, n2}
    Rings = {account}
    Pods = {p1, p2}
    MaxRestarts = 1
    MaxChanges = 1
    MaxFaults = 2
    Faults = {"overlap", "kill", "push", "evict", "removal", "external"}
INVARIANTS
    TypeOK
    NoDuplicateDevice
PROPERTIES
    NoDeviceLost
    ExternalRingsKept
    ImplementsRingStore
CHECK_DEADLOCK FALSE
