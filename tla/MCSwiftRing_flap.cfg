SPECIFICATION Spec
CONSTANTS
    d1 = d1
    d2 = d2
    n1 = n1
    n2 = n2
    p1 = p1
    p2 = p2
    account = account
    object = object
    None = None
    Devices = {d1, d2}
    PVs = {d1}
    Attrs = {n1}
    Rings = {account}
    Pods = {p1}
    MaxRestarts = 1
    MaxChanges = 2
    MaxFaults = 0
    Faults = {"removal"}
INVARIANTS
    ReadyMeansRingsCoverList
CHECK_DEADLOCK FALSE
