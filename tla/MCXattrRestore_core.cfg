SPECIFICATION FairSpec
CONSTANTS
    f1 = f1
    f2 = f2
    f3 = f3
    None = None
    Files = {f1, f2, f3}
    MaxRestarts = 2
    MaxBackups = 2
INVARIANTS
    TypeOK
    DumpedNeverQuarantined
    MissingReported
PROPERTIES
    StartsWithIntactDump
CHECK_DEADLOCK FALSE
