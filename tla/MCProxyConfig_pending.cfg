SPECIFICATION FairSpec
CONSTANTS
    p1 = p1
    p2 = p2
    None = None
    Passwords = {p1, p2}
    Timeouts = {60, 90}
    Prompt = FALSE
    MaxKeys = 2
    MaxChanges = 1
    MaxFaults = 0
INVARIANTS
    EncryptedWhenEnabled
CHECK_DEADLOCK FALSE
