SPECIFICATION FairSpec
CONSTANTS
    p1 = p1
    p2 = p2
    None = None
    Passwords = {p1, p2}
    Timeouts = {60, 90}
    Prompt = TRUE
    MaxKeys = 2
    MaxChanges = 2
    MaxFaults = 2
INVARIANTS
    TypeOK
    EncryptedWhenEnabled
    OneKey
    HumanTimeoutKept
PROPERTIES
    EventuallyConfigured
CHECK_DEADLOCK FALSE
