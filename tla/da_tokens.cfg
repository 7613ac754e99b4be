SPECIFICATION Spec
CONSTANTS
    l1 = l1
    l2 = l2
    Logins = {l1, l2}
    Limit = 2
    MaxTokens = 4
    MaxFaults = 1
    None = None
INVARIANTS
    FailuresBounded
PROPERTIES
    TokensWorkOnce
    LockEnds
CHECK_DEADLOCK FALSE
