SPECIFICATION Spec
CONSTANTS
    r1 = r1
    r2 = r2
    Requests = {r1, r2}
    Attempts <- MCAttempts
    MinVersion <- MCMinVersion
    KeysTtl = 1
    MaxIdle = 0
    DbAhead = 1
    MaxHour = 3
    MaxKeys = 2
INVARIANTS
    KeysWithinTtl
PROPERTIES
    AcceptedPassed
    GenuineIsNotRefused
    IdleStaysOut
CHECK_DEADLOCK FALSE
