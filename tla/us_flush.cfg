SPECIFICATION Spec
SYMMETRY Symmetry
CONSTANTS
    k1 = k1
    t1 = t1
    t2 = t2
    f1 = f1
    f2 = f2
    Tasks = {t1, t2}
    Flushers = {f1}
    Keys = {k1}
    Kinds = {"sent", "limited"}
    Readable = {"hour"}
    Quota <- MCQuota
    PerMinute <- MCPerMinute
    MaxBatch = 1
    MaxHour = 1
    TtlHours = 1
    MaxRequests = 2
    MaxFaults = 1
INVARIANTS
    TypeOK NothingLost NothingDoubled QuotaHolds UntimedIsKnown
CHECK_DEADLOCK FALSE
