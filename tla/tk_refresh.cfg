SPECIFICATION Spec
CONSTANTS
    t1 = t1
    t2 = t2
    Tasks = {t1, t2}
    MaxPairs = 3
    MaxLogins = 1
    Requests = {"refresh", "verify", "reset"}
    Expiring = {"session", "refresh"}
    Faults = {"redis", "db", "crash"}
    Aging = {1}
    MaxFaults = 1
SYMMETRY Symmetry
INVARIANTS ExchangedIsSpent
PROPERTIES
    DoomedIsNotRevived
CHECK_DEADLOCK FALSE
