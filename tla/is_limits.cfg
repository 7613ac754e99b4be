SPECIFICATION Spec
CONSTANTS
    t1 = t1
    t2 = t2
    Tasks = {t1, t2}
    Platforms = {"iot", "browser"}
    BrowserLimits <- MCBrowserLimits
    Limit <- MCLimit
    Faults = {"redis", "crash"}
    MaxFaults = 1
    Ceiling <- MCCeiling
INVARIANTS
    TypeOK
    FailuresAreBounded
    PassesAreBounded
    CountersAreTimed
PROPERTIES
    LockoutEnds
CHECK_DEADLOCK FALSE
