SPECIFICATION Spec
CONSTANTS
    r1 = r1
    o1 = o1
    o2 = o2
    Requests = {r1}
    Operations = {o1, o2}
    Ttl = 1
    MaxVersion = 3
    MaxHour = 2
    MaxCrashes = 1
    None = None
INVARIANTS
    TypeOK
    StaleOnlyIfMissed
    ViewBehindOnlyIfLapsed
PROPERTIES
    AnswersAreRecent
SYMMETRY MCSymmetry
CONSTRAINT MCBound
CHECK_DEADLOCK FALSE
