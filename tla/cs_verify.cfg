CONSTANTS
    n1 = n1  n2 = n2  c1 = c1  t1 = t1  t2 = t2  h1 = h1  h2 = h2  h3 = h3
    Nodes = {n1, n2}
    Clients = {c1}
    Tasks = {t1, t2}
    Challenges = {h1}
    Routes = {"me", "logout"}
    NoClient = NoClient
    NoNode = NoNode
    MaxSessions = 1
    Faults = {"redis"}
    MaxFaults = 1
SPECIFICATION Spec
INVARIANTS StaleOnlyInWindows
PROPERTIES StaleEntriesEnd IsStore
CHECK_DEADLOCK FALSE
