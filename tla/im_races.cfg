CONSTANTS
    c1 = c1  c2 = c2  f1 = f1  f2 = f2
    NumMsgs = 1
    Clients = {c1}
    Readers = {}
    Handlers = {f1, f2}
    Rcpt <- ToOne
    BadProof = {}
    NoClient = NoClient
    MaxQueueLen = 1
    MaxInboxFetch = 2
    PageSize = 1
    ChannelBuffer = 1
    MaxBatchSize = 2
    DeleteChannelBuffer = 1
    MaxDeleteBatch = 1
    MetricsRetries = 2
    LuaUnpackMax = 10
    Faults = {"redis", "db", "metrics", "crash"}
    MaxFaults = 1
SPECIFICATION Spec
SYMMETRY Symmetry
INVARIANTS TypeOK CountOnce DeletesAreHanded BilledUnlessFailed
PROPERTIES IsLedger
CHECK_DEADLOCK FALSE
