CONSTANTS
    c1 = c1  c2 = c2  f1 = f1  f2 = f2
    NumMsgs = 3
    Clients = {c1}
    Readers = {}
    Handlers = {f1}
    Rcpt <- ToOne
    BadProof = {1}
    NoClient = NoClient
    MaxQueueLen = 1
    MaxInboxFetch = 2
    PageSize = 1
    ChannelBuffer = 1
    MaxBatchSize = 2
    DeleteChannelBuffer = 1
    MaxDeleteBatch = 2
    MetricsRetries = 2
    LuaUnpackMax = 10
    Faults = {"timeout"}
    MaxFaults = 1
SPECIFICATION Spec
INVARIANTS NoSilentLoss
CHECK_DEADLOCK FALSE
