SPECIFICATION Spec
CONSTANTS
    Unset = Unset
    DayLen = 1
    Signals = {"traces"}
    ChannelCapacity = 1
    BatchSize = 1
    RetryBufferMax = 1
    MaxFlushRetries = 2
    MonthLen = 2
    MaxTime = 3
    Sizes = {2}
    Bounds <- MCBounds
    AmbiguousCommits = FALSE
    Clients = {c1, c2}
    Requests <- MCRequests
    DefaultSettings <- MCDefaults
    GlobalDays = 1
    Contexts <- MCContexts
INVARIANTS
    UsageAccounted
    StorageAddsUp
    QuotaStatusAgrees
PROPERTIES
    DeletesAsReported
    CacheConverges
CHECK_DEADLOCK FALSE
