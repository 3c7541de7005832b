\* Files come and go, and time passes, between the steps of a query.
SPECIFICATION Spec
CONSTANTS
    DayLen = 4
    Rows <- MCRows
    Batches <- MCBatches
    Requests <- MCRequests
    Workspaces = {"w1", "w2"}
    Micro = 2
    DefaultLimit = 2
    Retention <- MCRetention
    StartTime = 6
    MaxTime = 7
    MaxFiles = 2
    Unset = Unset
INVARIANTS
    PagesInScope
    RetentionWhenBounded
    PruningLosesNothing
    PagingMissesNothing
    DashboardAddsUp
    RowsNeedTheirCapability
