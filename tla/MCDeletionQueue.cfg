SPECIFICATION FairQueueSpec
CONSTANTS
    Alerts = {a1}
    Linked = {a1}
    Kinds = {"legacy", "qualified"}
    PrimaryIsDefault = TRUE
    Lookback = 1
    Delay = 1
    MaxAge = 2
    RetryDelay = 1
    RequestTimeout = 1
    Concurrency = 1
    BatchSize = 1
    MaxFaults = 1
INVARIANTS
    DeletedStaysHidden
    CompletedMeansDeleted
    WakesInTime
PROPERTIES
    EveryDeletionSettles
    DecisionsFirst
CHECK_DEADLOCK FALSE
