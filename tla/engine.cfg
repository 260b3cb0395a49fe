SPECIFICATION LiveSpec
CONSTANTS
    t1 = t1
    t2 = t2
    w1 = w1
    w2 = w2
    NULL = NULL
    Workers = {w1, w2}
    Queues = {"q"}
    Regions = {}
    WorkerRegion <- MCWorkerRegion
    WorkerQueue <- MCWorkerQueue
    LeaseDuration = 1
    SuspendTimeout = 1
    Tasks = {t1}
    Keys = {"k"}
    Priorities = {0}
    Budgets = {2}
    StartDelays = {0}
    Checkpoints = {"c"}
    BaseDelay = 1
    MaxDelay = 1
    KeyRetention = 1
    AuditLog = FALSE
    MaxNow = 100
    AttemptCap = 100
    Concurrency = 2
    Outcomes = {"ok", "err", "suspend"}
    Stoppable = {w1}
    Crashable = {w1}
    StorageErrors = TRUE
INVARIANTS
    EngineTypeOK
    OnTimeAttemptOwnsRow
    StatusShowsAttempts
    PermitsAccounted
PROPERTIES
    ImplementsStore
    EveryClaimEnds
    ShutdownEnds
    EveryTaskEnds
CHECK_DEADLOCK FALSE
