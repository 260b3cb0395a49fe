SPECIFICATION EngineSpec
CONSTANTS
    t1 = t1
    t2 = t2
    w1 = w1
    w2 = w2
    NULL = NULL
    Workers = {w1, w2}
    Queues = {"q"}
    Regions = {}
    WorkerRegion <- MCWorkerRegion
    WorkerQueue <- MCWorkerQueue
    LeaseDuration = 1
    SuspendTimeout = 1
    Tasks = {t1}
    Keys = {}
    Priorities = {0}
    Budgets = {2}
    StartDelays = {0}
    Checkpoints = {}
    BaseDelay = 1
    MaxDelay = 1
    KeyRetention = 1
    AuditLog = FALSE
    MaxNow = 100
    AttemptCap = 100
    Concurrency = 1
    Outcomes = {"ok"}
    Stoppable = {w1}
    Crashable = {}
    StorageErrors = FALSE
INVARIANT StoppedHoldsNothing
CHECK_DEADLOCK FALSE
