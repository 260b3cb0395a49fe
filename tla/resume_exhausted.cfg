SPECIFICATION Spec
CONSTANTS
    t1 = t1
    t2 = t2
    w1 = w1
    w2 = w2
    east = east
    NULL = NULL
    Workers = {w1, w2}
    Queues = {"q"}
    Regions = {east}
    WorkerRegion <- MCWorkerRegion
    LeaseDuration = 1
    SuspendTimeout = 1
    Tasks = {t1}
    Keys = {"k"}
    Priorities = {0}
    Budgets = {1, 3}
    StartDelays = {0, 2}
    Checkpoints = {}
    BaseDelay = 2
    MaxDelay = 3
    KeyRetention = 1
    AuditLog = TRUE
    MaxNow = 6
    AttemptCap = 4
INVARIANT ResumedTaskCanRun
CHECK_DEADLOCK FALSE
