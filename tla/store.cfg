SPECIFICATION Spec
CONSTANTS
    t1 = t1
    t2 = t2
    w1 = w1
    w2 = w2
    east = east
    NULL = NULL
    Workers = {w1, w2}
    Queues = {"q"}
    Regions = {east}
    WorkerRegion <- MCWorkerRegion
    LeaseDuration = 1
    SuspendTimeout = 1
    Tasks = {t1, t2}
    Keys = {"k"}
    Priorities = {0}
    Budgets = {2}
    StartDelays = {0}
    Checkpoints = {"c"}
    BaseDelay = 1
    MaxDelay = 1
    KeyRetention = 1
    AuditLog = FALSE
    MaxNow = 3
    AttemptCap = 2
SYMMETRY TaskSymmetry
INVARIANTS
    TypeOK
    ClaimMatchesStatus
    SuspensionMatchesStatus
    OneLiveTaskPerKey
    StatisticsAgree
    RegionPinned
PROPERTIES
    FinishedRowsFrozen
    ImplementsLifecycle
CHECK_DEADLOCK FALSE
