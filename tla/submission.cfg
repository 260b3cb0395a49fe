SPECIFICATION FairSubSpec
CONSTANTS
    c1 = c1
    c2 = c2
    NULL = NULL
    Keys = {"k", "l"}
    BadKey = "bad"
    Budgets = {0, 1}
    Regions = {"", "allowed"}
    AllowList = TRUE
    Tasks = {1, 2}
    Clients = {c1, c2}
    Queues = {"q"}
    Finals = {"completed"}
INVARIANTS
    SubTypeOK
    OnlyWorkableTasks
    OneHolderPerKey
    ConflictMeansRace
PROPERTIES
    TasksAppearAtomically
    ImplementsContract
    CallsAreAnswered
CHECK_DEADLOCK FALSE
