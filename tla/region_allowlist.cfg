SPECIFICATION SubSpec
CONSTANTS
    c1 = c1
    c2 = c2
    NULL = NULL
    Keys = {"k", "l"}
    BadKey = "bad"
    Budgets = {0, 1}
    Regions = {"", "malformed", "allowed", "other"}
    AllowList = TRUE
    Tasks = {1, 2}
    Clients = {c1, c2}
    Queues = {"q"}
    Finals = {"completed"}
INVARIANT PinnedRegionsAllowed
CHECK_DEADLOCK FALSE
