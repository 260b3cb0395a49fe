SPECIFICATION QuerySpec
CONSTANTS
    t1 = t1
    t2 = t2
    t3 = t3
    t4 = t4
    NULL = NULL
    Tasks = {t1, t2, t3, t4}
    Queues = {"q"}
    Limit = 1
    MAX_PAGINATION_OFFSET = 2
    Filters <- MCFilters
SYMMETRY TaskSymmetry
INVARIANTS
    QueryTypeOK
    WalkMissesNothing
CHECK_DEADLOCK FALSE
