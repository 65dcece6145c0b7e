CONSTANTS
    Requests = {r1, r2}
    Ids = {i, j}
    PoolLimit = 1
    Limit = 1
    MaxUsers = 2
    MaxWrites = 1
SPECIFICATION Spec
INVARIANT IdReachesLogsAndHeader
CHECK_DEADLOCK FALSE
