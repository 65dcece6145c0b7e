CONSTANTS
    Callers = {c1}
    TtlCallers = {c1}
    MaxWrites = 1
    NullVersions = {}
    MaxLate = 0
SPECIFICATION Spec
INVARIANT RedisDownStillServes
CHECK_DEADLOCK FALSE
