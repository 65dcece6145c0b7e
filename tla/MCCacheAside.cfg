CONSTANTS
    Callers = {c1, c2}
    TtlCallers = {c1}
    MaxWrites = 2
    NullVersions = {1}
    MaxLate = 1
SPECIFICATION FairSpec
INVARIANTS TypeOK NoneIsFresh HitsAreExplained
PROPERTIES EventuallyCoherent CallsEnd
CHECK_DEADLOCK FALSE
