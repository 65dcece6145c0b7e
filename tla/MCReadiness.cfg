CONSTANTS
    Calls = {c1, c2}
    PoolLimit = 1
    MaxFlips = 1
SPECIFICATION FairSpec
INVARIANTS TypeOK AnswerExplained
PROPERTIES ReadyzEnds
CHECK_DEADLOCK FALSE
