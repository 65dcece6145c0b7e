CONSTANTS
    Providers = {openai, qwen}
    MilvusEnabled = TRUE
    MaxLives = 3
SPECIFICATION FairSpec
INVARIANTS TypeOK ServesOnProbedDb LeftoversReported LeaksAccounted
PROPERTIES ImplementsScope CleanupTerminates
CHECK_DEADLOCK FALSE
