CONSTANTS
    Providers = {openai}
    MilvusEnabled = TRUE
    MaxLives = 2
SPECIFICATION Spec
INVARIANT RedisNeverBlocksStartup
CHECK_DEADLOCK FALSE
