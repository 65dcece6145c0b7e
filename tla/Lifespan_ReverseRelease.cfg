CONSTANTS
    Providers = {openai}
    MilvusEnabled = TRUE
    MaxLives = 2
SPECIFICATION Spec
PROPERTY ReverseRelease
CHECK_DEADLOCK FALSE
