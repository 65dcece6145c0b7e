CONSTANTS
    MAX_EMBEDDING_BATCH_SIZE = 2
    MAX_IMAGES_PER_REQUEST = 2
    NotNumeric = NotNumeric
    Providers = {openai, qwen}
    default_provider = openai
    Undeclared = other
    Embedders = {openai}
    Lookers = {qwen}
    SkillNames = {"draw", "sum"}
    NumDirs = 2
    Contents <- MCContents
    Layouts <- MCLayouts
    MaxEdits = 1
    Calls = {c}
    MaxLives = 2
    zhipu = qwen
    Images <- MCImages
SPECIFICATION FairSpec
INVARIANTS TypeOK RunExplained CachedBodiesAgree QuietWhenDisabled OwnFailureOnly VectorsInOrder
PROPERTIES CallsEnd
CHECK_DEADLOCK FALSE
