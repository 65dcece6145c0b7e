CONSTANTS
    MaxRows = 4
    MaxBatch = 3
SPECIFICATION FairRepositorySpec
INVARIANTS RepositoryTypeOK SentPrefixOnce CountVouches
PROPERTY CallsEnd
CHECK_DEADLOCK FALSE
