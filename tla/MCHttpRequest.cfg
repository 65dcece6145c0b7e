CONSTANTS
    Requests = {get, post}
    Idempotent = {get}
    MaxRetries = 3
    MaxClients = 2
SPECIFICATION FairSpec
INVARIANTS TypeOK RetryBudget BackoffDoubles OpenClientIsCurrent
PROPERTIES ImplementsServerCall CallsEnd
CHECK_DEADLOCK FALSE
