CONSTANTS
    Callers = {a, b, c}
    MaxConcurrency = 2
SPECIFICATION FairSpec
INVARIANTS TypeOK SlotsConserved ErrnoTellsEffect
PROPERTIES ImplementsServerCall CallsEnd
CHECK_DEADLOCK FALSE
