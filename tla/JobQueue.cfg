CONSTANTS
    Documents = {d1, d2}
    Pages = {1, 2}
    Workers = {w1, w2}
    None = None
    MAX_ATTEMPTS = 3
    BACKOFF_BASE = 1
    BACKOFF_CAP = 60
    MAX_BACKOFF_DOUBLINGS = 16
    MaxDeaths = 1
SPECIFICATION FairSpec
INVARIANTS
    TypeOK
    RunsAccounted
    CompleteMeansRead
    StatusExplained
    BackoffDoubles
PROPERTIES
    OutcomeFinal
    TextKept
    EveryJobEnds
CHECK_DEADLOCK FALSE
