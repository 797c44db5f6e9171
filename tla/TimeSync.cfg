\* CHECK_DEADLOCK FALSE: Revoke with the lock held may block the threads for good.
SPECIFICATION FairSpec
CONSTANTS
    Sources = 2
    Retries = 1
    RetryWord = 4
    Periodic = TRUE
    Deferred = FALSE
    Workers = 2
    MaxSync = 3
    MaxSet = 1
INVARIANTS TypeOK Watched AnswersTheLatest PeriodicContinues
PROPERTY SyncEnds
CHECK_DEADLOCK FALSE
