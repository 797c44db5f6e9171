SPECIFICATION Spec
CONSTANTS
    Sources = 2
    Retries = 1
    RetryWord = 4
    Periodic = TRUE
    Deferred = FALSE
    Workers = 2
    MaxSync = 2
    MaxSet = 1
INVARIANT RefusedMeansNoSource
CHECK_DEADLOCK FALSE
