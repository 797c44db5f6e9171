CONSTANTS
    Workers = {w1, w2}
    Processes = {p1, p2}
    NoProcess = none
    Failure = failure
    \* One cause: those of the two kinds are counted apart.
    Causes = {failure}
    RestartAllowed = TRUE
    Limits = {1, 2}
    MaxLimit = 1
    MaxJobs = 1
SPECIFICATION FairSpec
INVARIANTS
    TypeOK
    SourceIsCurrent
PROPERTIES
    RestartsLimited
    CrashIsHandled
