\* The documented promise that queue:clear leaves running jobs alone.
SPECIFICATION FairSpec
CONSTANTS
    j1 = j1
    j2 = j2
    w1 = w1
    w2 = w2
    a1 = a1
    a2 = a2
    Jobs <- UntimedJob
    Workers = {w1, w2}
    Admins = {a1}
    Registered = {j2}
    MaxAttempts <- OneAttempt
    Timeout <- MCTimeout
    NoTimeout = NoTimeout
    FailOnTimeout = {}
    RetryAfter = 2
    Delays = {0}
    FailedStore = TRUE
    NoJob = NoJob
    MaxDisruptions = 1
    MaxRetries = 0
PROPERTIES
    ClearLeavesRunning
