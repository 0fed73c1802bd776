\* One of two jobs, with two attempts or unknown to the workers; two workers, two disruptions.
SPECIFICATION EitherSpec
CONSTANTS
    j1 = j1
    j2 = j2
    w1 = w1
    w2 = w2
    a1 = a1
    a2 = a2
    Jobs <- TwoJobs
    Workers = {w1, w2}
    Admins = {a1}
    Registered = {j1}
    MaxAttempts <- TwoAttempts
    Timeout <- MCTimeout
    NoTimeout = NoTimeout
    FailOnTimeout = {j1}
    RetryAfter = 2
    Delays = {0, 1}
    FailedStore = TRUE
    NoJob = NoJob
    MaxDisruptions = 2
    MaxRetries = 0
INVARIANTS
    LeaseHeld
PROPERTIES
    AttemptOnce
    EventuallySettled
    ImplementsLease
