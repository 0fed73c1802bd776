\* Passes over two settings and up to three resources; every close, operation and connect settles.
SPECIFICATION FairSpec
CONSTANTS
    Entries = {e1, e2, e3}
    Configs = {c1, c2}
    NoConfig = NoConfig
    MaxPending = 2
    MaxLate = 1
CHECK_DEADLOCK FALSE
INVARIANTS
    Usable
    NoLeak
PROPERTIES
    FailuresHeard
    ImplementsLifetime
    EventuallyReleased
