\* Two callers, a local writer and remote writes, two failing statements.
SPECIFICATION Spec
CONSTANTS
    Callers = {c1, c2}
    Writers = {w1}
    Drain = drain
    None = none
    Ttl = 1
    StaleFor = 1
    FreshFor = 0
    Wait = 1
    MaxTime = 1
    MaxWrites = 2
    MaxFailures = 2
    Ordered = TRUE
SYMMETRY CallerSymmetry
INVARIANTS
    NoStaleEntry
    LockFreed
PROPERTIES
    ImplementsLock
CHECK_DEADLOCK FALSE
