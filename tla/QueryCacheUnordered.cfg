\* The delete of a forget answers after other statements of a pooled connection.
SPECIFICATION Spec
CONSTANTS
    Callers = {c1, c2}
    Writers = {w1}
    Drain = drain
    None = none
    Ttl = 1
    StaleFor = 1
    FreshFor = 0
    Wait = 1
    MaxTime = 1
    MaxWrites = 2
    MaxFailures = 1
    Ordered = FALSE
SYMMETRY CallerSymmetry
INVARIANTS
    NoStaleEntry
CHECK_DEADLOCK FALSE
