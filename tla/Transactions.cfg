\* A root transaction with two attempts and a media mutation in it, a media mutation of
\* its own, and a plain statement.
SPECIFICATION MediaSpec
CONSTANTS
    root = root
    other = other
    outer = outer
    inner = inner
    Roots = {root, other}
    Queries = {q}
    Limit = 1
    QueueLimit = 0
    Savepoints = {outer}
    Parent <- InRoot
    MaxAttempts <- TwoForRoot
    Structured = TRUE
    Media = {outer, other}
CHECK_DEADLOCK FALSE
INVARIANTS
    Atomic
    CallbacksTellTruth
    NothingForgotten
    Separate
    NoDanglingRow
    ReplacedUntilDurable
    NoOrphanFile
