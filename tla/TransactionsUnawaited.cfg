\* Two savepoints started together, as with Promise.all: the first failure ends the callback.
SPECIFICATION MediaSpec
CONSTANTS
    root = root
    other = other
    outer = outer
    inner = inner
    Roots = {root}
    Queries = {q}
    Limit = 1
    QueueLimit = 0
    Savepoints = {outer, inner}
    Parent <- InRoot
    MaxAttempts <- OneAttempt
    Structured = FALSE
    Media = {}
CHECK_DEADLOCK FALSE
INVARIANTS
    MediaTypeOK
    Atomic
