\* A CSRF token stored between the two reads of an uncontended rotation.
SPECIFICATION Spec
CONSTANTS
    Requests = {r1, r2}
    Ids = {a, b}
    Start = a
    Kept = {}
    Noise = {}
    MaxTime = 1
    RotateAttempts = 2
    TokenAttempts = 2
    None = None
CHECK_DEADLOCK FALSE
INVARIANTS
    RotationKeepsToken
