\* One subscription, a write of this process and two of others.
SPECIFICATION Spec
CONSTANTS
    Subs = {s1}
    Local = {w1}
    Remote = {r1, r2}
    Overlapping = FALSE
    Slots = 1
    Retention = 1
    MaxFailures = 1
    None = None
INVARIANTS
    Current
    AppliedOnce
CHECK_DEADLOCK FALSE
