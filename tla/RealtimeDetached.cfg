\* A subscription ends while another one resolves its arguments.
SPECIFICATION Spec
CONSTANTS
    Subs = {s1, s2}
    Local = {}
    Remote = {r1}
    Overlapping = TRUE
    Slots = 1
    Retention = 1
    MaxFailures = 0
    None = None
INVARIANTS
    Attached
CHECK_DEADLOCK FALSE
