\* Two subscriptions that compete for one slot, and a write of another process.
SPECIFICATION FairSpec
CONSTANTS
    Subs = {s1, s2}
    Local = {}
    Remote = {r1}
    Overlapping = FALSE
    Slots = 1
    Retention = 1
    MaxFailures = 1
    None = None
INVARIANTS
    SlotsCounted
PROPERTIES
    Refreshed
CHECK_DEADLOCK FALSE
