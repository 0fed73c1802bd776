\* One subscription, two writes of this process that may publish out of order and one of another.
SPECIFICATION Spec
CONSTANTS
    Subs = {s1}
    Local = {w1, w2}
    Remote = {r1}
    Overlapping = FALSE
    Slots = 1
    Retention = 1
    MaxFailures = 1
    None = None
INVARIANTS
    RealtimeTypeOK
    SlotInv
    PlaceInv
    WriteInv
    OnceInv
    CurrentInv
    Current
    AppliedOnce
CHECK_DEADLOCK FALSE
