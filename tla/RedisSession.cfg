\* Two requests of one session; another client that writes it now and then.
SPECIFICATION FairSpec
CONSTANTS
    Requests = {r1, r2}
    Ids = {a, b, c}
    Start = a
    Kept = {k1}
    Noise = {n1, n2}
    MaxTime = 1
    RotateAttempts = 1
    TokenAttempts = 2
    None = None
CHECK_DEADLOCK FALSE
INVARIANTS
    OneSuccessor
    LogoutStopsRotation
    NeverRevived
    TokensAgree
    FlashOnce
PROPERTIES
    FlashMoves
    RotationEnds
