\* Two locks and three users of them.
SPECIFICATION Spec
CONSTANTS
    Names = {a, b}
    Users = {u1, u2, u3}
INVARIANTS
    TypeOK
    Exclusive
