\* The instance of the run "presence": a stalled subscription shows a member that the roster of its
\* worker lacks.  TLC finds OnlyRosterShown violated.
SPECIFICATION Spec
CONSTANTS
    n1 = n1
    n2 = n2
    s1 = s1
    s2 = s2
    s3 = s3
    s4 = s4
    alice = alice
    bob = bob
    Nodes = {n1, n2}
    Sockets = {s1, s2, s3, s4}
    Home <- TwoHomes
    User <- AliceTwice
    Settled = {s3, s4}
    Leaving = {s1}
    Rejects <- Recovered
    Budgets <- OneOrBoth
    None = none
INVARIANTS
    OnlyRosterShown
CHECK_DEADLOCK FALSE
