\* The instance of the run "presence": rosters stay wrong about a socket whose subscription was
\* stalled.  TLC finds AllConverge violated.
SPECIFICATION FairSpec
CONSTANTS
    n1 = n1
    n2 = n2
    s1 = s1
    s2 = s2
    s3 = s3
    s4 = s4
    alice = alice
    bob = bob
    Nodes = {n1, n2}
    Sockets = {s1, s2, s3, s4}
    Home <- TwoHomes
    User <- AliceTwice
    Settled = {s3, s4}
    Leaving = {s1}
    Rejects <- Recovered
    Budgets <- OneOrBoth
    None = none
PROPERTIES
    AllConverge
CHECK_DEADLOCK FALSE
