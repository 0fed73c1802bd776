\* Two root transactions and three statements over one slot with one place to wait.
SPECIFICATION FairSpec
CONSTANTS
    Roots = {r1, r2}
    Queries = {q1, q2, q3}
    Limit = 1
    QueueLimit = 1
PROPERTIES
    Served
    Implements
