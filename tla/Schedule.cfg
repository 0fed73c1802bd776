\* Two processes, of one minute or of different ones, over a task that may not
\* overlap and one that has both options; two signals, crashes or cache failures.
SPECIFICATION Spec
CONSTANTS
    Processes = {p1, p2}
    t1 = t1
    t2 = t2
    Tasks = {t1, t2}
    Due <- Mixed
    MaxMinute = 2
    HourMinute <- FallBack
    Expires = 1
    OneServer = 2
    MaxStops = 2
    Nobody = Nobody
SYMMETRY Symmetry
CHECK_DEADLOCK FALSE
INVARIANTS
    NoOverlap
    OneServerRuns
    WinnerRunsAll
    MinutesServed
    LocksReleased
