\* The instance of Schedule.cfg; does the repeated hour have its own run?
SPECIFICATION Spec
CONSTANTS
    Processes = {p1, p2}
    t1 = t1
    t2 = t2
    Tasks = {t1, t2}
    Due <- Mixed
    MaxMinute = 2
    HourMinute <- FallBack
    Expires = 1
    OneServer = 2
    MaxStops = 0
    Nobody = Nobody
SYMMETRY Symmetry
CHECK_DEADLOCK FALSE
INVARIANT RepeatedHourServed
