\* Two servers that start for the same minute, undisturbed.
SPECIFICATION Spec
CONSTANTS
    Processes = {p1, p2}
    t1 = t1
    t2 = t2
    Tasks = {t1, t2}
    Due <- BothOptions
    MaxMinute = 0
    HourMinute <- FallBack
    Expires = 1
    OneServer = 2
    MaxStops = 0
    Nobody = Nobody
SYMMETRY Symmetry
CHECK_DEADLOCK FALSE
INVARIANT EveryMinuteServed
