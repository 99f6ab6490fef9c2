\* More timers are due than the array of tick() holds.
SPECIFICATION Spec
CONSTANTS
    Threads = {t1, t2}
    Drivers = {t1}
    Capacity = 2
    MaxBatch = 1
    Delays = {0, 1}
    MaxId = 2
    MaxTime = 2
    MaxWait = 1
PROPERTIES
    TickFiresAllDue
CHECK_DEADLOCK FALSE
