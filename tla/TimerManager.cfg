\* Two threads, each of which adds, cancels and drives timers; room for two
\* timers in the queue and for one in the array of tick().
SPECIFICATION Spec
CONSTANTS
    Threads = {t1, t2}
    Drivers = {t1, t2}
    Capacity = 2
    MaxBatch = 1
    Delays = {0, 1}
    MaxId = 3
    MaxTime = 2
    MaxWait = 1
INVARIANTS
    OnePlace
    SpentTimersAreGone
    NothingVanishes
PROPERTIES
    CancelledNeverCalled
CHECK_DEADLOCK FALSE
