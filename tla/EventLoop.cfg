\* Two descriptors, an array for two events, one other thread, and a timer
\* that may repeat; an int has four values, so that times become negative.
SPECIFICATION FairSpec
CONSTANTS
    WakeFd = WakeFd
    Loop = Loop
    Fds = {f1, f2}
    Others = {o1}
    MaxEvents = 2
    MaxBatch = 2
    IntValues = 4
    MaxWait = 1
    Never = 7
    Delays = {1}
    MaxId = 1
    MaxTime = 2
INVARIANTS
    EventsKept
PROPERTIES
    RemovedNeverCalled
    StopEndsRun
    EdgesAreHandled
    TimersFire
CHECK_DEADLOCK FALSE
