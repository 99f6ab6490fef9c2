\* No symmetry, because of the liveness properties.  In the first pool one
\* client owns the pool and may shut it down; in the second any client may.
SPECIFICATION MCSpec
CONSTANTS
    c1 = c1  c2 = c2
    k1 = k1  k2 = k2  k3 = k3
    NoTask = NoTask
    NumThreads = 2
    Clients <- MCClients
    Closers <- OneCloser
    Tasks <- MCTasks
INVARIANTS
    WakeupsReachWorkers
    ReturnMeansQuiet
PROPERTIES
    PoolsImplementService
    AcceptedTasksFinish
    PoolsReturn
CHECK_DEADLOCK FALSE
