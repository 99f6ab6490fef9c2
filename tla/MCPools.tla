------------------------------ MODULE MCPools -------------------------------
(***************************************************************************)
(* The two thread pools, each with two workers, two clients and three      *)
(* tasks.  A behaviour uses one of them: pool says which.                  *)
(***************************************************************************)
EXTENDS ThreadPool

CONSTANTS c1, c2, k1, k2, k3
MCClients == {c1, c2}
MCTasks == {k1, k2, k3}
OneCloser == {c1}

VARIABLES
    pool,
    tasks_, stop_, wpc_, wtask_, notifying_, cpc_, joining_, accepted_, rejected_, finished_

workerPoolVars == <<tasks_, stop_, wpc_, wtask_, notifying_, cpc_, joining_,
                    accepted_, rejected_, finished_>>

W == INSTANCE WorkerPool WITH
    tasks <- tasks_, stop <- stop_, wpc <- wpc_, wtask <- wtask_, notifying <- notifying_,
    cpc <- cpc_, joining <- joining_, accepted <- accepted_, rejected <- rejected_,
    finished <- finished_

ASSUME WorkerPoolAssumption == W!ConstantsAssumption

MCInit == Init /\ W!Init /\ pool \in {"pool/thread_pool.h", "threading/pool/thread_pool.h"}

\* A step of the one pool, or of the other.
OfQueue(A) == pool = "pool/thread_pool.h" /\ A /\ UNCHANGED <<pool, workerPoolVars>>
OfWorkers(A) == pool = "threading/pool/thread_pool.h" /\ A /\ UNCHANGED <<pool, vars>>

ThreadPoolStep == OfQueue(Next)
WorkerPoolStep == OfWorkers(W!Next)

MCNext == ThreadPoolStep \/ WorkerPoolStep

allVars == <<vars, pool, workerPoolVars>>

\* The fairness of both.
MCFairness ==
    /\ \A w \in Workers : WF_allVars(OfQueue(WorkerStep(w))) /\ WF_allVars(OfWorkers(W!WorkerStep(w)))
    /\ \A c \in Clients : WF_allVars(OfQueue(CallStep(c))) /\ WF_allVars(OfWorkers(W!DestroyStep(c)))
    /\ \A caller \in W!Callers : WF_allVars(OfWorkers(W!SubmitNotifies(caller)))

MCSpec == MCInit /\ [][MCNext]_allVars /\ MCFairness
-----------------------------------------------------------------------------
\* No wakeup is lost, whether notify_one() is called under the mutex or not.
WakeupsReachWorkers == WakeupsCoverQueue /\ W!WakeupsCoverQueue

\* Whoever comes back from shutdown() or from a destructor finds every
\* accepted task executed and no thread of the pool left behind.
ReturnMeansQuiet == ShutdownWaitsForTasks /\ W!DestroyedMeansQuiet

\* Both pools implement the abstract task service.
PoolsImplementService == ImplementsService /\ W!ImplementsService

\* shutdown() and the destructors come back.
PoolsReturn == ShutdownReturns /\ W!DestructorReturns
=============================================================================
