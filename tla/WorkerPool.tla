----------------------------- MODULE WorkerPool -----------------------------
(***************************************************************************)
(* zen::thread_pool of src/threading/pool/thread_pool.h: tasks_ and stop_  *)
(* under queue_mutex_, notify_one() after the mutex is released, a         *)
(* destructor that stops, wakes and joins the workers, and wait().         *)
(*                                                                         *)
(* A critical section of queue_mutex_ is one action.  The notification     *)
(* that follows it is another: between the two any thread may run.  A task *)
(* may itself call submit(), so a worker that runs a task submits like a   *)
(* client does.                                                            *)
(***************************************************************************)
EXTENDS Naturals, Sequences, FiniteSets

CONSTANTS
    NumThreads,  \* workers_.size(), the workers are 1 .. NumThreads
    Clients,     \* the threads that call the pool's methods
    Tasks,       \* the tasks that may be submitted
    NoTask       \* an empty function<void()>

Workers == 1 .. NumThreads
Callers == Clients \cup Workers

\* What the constants must satisfy.
ConstantsAssumption ==
    /\ NumThreads \in Nat \ {0} /\ NoTask \notin Tasks
    /\ Clients \cap Workers = {} /\ IsFiniteSet(Clients)

VARIABLES
    tasks,      \* tasks_
    stop,       \* stop_
    wpc,        \* where each worker is in worker_thread()
    wtask,      \* the local task of worker_thread()
    notifying,  \* the callers between the unlock and notify_one() of submit()
    cpc,        \* where each client is in wait() or ~thread_pool()
    joining,    \* the index of the worker the destructor joins next
    accepted,   \* the tasks submit() took, in order (history)
    rejected,   \* the tasks for which submit() threw (history)
    finished    \* the tasks that have returned (history)

vars == <<tasks, stop, wpc, wtask, notifying, cpc, joining, accepted, rejected, finished>>

WorkerLabels == {"pop", "wait", "run", "exited"}
ClientLabels == {"idle", "waited", "stopped", "join", "destroyed"}

Accepted == {accepted[i] : i \in 1 .. Len(accepted)}
Waiting == {w \in Workers : wpc[w] = "wait"}
Popping == {w \in Workers : wpc[w] = "pop"}

TypeOK ==
    /\ tasks \in Seq(Tasks)
    /\ stop \in BOOLEAN
    /\ wpc \in [Workers -> WorkerLabels]
    /\ wtask \in [Workers -> Tasks \cup {NoTask}]
    /\ notifying \subseteq Callers
    /\ cpc \in [Clients -> ClientLabels]
    /\ joining \in 1 .. NumThreads + 1
    /\ accepted \in Seq(Tasks)
    /\ rejected \subseteq Tasks
    /\ finished \subseteq Tasks

Init ==
    /\ tasks = <<>>
    /\ stop = FALSE
    /\ wpc = [w \in Workers |-> "pop"]
    /\ wtask = [w \in Workers |-> NoTask]
    /\ notifying = {}
    /\ cpc = [c \in Clients |-> "idle"]
    /\ joining = 1
    /\ accepted = <<>>
    /\ rejected = {}
    /\ finished = {}

-----------------------------------------------------------------------------
\* condition_.notify_one() and condition_.notify_all().
NotifyOne ==
    \/ Waiting = {} /\ UNCHANGED wpc
    \/ \E w \in Waiting : wpc' = [wpc EXCEPT ![w] = "pop"]

\* Fault: the destructor notifies one worker only.
NotifyAllWakesOne == NotifyOne

NotifyAll == wpc' = [w \in Workers |-> IF w \in Waiting THEN "pop" ELSE wpc[w]]

\* A client in no call on a live object, or a worker inside a task.
MayCall(caller) ==
    /\ caller \notin notifying
    /\ \/ caller \in Clients /\ cpc[caller] \in {"idle", "waited"}
          /\ \A c \in Clients : cpc[c] \in {"idle", "waited"}
       \/ caller \in Workers /\ wpc[caller] = "run"

\* submit(), submit_void(): the locked part, on a running pool.
SubmitAccepts(caller, task) ==
    /\ MayCall(caller)
    /\ ~stop
    /\ task \notin Accepted
    /\ tasks' = Append(tasks, task)
    /\ accepted' = Append(accepted, task)
    /\ notifying' = notifying \cup {caller}
    /\ UNCHANGED <<stop, wpc, wtask, cpc, joining, rejected, finished>>

\* submit(), submit_void(): the locked part throws once stop_ is set.
SubmitThrows(caller, task) ==
    /\ MayCall(caller)
    /\ stop
    /\ task \notin Accepted
    /\ rejected' = rejected \cup {task}
    /\ UNCHANGED <<tasks, stop, wpc, wtask, notifying, cpc, joining, accepted, finished>>

\* Fault: submit() returns without notifying.
SubmitIsSilent(caller) ==
    /\ caller \in notifying
    /\ notifying' = notifying \ {caller}
    /\ UNCHANGED <<tasks, stop, wpc, wtask, cpc, joining, accepted, rejected, finished>>

\* submit(), submit_void(): condition_.notify_one() after the unlock.
SubmitNotifies(caller) ==
    /\ caller \in notifying
    /\ NotifyOne
    /\ notifying' = notifying \ {caller}
    /\ UNCHANGED <<tasks, stop, wtask, cpc, joining, accepted, rejected, finished>>
-----------------------------------------------------------------------------

\* worker_thread(): condition_.wait(lock, pred) with a false predicate.
WorkerWaits(w) ==
    /\ wpc[w] = "pop"
    /\ ~stop /\ tasks = <<>>
    /\ wpc' = [wpc EXCEPT ![w] = "wait"]
    /\ UNCHANGED <<tasks, stop, wtask, notifying, cpc, joining, accepted, rejected, finished>>

\* worker_thread(): stop_ && tasks_.empty(), the thread returns.
WorkerExits(w) ==
    /\ wpc[w] = "pop"
    /\ stop /\ tasks = <<>>
    /\ wpc' = [wpc EXCEPT ![w] = "exited"]
    /\ UNCHANGED <<tasks, stop, wtask, notifying, cpc, joining, accepted, rejected, finished>>

\* Fault: the newest task is taken.
WorkerTakesLast(w) ==
    /\ wpc[w] = "pop"
    /\ tasks # <<>>
    /\ wtask' = [wtask EXCEPT ![w] = tasks[Len(tasks)]]
    /\ tasks' = SubSeq(tasks, 1, Len(tasks) - 1)
    /\ wpc' = [wpc EXCEPT ![w] = "run"]
    /\ UNCHANGED <<stop, notifying, cpc, joining, accepted, rejected, finished>>

\* worker_thread(): the front task is moved out of the queue.
WorkerTakes(w) ==
    /\ wpc[w] = "pop"
    /\ tasks # <<>>
    /\ wtask' = [wtask EXCEPT ![w] = Head(tasks)]
    /\ tasks' = Tail(tasks)
    /\ wpc' = [wpc EXCEPT ![w] = "run"]
    /\ UNCHANGED <<stop, notifying, cpc, joining, accepted, rejected, finished>>

\* worker_thread(): task() returns, and the local task is destroyed.
WorkerRuns(w) ==
    /\ wpc[w] = "run"
    /\ w \notin notifying
    /\ finished' = finished \cup {wtask[w]}
    /\ wtask' = [wtask EXCEPT ![w] = NoTask]
    /\ wpc' = [wpc EXCEPT ![w] = "pop"]
    /\ UNCHANGED <<tasks, stop, notifying, cpc, joining, accepted, rejected>>

\* pthread_cond_wait may return without a notification.
SpuriousWakeup(w) ==
    /\ w \in Waiting
    /\ wpc' = [wpc EXCEPT ![w] = "pop"]
    /\ UNCHANGED <<tasks, stop, wtask, notifying, cpc, joining, accepted, rejected, finished>>
-----------------------------------------------------------------------------
\* wait(): an empty body.
WaitReturns(c) ==
    /\ c \notin notifying
    /\ \A d \in Clients : cpc[d] \in {"idle", "waited"}
    /\ cpc' = [cpc EXCEPT ![c] = "waited"]
    /\ UNCHANGED <<tasks, stop, wpc, wtask, notifying, joining, accepted, rejected, finished>>

\* ~thread_pool(): stop_ = true under the lock.  The owner destroys the pool
\* when no client is inside one of its methods; tasks may still submit.
DestroyStops(c) ==
    /\ \A d \in Clients : cpc[d] \in {"idle", "waited"} /\ d \notin notifying
    /\ stop' = TRUE
    /\ cpc' = [cpc EXCEPT ![c] = "stopped"]
    /\ UNCHANGED <<tasks, wpc, wtask, notifying, joining, accepted, rejected, finished>>

\* ~thread_pool(): condition_.notify_all(), outside the lock.
DestroyNotifies(c) ==
    /\ cpc[c] = "stopped"
    /\ NotifyAll
    /\ cpc' = [cpc EXCEPT ![c] = "join"]
    /\ UNCHANGED <<tasks, stop, wtask, notifying, joining, accepted, rejected, finished>>

\* Fault: the loop leaves out the last worker.
JoinAllButLast(c) ==
    /\ cpc[c] = "join"
    /\ IF joining < NumThreads
       THEN /\ wpc[joining] = "exited"
            /\ joining' = joining + 1
            /\ UNCHANGED cpc
       ELSE /\ cpc' = [cpc EXCEPT ![c] = "destroyed"]
            /\ UNCHANGED joining
    /\ UNCHANGED <<tasks, stop, wpc, wtask, notifying, accepted, rejected, finished>>

\* ~thread_pool(): worker.join() for each worker in turn, and the return.
DestroyJoins(c) ==
    /\ cpc[c] = "join"
    /\ IF joining \in Workers
       THEN /\ wpc[joining] = "exited"
            /\ joining' = joining + 1
            /\ UNCHANGED cpc
       ELSE /\ cpc' = [cpc EXCEPT ![c] = "destroyed"]
            /\ UNCHANGED joining
    /\ UNCHANGED <<tasks, stop, wpc, wtask, notifying, accepted, rejected, finished>>

-----------------------------------------------------------------------------
WorkerStep(w) == WorkerWaits(w) \/ WorkerExits(w) \/ WorkerTakes(w) \/ WorkerRuns(w)
DestroyStep(c) == DestroyNotifies(c) \/ DestroyJoins(c)

Next ==
    \/ \E w \in Workers : WorkerStep(w) \/ SpuriousWakeup(w)
    \/ \E caller \in Callers :
          \/ SubmitNotifies(caller)
          \/ \E task \in Tasks : SubmitAccepts(caller, task) \/ SubmitThrows(caller, task)
    \/ \E c \in Clients : WaitReturns(c) \/ DestroyStops(c) \/ DestroyStep(c)

\* A worker that can run runs, a task that has begun returns, and a call that
\* has begun is carried on.  Nobody is obliged to submit or to destroy.
Fairness ==
    /\ \A w \in Workers : WF_vars(WorkerStep(w))
    /\ \A caller \in Callers : WF_vars(SubmitNotifies(caller))
    /\ \A c \in Clients : WF_vars(DestroyStep(c))

Spec == Init /\ [][Next]_vars
FairSpec == Spec /\ Fairness
-----------------------------------------------------------------------------
\* No lost wakeup although notify_one() is called without the mutex: while a
\* worker sleeps, every queued task has a worker on its way to the queue or a
\* notification that is still to be sent.
WakeupsCoverQueue ==
    Waiting # {} => Cardinality(Popping) + Cardinality(notifying) >= Len(tasks)

\* When the destructor returns, no worker is left, nobody is about to signal
\* the condition variable that is being destroyed, and every accepted task,
\* those submitted by tasks during the shutdown included, has run.
DestroyedMeansQuiet ==
    \A c \in Clients : cpc[c] = "destroyed" =>
        /\ \A w \in Workers : wpc[w] = "exited"
        /\ notifying = {}
        /\ finished = Accepted

\* The pool implements the abstract task service.
drained == \E c \in Clients : cpc[c] = "destroyed"
Service == INSTANCE TaskService WITH
    closed <- stop,
    started <- Len(accepted) - Len(tasks),
    running <- {wtask[w] : w \in {v \in Workers : wpc[v] = "run"}}
ImplementsService == Service!Spec

\* The destructor comes back.
DestructorReturns ==
    \A c \in Clients : cpc[c] = "stopped" ~> cpc[c] = "destroyed"

=============================================================================
