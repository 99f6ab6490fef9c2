----------------------------- MODULE ThreadPool -----------------------------
(***************************************************************************)
(* zen::thread_pool of src/pool/thread_pool.h: a task_queue (linked list,  *)
(* mutex, condition variable, closed_), the workers that run worker_entry, *)
(* and the clients that call submit(), shutdown() and the destructor.      *)
(*                                                                         *)
(* A critical section of task_queue is one action, since all it touches is *)
(* read and written only under mtx_.  The flag shutdown_ is NOT protected  *)
(* by any lock, so reading it, setting it and closing the queue are steps  *)
(* of their own.  Waiting on cv_ releases mtx_ and enters the wait set in  *)
(* one step; a woken worker re-acquires mtx_ and evaluates the loop's      *)
(* condition again, which is the state "pop".                              *)
(***************************************************************************)
EXTENDS Naturals, Sequences, FiniteSets

CONSTANTS
    NumThreads,  \* num_threads_, the workers are 1 .. NumThreads
    Clients,     \* the threads that call the pool's methods
    Closers,     \* the clients that may call shutdown()
    Tasks,       \* the tasks that may be submitted, each one allocation
    NoTask       \* the null pool_task*

Workers == 1 .. NumThreads

ASSUME NumThreadsAssumption == NumThreads \in Nat \ {0}
ASSUME ClosersAssumption == Closers \subseteq Clients
ASSUME TasksAssumption == NoTask \notin Tasks

VARIABLES
    queue,     \* head_ .. tail_ of the task_queue
    closed,    \* closed_ of the task_queue
    shutdown,  \* shutdown_ of the pool
    wpc,       \* where each worker is in worker_entry
    wtask,     \* the task a worker has popped
    cpc,       \* where each client is in submit(), shutdown() or ~thread_pool()
    ctask,     \* the task a client is submitting
    joining,   \* the loop index of a client that joins the workers
    dying,     \* the client that runs ~thread_pool(), if any
    accepted,  \* the tasks push() took, in order (history)
    refused,   \* the tasks push() refused after closing (history)
    finished,  \* the tasks whose func(arg) has returned (history)
    destroyed  \* ~thread_pool() has released threads_ and the queue

vars == <<queue, closed, shutdown, wpc, wtask, cpc, ctask, joining, dying,
          accepted, refused, finished, destroyed>>

queueVars  == <<queue, closed>>
workerVars == <<wpc, wtask>>
clientVars == <<cpc, ctask, joining>>
history    == <<accepted, refused, finished>>

WorkerLabels == {"pop", "wait", "run", "exited"}
ClientLabels == {"idle", "push", "setFlag", "close", "join", "returned", "release"}

Accepted == {accepted[i] : i \in 1 .. Len(accepted)}
Allocated == Accepted \cup refused \cup {ctask[c] : c \in Clients}

Waiting == {w \in Workers : wpc[w] = "wait"}

TypeOK ==
    /\ queue \in Seq(Tasks)
    /\ closed \in BOOLEAN /\ shutdown \in BOOLEAN /\ destroyed \in BOOLEAN
    /\ wpc \in [Workers -> WorkerLabels]
    /\ wtask \in [Workers -> Tasks \cup {NoTask}]
    /\ cpc \in [Clients -> ClientLabels]
    /\ ctask \in [Clients -> Tasks \cup {NoTask}]
    /\ joining \in [Clients -> 1 .. NumThreads + 1]
    /\ dying \subseteq Clients
    /\ accepted \in Seq(Tasks)
    /\ refused \subseteq Tasks
    /\ finished \subseteq Tasks

Init ==
    /\ queue = <<>>
    /\ closed = FALSE
    /\ shutdown = FALSE
    /\ wpc = [w \in Workers |-> "pop"]
    /\ wtask = [w \in Workers |-> NoTask]
    /\ cpc = [c \in Clients |-> "idle"]
    /\ ctask = [c \in Clients |-> NoTask]
    /\ joining = [c \in Clients |-> 1]
    /\ dying = {}
    /\ accepted = <<>>
    /\ refused = {}
    /\ finished = {}
    /\ destroyed = FALSE

Goto(c, label) == cpc' = [cpc EXCEPT ![c] = label]

\* A client that is in no call, and an object that is not being destroyed.
Free(c) == cpc[c] \in {"idle", "returned"} /\ dying = {}

-----------------------------------------------------------------------------
\* Fault: push() does not notify.
NotifyNobody == UNCHANGED wpc

\* cv_.notify_one(): one waiting worker, if there is one, goes back to its loop.
NotifyOne ==
    \/ Waiting = {} /\ UNCHANGED wpc
    \/ \E w \in Waiting : wpc' = [wpc EXCEPT ![w] = "pop"]

\* Fault: close() notifies one worker only.
NotifyAllWakesOne == NotifyOne

\* cv_.notify_all().
NotifyAll == wpc' = [w \in Workers |-> IF w \in Waiting THEN "pop" ELSE wpc[w]]

\* submit(): the unlocked test of shutdown_; false is returned at once.
SubmitRefused(c) ==
    /\ Free(c)
    /\ shutdown
    /\ UNCHANGED vars

\* submit(): shutdown_ is not set; the wrapper and its node are allocated.
SubmitAllocate(c, task) ==
    /\ Free(c)
    /\ ~shutdown
    /\ task \notin Allocated
    /\ ctask' = [ctask EXCEPT ![c] = task]
    /\ Goto(c, "push")
    /\ UNCHANGED <<queueVars, shutdown, workerVars, joining, dying, history, destroyed>>

\* task_queue::push() on an open queue: append, notify one worker, true.
PushAccepts(c) ==
    /\ cpc[c] = "push"
    /\ ~closed
    /\ queue' = Append(queue, ctask[c])
    /\ accepted' = Append(accepted, ctask[c])
    /\ NotifyOne
    /\ ctask' = [ctask EXCEPT ![c] = NoTask]
    /\ Goto(c, "idle")
    /\ UNCHANGED <<closed, shutdown, wtask, joining, dying, refused, finished, destroyed>>

\* task_queue::push() on a closed queue: false.  Nobody frees the allocation.
PushRefuses(c) ==
    /\ cpc[c] = "push"
    /\ closed
    /\ refused' = refused \cup {ctask[c]}
    /\ ctask' = [ctask EXCEPT ![c] = NoTask]
    /\ Goto(c, "idle")
    /\ UNCHANGED <<queueVars, shutdown, workerVars, joining, dying, accepted, finished, destroyed>>
-----------------------------------------------------------------------------

\* task_queue::pop(): nothing to do and not closed, wait on cv_.
PopWaits(w) ==
    /\ wpc[w] = "pop"
    /\ queue = <<>> /\ ~closed
    /\ wpc' = [wpc EXCEPT ![w] = "wait"]
    /\ UNCHANGED <<queueVars, shutdown, wtask, clientVars, dying, history, destroyed>>

\* Fault: the newest task is taken.
PopTakesLast(w) ==
    /\ wpc[w] = "pop"
    /\ queue # <<>>
    /\ wtask' = [wtask EXCEPT ![w] = queue[Len(queue)]]
    /\ queue' = SubSeq(queue, 1, Len(queue) - 1)
    /\ wpc' = [wpc EXCEPT ![w] = "run"]
    /\ UNCHANGED <<closed, shutdown, clientVars, dying, history, destroyed>>

\* task_queue::pop() takes the head, closed or not.
PopTakes(w) ==
    /\ wpc[w] = "pop"
    /\ queue # <<>>
    /\ wtask' = [wtask EXCEPT ![w] = Head(queue)]
    /\ queue' = Tail(queue)
    /\ wpc' = [wpc EXCEPT ![w] = "run"]
    /\ UNCHANGED <<closed, shutdown, clientVars, dying, history, destroyed>>

\* task_queue::pop() returns null; worker_entry leaves its loop.
PopEnds(w) ==
    /\ wpc[w] = "pop"
    /\ queue = <<>> /\ closed
    /\ wpc' = [wpc EXCEPT ![w] = "exited"]
    /\ UNCHANGED <<queueVars, shutdown, wtask, clientVars, dying, history, destroyed>>

\* worker_entry(): task->func(task->arg) returns, the node is deleted.
RunTask(w) ==
    /\ wpc[w] = "run"
    /\ finished' = finished \cup {wtask[w]}
    /\ wtask' = [wtask EXCEPT ![w] = NoTask]
    /\ wpc' = [wpc EXCEPT ![w] = "pop"]
    /\ UNCHANGED <<queueVars, shutdown, clientVars, dying, accepted, refused, destroyed>>

\* pthread_cond_wait may return without a notification.
SpuriousWakeup(w) ==
    /\ w \in Waiting
    /\ wpc' = [wpc EXCEPT ![w] = "pop"]
    /\ UNCHANGED <<queueVars, shutdown, wtask, clientVars, dying, history, destroyed>>
-----------------------------------------------------------------------------
\* shutdown(): the unlocked test of shutdown_; a second call returns at once.
ShutdownTest(c) ==
    /\ Free(c)
    /\ c \in Closers
    /\ Goto(c, IF shutdown THEN "returned" ELSE "setFlag")
    /\ UNCHANGED <<queueVars, shutdown, workerVars, ctask, joining, dying, history, destroyed>>

\* shutdown(): shutdown_ = true.
ShutdownSet(c) ==
    /\ cpc[c] = "setFlag"
    /\ shutdown' = TRUE
    /\ Goto(c, "close")
    /\ UNCHANGED <<queueVars, workerVars, ctask, joining, dying, history, destroyed>>

\* shutdown(): queue_.close() sets closed_ and wakes every worker.
ShutdownClose(c) ==
    /\ cpc[c] = "close"
    /\ closed' = TRUE
    /\ NotifyAll
    /\ Goto(c, "join")
    /\ UNCHANGED <<queue, shutdown, wtask, ctask, joining, dying, history, destroyed>>

\* Fault: the loop leaves out the last worker.
JoinAllButLast(c) ==
    /\ cpc[c] = "join"
    /\ IF joining[c] < NumThreads
       THEN /\ wpc[joining[c]] = "exited"
            /\ joining' = [joining EXCEPT ![c] = @ + 1]
            /\ UNCHANGED cpc
       ELSE /\ Goto(c, IF c \in dying THEN "release" ELSE "returned")
            /\ UNCHANGED joining
    /\ UNCHANGED <<queueVars, shutdown, workerVars, ctask, dying, history, destroyed>>

\* shutdown(): pthread_join(threads_[i]) returns when worker i has exited;
\* after the last one shutdown() returns, or the destructor goes on.
ShutdownJoin(c) ==
    /\ cpc[c] = "join"
    /\ IF joining[c] \in Workers
       THEN /\ wpc[joining[c]] = "exited"
            /\ joining' = [joining EXCEPT ![c] = @ + 1]
            /\ UNCHANGED cpc
       ELSE /\ Goto(c, IF c \in dying THEN "release" ELSE "returned")
            /\ UNCHANGED joining
    /\ UNCHANGED <<queueVars, shutdown, workerVars, ctask, dying, history, destroyed>>

\* ~thread_pool(): the object's owner calls it once no other call is in
\* progress; it shuts the pool down unless shutdown_ says that was done.
DestroyBegin(c) ==
    /\ \A d \in Clients : Free(d)
    /\ dying' = {c}
    /\ Goto(c, IF shutdown THEN "release" ELSE "setFlag")
    /\ UNCHANGED <<queueVars, shutdown, workerVars, ctask, joining, history, destroyed>>

\* ~thread_pool(): delete[] threads_, then ~task_queue() frees what is queued.
DestroyEnd(c) ==
    /\ cpc[c] = "release"
    /\ destroyed' = TRUE
    /\ queue' = <<>>
    /\ Goto(c, "returned")
    /\ UNCHANGED <<closed, shutdown, workerVars, ctask, joining, dying, history>>

-----------------------------------------------------------------------------
WorkerStep(w) == PopWaits(w) \/ PopTakes(w) \/ PopEnds(w) \/ RunTask(w)

CallStep(c) ==
    \/ PushAccepts(c) \/ PushRefuses(c)
    \/ ShutdownSet(c) \/ ShutdownClose(c) \/ ShutdownJoin(c) \/ DestroyEnd(c)

Next ==
    \/ \E w \in Workers : WorkerStep(w) \/ SpuriousWakeup(w)
    \/ \E c \in Clients :
          \/ CallStep(c)
          \/ SubmitRefused(c) \/ \E task \in Tasks : SubmitAllocate(c, task)
          \/ ShutdownTest(c) \/ DestroyBegin(c)

\* A worker that can run runs (a task that has begun returns), and a call
\* that has begun is carried on.  Nobody is obliged to call the pool, and no
\* spurious wakeup is promised.
Fairness ==
    /\ \A w \in Workers : WF_vars(WorkerStep(w))
    /\ \A c \in Clients : WF_vars(CallStep(c))

Spec == Init /\ [][Next]_vars
FairSpec == Spec /\ Fairness
-----------------------------------------------------------------------------
Popping == {w \in Workers : wpc[w] = "pop"}

\* No lost wakeup: while a worker sleeps on cv_, at least as many workers are
\* on their way to the queue as there are tasks in it.  notify_one() under
\* the lock wakes one worker per task, and a worker that comes back by itself
\* and takes the task leaves the woken one to find the queue empty.
WakeupsCoverQueue == Waiting # {} => Cardinality(Popping) >= Len(queue)

\* Whoever comes back from shutdown() finds every accepted task executed:
\* "wait for all tasks to complete and shut the pool down".
ShutdownWaitsForTasks ==
    \A c \in Clients : cpc[c] = "returned" => finished = Accepted

\* The pool implements the abstract task service.
drained == \E c \in Clients : cpc[c] \in {"returned", "release"}
Service == INSTANCE TaskService WITH
    started <- IF destroyed THEN Len(accepted) ELSE Len(accepted) - Len(queue),
    running <- {wtask[w] : w \in {v \in Workers : wpc[v] = "run"}}
ImplementsService == Service!Spec

\* Every task that submit() accepted is executed, closing or not.
AcceptedTasksFinish ==
    \A task \in Tasks : task \in Accepted ~> task \in finished

\* A shutdown() that was begun comes back.
ShutdownReturns ==
    \A c \in Clients : cpc[c] = "setFlag" ~> cpc[c] = "returned"
=============================================================================
