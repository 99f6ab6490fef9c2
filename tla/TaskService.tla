----------------------------- MODULE TaskService -----------------------------
(***************************************************************************)
(* What a zen::thread_pool promises its callers, without threads, locks or *)
(* condition variables: a task that was accepted is started once, in the   *)
(* order of acceptance, and finishes; after closing no task is accepted;   *)
(* the pool is drained only when every accepted task has finished.  Both   *)
(* pools of the library, ThreadPool and WorkerPool, implement it.          *)
(***************************************************************************)
EXTENDS Naturals, Sequences

CONSTANT Tasks

VARIABLES
    accepted,  \* the tasks accepted so far, in order
    started,   \* how many of them have been handed to a worker
    running,   \* the tasks being executed
    finished,  \* the tasks that have been executed
    closed,    \* no further task is accepted
    drained    \* "all tasks are complete" has been reported

vars == <<accepted, started, running, finished, closed, drained>>

Accepted == {accepted[i] : i \in 1 .. Len(accepted)}

Init ==
    /\ accepted = <<>>
    /\ started = 0
    /\ running = {}
    /\ finished = {}
    /\ closed = FALSE
    /\ drained = FALSE

Accept(task) ==
    /\ ~closed
    /\ task \notin Accepted
    /\ accepted' = Append(accepted, task)
    /\ UNCHANGED <<started, running, finished, closed, drained>>

Start ==
    /\ started < Len(accepted)
    /\ started' = started + 1
    /\ running' = running \cup {accepted[started + 1]}
    /\ UNCHANGED <<accepted, finished, closed, drained>>

Finish(task) ==
    /\ task \in running
    /\ running' = running \ {task}
    /\ finished' = finished \cup {task}
    /\ UNCHANGED <<accepted, started, closed, drained>>

Close ==
    /\ ~closed
    /\ closed' = TRUE
    /\ UNCHANGED <<accepted, started, running, finished, drained>>

Drain ==
    /\ closed
    /\ finished = Accepted
    /\ ~drained
    /\ drained' = TRUE
    /\ UNCHANGED <<accepted, started, running, finished, closed>>

Next ==
    \/ \E task \in Tasks : Accept(task) \/ Finish(task)
    \/ Start \/ Close \/ Drain

Spec == Init /\ [][Next]_vars
=============================================================================
