------------------------------ MODULE Threads -------------------------------
(***************************************************************************)
(* zen::thread (src/threading/thread/thread.h): one thread of the program  *)
(* starts others through handles that it moves, joins, detaches and        *)
(* destroys.  The task object on the heap belongs to the started thread,   *)
(* which runs and deletes it, or to start() when the system refuses.       *)
(***************************************************************************)
EXTENDS Integers, FiniteSets

CONSTANTS
    Handles,  \* the variables of type thread
    Ids,      \* the pthread_t values of the threads started, and their tasks
    NoId      \* the handle_ of a thread object without a thread

\* What the constants must satisfy.
ConstantsAssumption == NoId \notin Handles \cup Ids

VARIABLES
    handle,    \* handle_ and joinable_ of each variable
    thread,    \* each started thread: "none", "running", "ran" its task, "ended"
    task,      \* each task: "none", "alive", "deleted", or "misused" if deleted twice
    reaped,    \* each thread: how often it was joined, and how often detached
    joining    \* the variable whose join() waits, or NoId

threadVars == <<handle, thread, task, reaped, joining>>

Empty == [id |-> NoId, joinable |-> FALSE]

Init ==
    /\ handle = [h \in Handles |-> Empty]
    /\ thread = [i \in Ids |-> "none"]
    /\ task = [i \in Ids |-> "none"]
    /\ reaped = [i \in Ids |-> [joined |-> 0, detached |-> 0]]
    /\ joining = NoId

Deletes(i) == task' = [task EXCEPT ![i] = IF @ = "alive" THEN "deleted" ELSE "misused"]

-----------------------------------------------------------------------------
\* thread(f), thread(f, a1), thread(f, a1, a2) make the task and start().
Start(h, i) ==
    /\ joining = NoId
    /\ handle[h] = Empty
    /\ thread[i] = "none" /\ task[i] = "none"
    /\ task' = [task EXCEPT ![i] = "alive"]
    /\ thread' = [thread EXCEPT ![i] = "running"]
    /\ handle' = [handle EXCEPT ![h] = [id |-> i, joinable |-> TRUE]]
    /\ UNCHANGED <<reaped, joining>>

\* start(): pthread_create() fails, the task is deleted and nobody is told.
StartFails(h, i) ==
    /\ joining = NoId
    /\ handle[h] = Empty
    /\ thread[i] = "none" /\ task[i] = "none"
    /\ task' = [task EXCEPT ![i] = "deleted"]
    /\ UNCHANGED <<handle, thread, reaped, joining>>

\* thread_entry(): task->run() returns, then delete task.
TaskReturns(i) ==
    /\ thread[i] = "running"
    /\ thread' = [thread EXCEPT ![i] = "ran"]
    /\ UNCHANGED <<handle, task, reaped, joining>>

ThreadEnds(i) ==
    /\ thread[i] = "ran"
    /\ Deletes(i)
    /\ thread' = [thread EXCEPT ![i] = "ended"]
    /\ UNCHANGED <<handle, reaped, joining>>

\* join(): returns at once without a thread.
JoinCall(h) ==
    /\ joining = NoId
    /\ handle[h].joinable
    /\ joining' = h
    /\ UNCHANGED <<handle, thread, task, reaped>>

\* pthread_join() comes back: the thread has ended.
JoinReturns ==
    /\ joining # NoId
    /\ LET i == handle[joining].id
       IN /\ thread[i] = "ended"
          /\ reaped' = [reaped EXCEPT ![i].joined = @ + 1]
    /\ handle' = [handle EXCEPT ![joining] = Empty]
    /\ joining' = NoId
    /\ UNCHANGED <<thread, task>>

\* What detach() does to the thread of a handle; none, if it is not joinable.
Detached(x) ==
    IF x.joinable THEN [reaped EXCEPT ![x.id].detached = @ + 1] ELSE reaped

\* detach(), and the destructor, which detaches as well.
Detach(h) ==
    /\ joining = NoId
    /\ handle[h].joinable
    /\ reaped' = Detached(handle[h])
    /\ handle' = [handle EXCEPT ![h] = Empty]
    /\ UNCHANGED <<thread, task, joining>>

\* thread(thread&&): a variable made anew takes the thread over.
MoveConstruct(from, to) ==
    /\ joining = NoId
    /\ from # to /\ handle[to] = Empty
    /\ handle' = [handle EXCEPT ![to] = handle[from], ![from] = Empty]
    /\ UNCHANGED <<thread, task, reaped, joining>>

\* Fault: the target forgets the thread it had.
MoveAssignForgets(from, to) ==
    /\ joining = NoId
    /\ from # to
    /\ handle' = [handle EXCEPT ![to] = handle[from], ![from] = Empty]
    /\ UNCHANGED <<thread, task, reaped, joining>>

\* operator=(thread&&): the target detaches the thread it had.
MoveAssign(from, to) ==
    /\ joining = NoId
    /\ from # to
    /\ reaped' = Detached(handle[to])
    /\ handle' = [handle EXCEPT ![to] = handle[from], ![from] = Empty]
    /\ UNCHANGED <<thread, task, joining>>

Next ==
    \/ \E h \in Handles, i \in Ids : Start(h, i) \/ StartFails(h, i)
    \/ \E i \in Ids : TaskReturns(i) \/ ThreadEnds(i)
    \/ \E h \in Handles : JoinCall(h) \/ Detach(h)
    \/ JoinReturns
    \/ \E from, to \in Handles : MoveConstruct(from, to) \/ MoveAssign(from, to)

-----------------------------------------------------------------------------
Holders(i) == {h \in Handles : handle[h].joinable /\ handle[h].id = i}

\* Every thread that was started has one handle that may join it, or was
\* joined or detached once and has none, whatever handles were moved; only a
\* thread that has ended was joined, and its task is gone; no task is deleted
\* twice, or kept by a thread that has ended.
ThreadsReaped ==
    \A i \in Ids :
        /\ Cardinality(Holders(i)) + reaped[i].joined + reaped[i].detached =
              IF thread[i] = "none" THEN 0 ELSE 1
        /\ reaped[i].joined > 0 => thread[i] = "ended"
        /\ task[i] # "misused"
        /\ thread[i] = "ended" => task[i] = "deleted"
        /\ thread[i] \in {"running", "ran"} => task[i] = "alive"
=============================================================================
