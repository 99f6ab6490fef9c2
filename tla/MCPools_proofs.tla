--------------------------- MODULE MCPools_proofs ---------------------------
(***************************************************************************)
(* Proofs about the thread pools.  First zen::thread_pool of               *)
(* src/pool/thread_pool.h (ThreadPool.tla), for every number of workers,   *)
(* clients and tasks: no wakeup is lost, shutdown() waits for the accepted *)
(* tasks, and every step is a step of the abstract task service or none.   *)
(* Then zen::thread_pool of src/threading/pool/thread_pool.h               *)
(* (WorkerPool.tla): no wakeup is lost although notify_one() is called     *)
(* without the mutex, the destructor leaves nothing behind, and it is the  *)
(* same abstract service.  Last the two pools side by side (MCPools.tla).  *)
(***************************************************************************)
EXTENDS MCPools, FiniteSetTheorems, SequenceTheorems, TLAPS

\* How many tasks have left the queue, and which; they are the first accepted.
NumStarted == Len(accepted) - Len(queue)
Started == {accepted[i] : i \in 1 .. NumStarted}
Running == {wtask[w] : w \in {v \in Workers : wpc[v] = "run"}}

\* A client has a task in its hand while it pushes, a worker while it runs.
InHand ==
    /\ \A c \in Clients : cpc[c] = "push" <=> ctask[c] # NoTask
    /\ \A w \in Workers : wpc[w] = "run" <=> wtask[w] # NoTask

\* Every task is allocated once.
Distinct ==
    /\ \A i, j \in 1 .. Len(accepted) : accepted[i] = accepted[j] => i = j
    /\ \A c \in Clients : cpc[c] = "push" =>
          /\ ctask[c] \notin Accepted
          /\ \A d \in Clients : ctask[d] = ctask[c] => d = c
    /\ \A v, w \in Workers : wpc[v] = "run" /\ wtask[v] = wtask[w] => v = w

\* The queue holds the tasks accepted last, and those that left it are running
\* or have finished.
Accounts ==
    /\ Len(queue) <= Len(accepted)
    /\ \A i \in 1 .. Len(queue) : queue[i] = accepted[NumStarted + i]
    /\ Started = finished \cup Running

\* A worker leaves when the queue is closed and empty, and then it stays empty.
Exits == \A w \in Workers : wpc[w] = "exited" => closed /\ queue = <<>>

\* Nothing is queued or running, nor ever will be.
Quiet == closed /\ \A w \in Workers : wpc[w] = "exited"

\* The phases of shutdown(): shutdown_ is set before the queue is closed, the
\* queue is closed before the first join, a worker that was joined has left,
\* and whoever set shutdown_ is on the way or has joined all workers.
Phases ==
    /\ closed => shutdown
    /\ \A c \in Clients :
          /\ cpc[c] \in {"close", "join", "returned", "release"} => shutdown
          /\ cpc[c] = "join" => closed
          /\ \A w \in Workers : w < joining[c] => wpc[w] = "exited"
          /\ cpc[c] = "release" => Quiet
    /\ shutdown => Quiet \/ \E c \in Clients : cpc[c] \in {"close", "join"}
    /\ destroyed => Quiet

\* Only a client of Closers or the destructor shuts the pool down.
WhoCloses == \A c \in Clients : cpc[c] \in {"setFlag", "close", "join"} => c \in Closers \cup dying

\* With one closer, whoever has come back has seen the pool quiet.
QuietReturns == (\A c, d \in Closers : c = d) =>
    \A c \in Clients : cpc[c] = "returned" => Quiet

IndInv ==
    /\ TypeOK
    /\ WakeupsCoverQueue
    /\ InHand
    /\ Distinct
    /\ Accounts
    /\ Exits
    /\ Phases
    /\ WhoCloses
    /\ QuietReturns
-----------------------------------------------------------------------------
\* What the invariant says in the form the steps need.
LEMMA Facts ==
    ASSUME IndInv
    PROVE  /\ queue \in Seq(Tasks) /\ accepted \in Seq(Tasks)
           /\ Len(queue) \in Nat /\ Len(accepted) \in Nat /\ NumStarted \in Nat
           /\ \A i \in 1 .. Len(accepted) : accepted[i] \in Tasks
           /\ wpc \in [Workers -> WorkerLabels] /\ cpc \in [Clients -> ClientLabels]
           /\ wtask \in [Workers -> Tasks \cup {NoTask}]
           /\ ctask \in [Clients -> Tasks \cup {NoTask}]
           /\ \A w \in Workers : wpc[w] = "run" => wtask[w] \in Tasks
           /\ \A c \in Clients : cpc[c] = "push" => ctask[c] \in Tasks
  <1>1. queue \in Seq(Tasks) /\ accepted \in Seq(Tasks)
    BY DEF IndInv, TypeOK
  <1>2. Len(queue) \in Nat /\ Len(accepted) \in Nat /\ \A i \in 1 .. Len(accepted) : accepted[i] \in Tasks
    BY <1>1, LenProperties, ElementOfSeq
  <1>3. NumStarted \in Nat
    BY <1>2 DEF IndInv, Accounts, NumStarted
  <1> QED BY <1>1, <1>2, <1>3 DEF IndInv, TypeOK, InHand

\* A quiet pool has executed what it accepted.
LEMMA QuietIsDone ==
    ASSUME IndInv, Quiet
    PROVE  queue = <<>> /\ finished = Accepted
  <1>1. 1 \in Workers
    BY NumThreadsAssumption DEF Workers
  <1>2. queue = <<>>
    BY <1>1 DEF IndInv, Exits, Quiet
  <1>3. Running = {}
    BY DEF Running, Quiet
  <1>4. NumStarted = Len(accepted)
    BY <1>2, EmptySeq, Facts DEF NumStarted
  <1> QED BY <1>2, <1>3, <1>4 DEF IndInv, Accounts, Started, Accepted

\* The workers on their way to the queue can be counted.
LEMMA FinitePopping ==
    /\ IsFiniteSet(Popping) /\ Cardinality(Popping) \in Nat
    /\ Cardinality(Popping') \in Nat
  <1>1. IsFiniteSet(Workers)
    BY FS_Interval, NumThreadsAssumption DEF Workers
  <1> QED BY <1>1, FS_Subset, FS_CardinalityType DEF Popping

\* One worker more on its way, or one less.
LEMMA OneMorePops ==
    ASSUME NEW w \in Workers, w \notin Popping, Popping' = Popping \cup {w}
    PROVE  Cardinality(Popping') = Cardinality(Popping) + 1
  BY FinitePopping, FS_AddElement

\* One worker less is about to pop.
LEMMA OneLessPops ==
    ASSUME NEW w \in Popping, Popping' = Popping \ {w}
    PROVE  Cardinality(Popping') = Cardinality(Popping) - 1
  BY FinitePopping, FS_RemoveElement

\* notify_one(): with a sleeper, one more worker is on its way; and no worker
\* is sent anywhere but to the queue.
LEMMA NotifyOneEffect ==
    ASSUME IndInv, NotifyOne
    PROVE  /\ wpc' \in [Workers -> WorkerLabels]
           /\ \A w \in Workers : wpc'[w] = wpc[w] \/ (wpc[w] = "wait" /\ wpc'[w] = "pop")
           /\ Waiting' # {} => Cardinality(Popping') = Cardinality(Popping) + 1
  <1>1. CASE Waiting = {} /\ UNCHANGED wpc
    BY <1>1, Facts DEF Waiting
  <1>2. ASSUME NEW w \in Waiting, wpc' = [wpc EXCEPT ![w] = "pop"]
        PROVE  /\ wpc' \in [Workers -> WorkerLabels]
               /\ \A v \in Workers : wpc'[v] = wpc[v] \/ (wpc[v] = "wait" /\ wpc'[v] = "pop")
               /\ Cardinality(Popping') = Cardinality(Popping) + 1
    <2>1. w \in Workers /\ wpc[w] = "wait"
      BY DEF Waiting
    <2>2. \A v \in Workers : wpc'[v] = IF v = w THEN "pop" ELSE wpc[v]
      BY <1>2, Facts
    <2>3. Popping' = Popping \cup {w} /\ w \notin Popping
      BY <2>1, <2>2 DEF Popping
    <2> QED BY <1>2, <2>1, <2>2, <2>3, OneMorePops, Facts DEF WorkerLabels
  <1> QED BY <1>1, <1>2 DEF NotifyOne

-----------------------------------------------------------------------------
\* The constructor: the workers on their way to an empty queue.
LEMMA InitInv == Init => IndInv
  <1> SUFFICES ASSUME Init PROVE IndInv
    OBVIOUS
  <1> USE DEF Init
  <1>1. queue \in Seq(Tasks) /\ accepted \in Seq(Tasks) /\ Len(queue) = 0 /\ Len(accepted) = 0
    BY EmptySeq
  <1>2. TypeOK
    <2>1. 1 \in 1 .. NumThreads + 1
      BY NumThreadsAssumption
    <2> QED BY <1>1, <2>1 DEF TypeOK, WorkerLabels, ClientLabels
  <1>3. WakeupsCoverQueue
    BY DEF WakeupsCoverQueue, Waiting
  <1>4. InHand /\ Distinct /\ Exits /\ Phases /\ WhoCloses /\ QuietReturns
    <2>1. \A w \in Workers : ~ (w < 1)
      BY NumThreadsAssumption DEF Workers
    <2> QED BY <1>1, <2>1 DEF InHand, Distinct, Exits, Phases, WhoCloses, QuietReturns
  <1>5. Accounts
    BY <1>1 DEF Accounts, Started, NumStarted, Running
  <1> QED BY <1>2, <1>3, <1>4, <1>5 DEF IndInv

\* What a step that leaves the tasks alone has to show.
LEMMA SameTasks ==
    ASSUME IndInv, UNCHANGED <<queue, wtask, ctask, accepted, finished>>,
           \A w \in Workers : wpc'[w] = "run" <=> wpc[w] = "run",
           \A c \in Clients : cpc'[c] = "push" <=> cpc[c] = "push"
    PROVE  InHand' /\ Distinct' /\ Accounts' /\ Running' = Running /\ NumStarted' = NumStarted
  <1>1. InHand'
    BY DEF IndInv, InHand
  <1>2. Distinct'
    BY DEF IndInv, Distinct, Accepted
  <1>3. Running' = Running /\ Started' = Started /\ NumStarted' = NumStarted
    BY DEF Running, Started, NumStarted
  <1>4. Accounts'
    BY <1>3 DEF IndInv, Accounts
  <1> QED BY <1>1, <1>2, <1>3, <1>4

\* A worker waits, wakes up by itself, or leaves.
LEMMA WorkerMovesStep ==
    ASSUME IndInv, NEW w \in Workers, PopWaits(w) \/ PopEnds(w) \/ SpuriousWakeup(w)
    PROVE  IndInv'
  <1> USE DEF queueVars, clientVars, history
  <1>1. UNCHANGED <<queue, closed, shutdown, wtask, cpc, ctask, joining, dying,
                    accepted, refused, finished, destroyed>>
    BY DEF PopWaits, PopEnds, SpuriousWakeup
  <1>2. PICK label \in {"wait", "exited", "pop"} :
           /\ wpc' = [wpc EXCEPT ![w] = label]
           /\ label = "exited" => closed /\ queue = <<>>
           /\ label = "wait" => queue = <<>>
           /\ label = "pop" => wpc[w] = "wait"
           /\ wpc[w] \in {"pop", "wait"}
           /\ label # "pop" => wpc[w] = "pop"
    BY DEF PopWaits, PopEnds, SpuriousWakeup, Waiting
  <1>3. \A v \in Workers : wpc'[v] = IF v = w THEN label ELSE wpc[v]
    BY <1>2, Facts
  <1>4. TypeOK'
    BY <1>1, <1>2 DEF IndInv, TypeOK, WorkerLabels
  <1>5. WakeupsCoverQueue'
    <2>1. CASE queue = <<>>
      <3>1. Len(queue') = 0
        BY <2>1, <1>1, EmptySeq
      <3> QED BY <3>1, FinitePopping DEF WakeupsCoverQueue
    <2>2. CASE queue # <<>>
      <3>1. wpc[w] = "wait" /\ label = "pop"
        BY <2>2, <1>2
      <3>2. Popping' = Popping \cup {w} /\ w \notin Popping /\ Waiting # {}
        BY <3>1, <1>3 DEF Popping, Waiting
      <3>3. Cardinality(Popping') = Cardinality(Popping) + 1
        BY <3>2, OneMorePops
      <3> QED BY <3>2, <3>3, <1>1, FinitePopping, Facts DEF IndInv, WakeupsCoverQueue
    <2> QED BY <2>1, <2>2
  <1>6. InHand' /\ Distinct' /\ Accounts'
    BY <1>1, <1>2, <1>3, SameTasks
  <1>7. Exits' /\ WhoCloses'
    BY <1>1, <1>2, <1>3 DEF IndInv, Exits, WhoCloses
  <1>8. Quiet => Quiet'
    BY <1>1, <1>2, <1>3 DEF Quiet
  <1>9. Phases' /\ QuietReturns'
    BY <1>1, <1>2, <1>3, <1>8 DEF IndInv, Phases, QuietReturns
  <1> QED BY <1>4, <1>5, <1>6, <1>7, <1>9 DEF IndInv

\* A worker takes the head of the queue.
LEMMA PopTakesStep ==
    ASSUME IndInv, NEW w \in Workers, PopTakes(w)
    PROVE  /\ IndInv'
           /\ NumStarted < Len(accepted) /\ NumStarted' = NumStarted + 1
           /\ Running' = Running \cup {accepted[NumStarted + 1]}
  <1>1. /\ UNCHANGED <<closed, shutdown, cpc, ctask, joining, dying,
                       accepted, refused, finished, destroyed>>
        /\ wpc[w] = "pop" /\ queue # <<>>
        /\ wtask' = [wtask EXCEPT ![w] = Head(queue)]
        /\ queue' = Tail(queue)
        /\ wpc' = [wpc EXCEPT ![w] = "run"]
    BY DEF PopTakes, clientVars, history
  <1>2. /\ Len(queue) \in Nat \ {0} /\ Head(queue) = queue[1] /\ Head(queue) \in Tasks
        /\ Tail(queue) \in Seq(Tasks) /\ Len(Tail(queue)) = Len(queue) - 1
        /\ \A i \in 1 .. Len(queue) - 1 : Tail(queue)[i] = queue[i + 1]
    BY <1>1, Facts, HeadTailProperties, EmptySeq
  <1>3. \A v \in Workers : /\ wpc'[v] = IF v = w THEN "run" ELSE wpc[v]
                           /\ wtask'[v] = IF v = w THEN Head(queue) ELSE wtask[v]
    BY <1>1, Facts
  <1>4. NumStarted' = NumStarted + 1 /\ NumStarted + 1 \in 1 .. Len(accepted)
    BY <1>1, <1>2, Facts DEF NumStarted, IndInv, Accounts
  <1>5. Head(queue) = accepted[NumStarted + 1]
    BY <1>2 DEF IndInv, Accounts
  <1>6. Head(queue) \notin Started
    BY <1>4, <1>5, Facts DEF Started, IndInv, Distinct
  <1>7. TypeOK'
    <2>1. wpc' \in [Workers -> WorkerLabels] /\ wtask' \in [Workers -> Tasks \cup {NoTask}]
      BY <1>1, <1>2, Facts DEF WorkerLabels
    <2> QED BY <1>1, <1>2, <2>1 DEF IndInv, TypeOK
  <1>8. WakeupsCoverQueue'
    <2>1. Waiting' = Waiting
      BY <1>1, <1>3 DEF Waiting
    <2>2. Popping' = Popping \ {w} /\ w \in Popping
      BY <1>1, <1>3 DEF Popping
    <2>3. Cardinality(Popping') = Cardinality(Popping) - 1
      BY <2>2, OneLessPops
    <2> QED BY <1>1, <1>2, <2>1, <2>3, FinitePopping DEF IndInv, WakeupsCoverQueue
  <1>9. InHand'
    BY <1>1, <1>2, <1>3, TasksAssumption DEF IndInv, InHand
  <1>10. Running' = Running \cup {Head(queue)}
    BY <1>1, <1>3 DEF Running
  <1>11. Distinct'
    <2>1. ASSUME NEW v \in Workers, NEW u \in Workers, wpc'[v] = "run", wtask'[v] = wtask'[u]
          PROVE  v = u
      <3>1. \A x \in Workers \ {w} : wpc[x] = "run" => wtask[x] # Head(queue)
        BY <1>6 DEF IndInv, Accounts, Running
      <3>2. \A x \in Workers \ {w} : wpc[x] # "run" => wtask[x] = NoTask
        BY DEF IndInv, InHand
      <3>3. \A x \in Workers \ {w} : wtask[x] # Head(queue)
        BY <3>1, <3>2, <1>2, TasksAssumption
      <3>4. CASE v = w
        BY <3>3, <3>4, <2>1, <1>3
      <3>5. CASE v # w
        BY <3>3, <3>5, <2>1, <1>3 DEF IndInv, Distinct
      <3> QED BY <3>4, <3>5
    <2> QED BY <1>1, <2>1 DEF IndInv, Distinct, Accepted
  <1>12. Accounts'
    <2>1. \A i \in 1 .. Len(queue') : queue'[i] = accepted'[NumStarted' + i]
      <3> SUFFICES ASSUME NEW i \in 1 .. Len(queue')
                   PROVE  queue'[i] = accepted'[NumStarted' + i]
        OBVIOUS
      <3>1. queue'[i] = queue[i + 1] /\ i + 1 \in 1 .. Len(queue)
        BY <1>1, <1>2
      <3>2. queue[i + 1] = accepted[NumStarted + (i + 1)]
        BY <3>1 DEF IndInv, Accounts
      <3>3. NumStarted + (i + 1) = NumStarted' + i
        BY <1>4, Facts
      <3> QED BY <3>1, <3>2, <3>3, <1>1
    <2>2. Started' = Started \cup {Head(queue)}
      BY <1>1, <1>4, <1>5, Facts DEF Started
    <2>3. Len(queue') <= Len(accepted')
      BY <1>1, <1>2, Facts DEF IndInv, Accounts
    <2> QED BY <1>1, <1>10, <2>1, <2>2, <2>3 DEF IndInv, Accounts
  <1>13. Exits' /\ WhoCloses'
    BY <1>1, <1>3 DEF IndInv, Exits, WhoCloses
  <1>14. ~ Quiet
    BY <1>1 DEF Quiet
  <1>15. Phases' /\ QuietReturns'
    BY <1>1, <1>3, <1>14 DEF IndInv, Phases, QuietReturns, Exits
  <1>16. IndInv'
    BY <1>7, <1>8, <1>9, <1>11, <1>12, <1>13, <1>15 DEF IndInv
  <1> QED BY <1>16, <1>4, <1>5, <1>10, Facts

\* A worker has executed its task and goes back to the queue.
LEMMA RunTaskStep ==
    ASSUME IndInv, NEW w \in Workers, RunTask(w)
    PROVE  /\ IndInv'
           /\ wtask[w] \in Tasks /\ wtask[w] \in Running /\ NumStarted' = NumStarted
           /\ Running' = Running \ {wtask[w]}
  <1>1. /\ UNCHANGED <<queue, closed, shutdown, cpc, ctask, joining, dying,
                       accepted, refused, destroyed>>
        /\ wpc[w] = "run"
        /\ finished' = finished \cup {wtask[w]}
        /\ wtask' = [wtask EXCEPT ![w] = NoTask]
        /\ wpc' = [wpc EXCEPT ![w] = "pop"]
    BY DEF RunTask, queueVars, clientVars
  <1>2. wtask[w] \in Tasks
    BY <1>1, Facts
  <1>3. \A v \in Workers : /\ wpc'[v] = IF v = w THEN "pop" ELSE wpc[v]
                           /\ wtask'[v] = IF v = w THEN NoTask ELSE wtask[v]
    BY <1>1, Facts
  <1>4. TypeOK'
    <2>1. wpc' \in [Workers -> WorkerLabels] /\ wtask' \in [Workers -> Tasks \cup {NoTask}]
      BY <1>1, Facts DEF WorkerLabels
    <2> QED BY <1>1, <1>2, <2>1 DEF IndInv, TypeOK
  <1>5. WakeupsCoverQueue'
    <2>1. Waiting' = Waiting
      BY <1>1, <1>3 DEF Waiting
    <2>2. Popping' = Popping \cup {w} /\ w \notin Popping
      BY <1>1, <1>3 DEF Popping
    <2>3. Cardinality(Popping') = Cardinality(Popping) + 1
      BY <2>2, OneMorePops
    <2> QED BY <1>1, <2>1, <2>3, FinitePopping, Facts DEF IndInv, WakeupsCoverQueue
  <1>6. InHand'
    BY <1>1, <1>3 DEF IndInv, InHand
  <1>7. Distinct'
    <2>1. ASSUME NEW v \in Workers, NEW u \in Workers, wpc'[v] = "run", wtask'[v] = wtask'[u]
          PROVE  v = u
      BY <2>1, <1>3, Facts, TasksAssumption DEF IndInv, Distinct
    <2> QED BY <1>1, <2>1 DEF IndInv, Distinct, Accepted
  <1>8. Running' = Running \ {wtask[w]} /\ wtask[w] \in Running
    BY <1>1, <1>3 DEF Running, IndInv, Distinct
  <1>12. Started' = Started /\ NumStarted' = NumStarted
    BY <1>1 DEF Started, NumStarted
  <1>13. Accounts'
    BY <1>1, <1>8, <1>12 DEF IndInv, Accounts
  <1>9. Exits' /\ WhoCloses'
    BY <1>1, <1>3 DEF IndInv, Exits, WhoCloses
  <1>10. ~ Quiet
    BY <1>1 DEF Quiet
  <1>11. Phases' /\ QuietReturns'
    BY <1>1, <1>3, <1>10 DEF IndInv, Phases, QuietReturns
  <1>14. IndInv'
    BY <1>4, <1>5, <1>6, <1>7, <1>9, <1>11, <1>13 DEF IndInv
  <1> QED BY <1>2, <1>8, <1>12, <1>14

\* submit() allocates: the task is new.
LEMMA SubmitAllocateStep ==
    ASSUME IndInv, NEW c \in Clients, NEW task \in Tasks, SubmitAllocate(c, task)
    PROVE  IndInv'
  <1>1. /\ UNCHANGED <<queue, closed, shutdown, wpc, wtask, joining, dying,
                       accepted, refused, finished, destroyed>>
        /\ cpc[c] \in {"idle", "returned"} /\ ~ shutdown /\ task \notin Allocated
        /\ ctask' = [ctask EXCEPT ![c] = task] /\ cpc' = [cpc EXCEPT ![c] = "push"]
    BY DEF SubmitAllocate, Free, Goto, queueVars, workerVars, history
  <1>2. \A d \in Clients : /\ cpc'[d] = IF d = c THEN "push" ELSE cpc[d]
                           /\ ctask'[d] = IF d = c THEN task ELSE ctask[d]
    BY <1>1, Facts
  <1>3. TypeOK'
    <2>1. cpc' \in [Clients -> ClientLabels] /\ ctask' \in [Clients -> Tasks \cup {NoTask}]
      BY <1>1, Facts DEF ClientLabels
    <2> QED BY <1>1, <2>1 DEF IndInv, TypeOK
  <1>4. WakeupsCoverQueue' /\ Exits' /\ WhoCloses'
    BY <1>1, <1>2 DEF IndInv, WakeupsCoverQueue, Waiting, Popping, Exits, WhoCloses
  <1>5. InHand'
    BY <1>1, <1>2, TasksAssumption DEF IndInv, InHand
  <1>6. Distinct'
    <2>1. task \notin Accepted /\ \A d \in Clients : ctask[d] # task
      BY <1>1 DEF Allocated
    <2>2. Accepted' = Accepted
      BY <1>1 DEF Accepted
    <2> QED BY <1>1, <1>2, <2>1, <2>2 DEF IndInv, Distinct
  <1>7. Accounts'
    <2>1. Running' = Running /\ Started' = Started /\ NumStarted' = NumStarted
      BY <1>1 DEF Running, Started, NumStarted
    <2> QED BY <1>1, <2>1 DEF IndInv, Accounts
  <1>8. Phases' /\ QuietReturns'
    BY <1>1, <1>2 DEF IndInv, Phases, QuietReturns, Quiet
  <1> QED BY <1>3, <1>4, <1>5, <1>6, <1>7, <1>8 DEF IndInv

\* push() on an open queue: a task more, and a worker more on its way to it if
\* any sleeps.
LEMMA PushAcceptsStep ==
    ASSUME IndInv, NEW c \in Clients, PushAccepts(c)
    PROVE  /\ IndInv'
           /\ ctask[c] \in Tasks \ Accepted
           /\ NumStarted' = NumStarted /\ Running' = Running
  <1>1. /\ UNCHANGED <<closed, shutdown, wtask, joining, dying, refused, finished, destroyed>>
        /\ cpc[c] = "push" /\ ~ closed
        /\ queue' = Append(queue, ctask[c]) /\ accepted' = Append(accepted, ctask[c])
        /\ NotifyOne
        /\ ctask' = [ctask EXCEPT ![c] = NoTask] /\ cpc' = [cpc EXCEPT ![c] = "idle"]
    BY DEF PushAccepts, Goto
  <1>2. ctask[c] \in Tasks
    BY <1>1, Facts
  <1>3. /\ queue' \in Seq(Tasks) /\ Len(queue') = Len(queue) + 1
        /\ \A i \in 1 .. Len(queue) : queue'[i] = queue[i]
        /\ queue'[Len(queue) + 1] = ctask[c]
    BY <1>1, <1>2, Facts, AppendProperties
  <1>4. /\ accepted' \in Seq(Tasks) /\ Len(accepted') = Len(accepted) + 1
        /\ \A i \in 1 .. Len(accepted) : accepted'[i] = accepted[i]
        /\ accepted'[Len(accepted) + 1] = ctask[c]
    BY <1>1, <1>2, Facts, AppendProperties
  <1>5. /\ wpc' \in [Workers -> WorkerLabels]
        /\ \A w \in Workers : wpc'[w] = wpc[w] \/ (wpc[w] = "wait" /\ wpc'[w] = "pop")
        /\ Waiting' # {} => Cardinality(Popping') = Cardinality(Popping) + 1
    BY <1>1, NotifyOneEffect
  <1>6. \A d \in Clients : /\ cpc'[d] = IF d = c THEN "idle" ELSE cpc[d]
                           /\ ctask'[d] = IF d = c THEN NoTask ELSE ctask[d]
    BY <1>1, Facts
  <1>7. TypeOK'
    <2>1. cpc' \in [Clients -> ClientLabels] /\ ctask' \in [Clients -> Tasks \cup {NoTask}]
      BY <1>1, Facts DEF ClientLabels
    <2> QED BY <1>1, <1>3, <1>4, <1>5, <2>1 DEF IndInv, TypeOK
  <1>8. WakeupsCoverQueue'
    <2>1. Waiting' # {} => Waiting # {}
      BY <1>5 DEF Waiting
    <2> QED BY <1>3, <1>5, <2>1, FinitePopping, Facts DEF IndInv, WakeupsCoverQueue
  <1>9. InHand'
    <2>1. \A d \in Clients : cpc'[d] = "push" <=> ctask'[d] # NoTask
      BY <1>6 DEF IndInv, InHand
    <2>2. \A w \in Workers : wpc'[w] = "run" <=> wpc[w] = "run"
      BY <1>5
    <2> QED BY <1>1, <2>1, <2>2 DEF IndInv, InHand
  <1>10. Accepted' = Accepted \cup {ctask[c]}
    <2>1. \A i \in 1 .. Len(accepted) : i \in 1 .. Len(accepted')
      BY <1>4, Facts
    <2>2. \A i \in 1 .. Len(accepted') : i \in 1 .. Len(accepted) \/ i = Len(accepted) + 1
      BY <1>4, Facts
    <2>3. Len(accepted) + 1 \in 1 .. Len(accepted')
      BY <1>4, Facts
    <2> QED BY <1>4, <2>1, <2>2, <2>3 DEF Accepted
  <1>11. ctask[c] \notin Accepted /\ \A d \in Clients \ {c} : ctask[d] # ctask[c]
    BY <1>1 DEF IndInv, Distinct
  <1>12. Distinct'
    <2>1. ASSUME NEW i \in 1 .. Len(accepted'), NEW j \in 1 .. Len(accepted'),
                 accepted'[i] = accepted'[j]
          PROVE  i = j
      <3>1. \A k \in 1 .. Len(accepted) : accepted'[k] # ctask[c]
        BY <1>4, <1>11 DEF Accepted
      <3> QED BY <2>1, <3>1, <1>4, Facts DEF IndInv, Distinct
    <2>2. ASSUME NEW d \in Clients, cpc'[d] = "push"
          PROVE  ctask'[d] \notin Accepted' /\ \A e \in Clients : ctask'[e] = ctask'[d] => e = d
      <3>1. d # c /\ cpc[d] = "push" /\ ctask'[d] = ctask[d] /\ ctask[d] # NoTask
        BY <2>2, <1>6 DEF IndInv, InHand
      <3> QED BY <3>1, <1>6, <1>10, <1>11 DEF IndInv, Distinct
    <2>3. \A v, w \in Workers : wpc'[v] = "run" /\ wtask'[v] = wtask'[w] => v = w
      BY <1>1, <1>5 DEF IndInv, Distinct
    <2> QED BY <2>1, <2>2, <2>3 DEF Distinct
  <1>13. NumStarted' = NumStarted
    BY <1>3, <1>4, Facts DEF NumStarted
  <1>17. Running' = Running
    BY <1>1, <1>5 DEF Running
  <1>18. Accounts'
    <2>2. Started' = Started
      <3>1. \A i \in 1 .. NumStarted : accepted'[i] = accepted[i]
        <4>1. NumStarted <= Len(accepted)
          BY Facts DEF NumStarted
        <4> QED BY <4>1, <1>4, Facts
      <3> QED BY <3>1, <1>13 DEF Started
    <2>4. ASSUME NEW i \in 1 .. Len(queue') PROVE queue'[i] = accepted'[NumStarted' + i]
      <3>1. CASE i \in 1 .. Len(queue)
        <4>1. NumStarted + i \in 1 .. Len(accepted)
          BY <3>1, Facts DEF NumStarted
        <4> QED BY <3>1, <4>1, <1>13, <1>3, <1>4 DEF IndInv, Accounts
      <3>2. CASE i = Len(queue) + 1
        <4>1. NumStarted + i = Len(accepted) + 1
          BY <3>2, Facts DEF NumStarted
        <4> QED BY <3>2, <4>1, <1>13, <1>3, <1>4
      <3> QED BY <3>1, <3>2, <1>3, Facts
    <2>5. Len(queue') <= Len(accepted')
      BY <1>3, <1>4, Facts DEF IndInv, Accounts
    <2> QED BY <1>1, <2>2, <1>17, <2>4, <2>5 DEF IndInv, Accounts
  <1>14. Exits' /\ WhoCloses'
    BY <1>1, <1>5, <1>6 DEF IndInv, Exits, WhoCloses
  <1>15. ~ Quiet
    BY <1>1 DEF Quiet
  <1>16. Phases' /\ QuietReturns'
    BY <1>1, <1>5, <1>6, <1>15 DEF IndInv, Phases, QuietReturns
  <1>19. IndInv'
    BY <1>7, <1>8, <1>9, <1>12, <1>14, <1>16, <1>18 DEF IndInv
  <1> QED BY <1>2, <1>11, <1>13, <1>17, <1>19

\* push() on a closed queue: the task is not accepted.
LEMMA PushRefusesStep ==
    ASSUME IndInv, NEW c \in Clients, PushRefuses(c)
    PROVE  IndInv'
  <1>1. /\ UNCHANGED <<queue, closed, shutdown, wpc, wtask, joining, dying,
                       accepted, finished, destroyed>>
        /\ cpc[c] = "push" /\ refused' = refused \cup {ctask[c]}
        /\ ctask' = [ctask EXCEPT ![c] = NoTask] /\ cpc' = [cpc EXCEPT ![c] = "idle"]
    BY DEF PushRefuses, Goto, queueVars, workerVars
  <1>2. \A d \in Clients : /\ cpc'[d] = IF d = c THEN "idle" ELSE cpc[d]
                           /\ ctask'[d] = IF d = c THEN NoTask ELSE ctask[d]
    BY <1>1, Facts
  <1>3. TypeOK'
    <2>1. cpc' \in [Clients -> ClientLabels] /\ ctask' \in [Clients -> Tasks \cup {NoTask}]
      BY <1>1, Facts DEF ClientLabels
    <2>2. refused' \subseteq Tasks
      BY <1>1, Facts DEF IndInv, TypeOK
    <2> QED BY <1>1, <2>1, <2>2 DEF IndInv, TypeOK
  <1>4. WakeupsCoverQueue' /\ Exits' /\ WhoCloses'
    BY <1>1, <1>2 DEF IndInv, WakeupsCoverQueue, Waiting, Popping, Exits, WhoCloses
  <1>5. InHand'
    BY <1>1, <1>2 DEF IndInv, InHand
  <1>6. Distinct'
    <2>1. Accepted' = Accepted
      BY <1>1 DEF Accepted
    <2>2. \A d \in Clients : cpc'[d] = "push" => ctask'[d] # NoTask /\ cpc[d] = "push" /\ d # c
      BY <1>2 DEF IndInv, InHand
    <2> QED BY <1>1, <1>2, <2>1, <2>2 DEF IndInv, Distinct
  <1>7. Accounts'
    <2>1. Running' = Running /\ Started' = Started /\ NumStarted' = NumStarted
      BY <1>1 DEF Running, Started, NumStarted
    <2> QED BY <1>1, <2>1 DEF IndInv, Accounts
  <1>8. Phases' /\ QuietReturns'
    BY <1>1, <1>2 DEF IndInv, Phases, QuietReturns, Quiet
  <1> QED BY <1>3, <1>4, <1>5, <1>6, <1>7, <1>8 DEF IndInv

\* shutdown() finds shutdown_ set and returns, or goes on to set it.
LEMMA ShutdownTestStep ==
    ASSUME IndInv, NEW c \in Clients, ShutdownTest(c)
    PROVE  IndInv'
  <1>1. /\ UNCHANGED <<queue, closed, shutdown, wpc, wtask, ctask, joining, dying,
                       accepted, refused, finished, destroyed>>
        /\ cpc[c] \in {"idle", "returned"} /\ c \in Closers
        /\ cpc' = [cpc EXCEPT ![c] = IF shutdown THEN "returned" ELSE "setFlag"]
    BY DEF ShutdownTest, Free, Goto, queueVars, workerVars, history
  <1>2. \A d \in Clients : cpc'[d] = IF d = c THEN IF shutdown THEN "returned" ELSE "setFlag"
                                              ELSE cpc[d]
    BY <1>1, Facts
  <1>3. TypeOK'
    <2>1. cpc' \in [Clients -> ClientLabels]
      BY <1>1, Facts DEF ClientLabels
    <2> QED BY <1>1, <2>1 DEF IndInv, TypeOK
  <1>4. WakeupsCoverQueue' /\ Exits' /\ WhoCloses'
    BY <1>1, <1>2 DEF IndInv, WakeupsCoverQueue, Waiting, Popping, Exits, WhoCloses
  <1>5. InHand' /\ Distinct' /\ Accounts'
    BY <1>1, <1>2, SameTasks
  <1>6. Quiet' = Quiet
    BY <1>1 DEF Quiet
  <1>7. Phases'
    BY <1>1, <1>2, <1>6 DEF IndInv, Phases
  <1>8. QuietReturns'
    <2> SUFFICES ASSUME \A d, e \in Closers : d = e, NEW d \in Clients, cpc'[d] = "returned"
                 PROVE  Quiet
      BY <1>6 DEF QuietReturns
    <2>1. CASE cpc[d] = "returned"
      BY <2>1 DEF IndInv, QuietReturns
    <2>2. CASE cpc[d] # "returned"
      <3>1. d = c /\ shutdown
        BY <2>2, <1>2
      <3>2. \A e \in Clients : cpc[e] \in {"close", "join"} => e \in Closers
        BY <1>1 DEF ShutdownTest, Free, IndInv, WhoCloses
      <3> QED BY <3>1, <3>2, <1>1 DEF IndInv, Phases
    <2> QED BY <2>1, <2>2
  <1> QED BY <1>3, <1>4, <1>5, <1>7, <1>8 DEF IndInv

\* shutdown_ = true.
LEMMA ShutdownSetStep ==
    ASSUME IndInv, NEW c \in Clients, ShutdownSet(c)
    PROVE  IndInv'
  <1>1. /\ UNCHANGED <<queue, closed, wpc, wtask, ctask, joining, dying,
                       accepted, refused, finished, destroyed>>
        /\ cpc[c] = "setFlag" /\ shutdown' = TRUE
        /\ cpc' = [cpc EXCEPT ![c] = "close"]
    BY DEF ShutdownSet, Goto, queueVars, workerVars, history
  <1>2. \A d \in Clients : cpc'[d] = IF d = c THEN "close" ELSE cpc[d]
    BY <1>1, Facts
  <1>3. TypeOK'
    <2>1. cpc' \in [Clients -> ClientLabels]
      BY <1>1, Facts DEF ClientLabels
    <2> QED BY <1>1, <2>1 DEF IndInv, TypeOK
  <1>4. WakeupsCoverQueue' /\ Exits' /\ WhoCloses'
    BY <1>1, <1>2 DEF IndInv, WakeupsCoverQueue, Waiting, Popping, Exits, WhoCloses
  <1>5. InHand' /\ Distinct' /\ Accounts'
    BY <1>1, <1>2, SameTasks
  <1>6. Quiet' = Quiet
    BY <1>1 DEF Quiet
  <1>7. Phases' /\ QuietReturns'
    BY <1>1, <1>2, <1>6 DEF IndInv, Phases, QuietReturns
  <1> QED BY <1>3, <1>4, <1>5, <1>7 DEF IndInv

\* queue_.close(): nobody sleeps afterwards.
LEMMA ShutdownCloseStep ==
    ASSUME IndInv, NEW c \in Clients, ShutdownClose(c)
    PROVE  IndInv'
  <1>1. /\ UNCHANGED <<queue, shutdown, wtask, ctask, joining, dying,
                       accepted, refused, finished, destroyed>>
        /\ cpc[c] = "close" /\ closed' = TRUE
        /\ wpc' = [w \in Workers |-> IF w \in Waiting THEN "pop" ELSE wpc[w]]
        /\ cpc' = [cpc EXCEPT ![c] = "join"]
    BY DEF ShutdownClose, NotifyAll, Goto, history
  <1>2. \A d \in Clients : cpc'[d] = IF d = c THEN "join" ELSE cpc[d]
    BY <1>1, Facts
  <1>3. \A w \in Workers : wpc'[w] = IF wpc[w] = "wait" THEN "pop" ELSE wpc[w]
    BY <1>1 DEF Waiting
  <1>4. TypeOK'
    <2>1. cpc' \in [Clients -> ClientLabels]
      BY <1>1, Facts DEF ClientLabels
    <2>2. wpc' \in [Workers -> WorkerLabels]
      BY <1>1, Facts DEF WorkerLabels
    <2> QED BY <1>1, <2>1, <2>2 DEF IndInv, TypeOK
  <1>5. WakeupsCoverQueue'
    BY <1>3 DEF WakeupsCoverQueue, Waiting
  <1>6. InHand' /\ Distinct' /\ Accounts'
    BY <1>1, <1>2, <1>3, SameTasks
  <1>7. Exits'
    BY <1>1, <1>3 DEF IndInv, Exits
  <1>8. WhoCloses'
    BY <1>1, <1>2 DEF IndInv, WhoCloses
  <1>9. Quiet => Quiet'
    BY <1>1, <1>3 DEF Quiet
  <1>10. Phases'
    <2>1. shutdown' /\ closed'
      BY <1>1 DEF IndInv, Phases
    <2>2. \E d \in Clients : cpc'[d] \in {"close", "join"}
      BY <1>2
    <2>3. \A d \in Clients, w \in Workers : w < joining'[d] => wpc'[w] = "exited"
      BY <1>1, <1>3 DEF IndInv, Phases
    <2> QED BY <1>1, <1>2, <1>9, <2>1, <2>2, <2>3 DEF IndInv, Phases
  <1>11. QuietReturns'
    BY <1>1, <1>2, <1>9 DEF IndInv, QuietReturns
  <1> QED BY <1>4, <1>5, <1>6, <1>7, <1>8, <1>10, <1>11 DEF IndInv

\* pthread_join(): one worker more has left, or the loop is over.
LEMMA ShutdownJoinStep ==
    ASSUME IndInv, NEW c \in Clients, ShutdownJoin(c)
    PROVE  IndInv'
  <1>1. /\ UNCHANGED <<queue, closed, shutdown, wpc, wtask, ctask, dying,
                       accepted, refused, finished, destroyed>>
        /\ cpc[c] = "join"
    BY DEF ShutdownJoin, queueVars, workerVars, history
  <1>2. closed /\ joining[c] \in 1 .. NumThreads + 1
    BY <1>1 DEF IndInv, Phases, TypeOK
  <1>3. Quiet' = Quiet
    BY <1>1 DEF Quiet
  <1>4. CASE joining[c] \in Workers
    <2>1. /\ wpc[joining[c]] = "exited" /\ cpc' = cpc
          /\ joining' = [joining EXCEPT ![c] = @ + 1]
      BY <1>4 DEF ShutdownJoin
    <2>2. joining' \in [Clients -> 1 .. NumThreads + 1]
      <3>1. joining[c] + 1 \in 1 .. NumThreads + 1
        BY <1>4, NumThreadsAssumption DEF Workers
      <3> QED BY <2>1, <3>1 DEF IndInv, TypeOK
    <2>3. TypeOK'
      BY <1>1, <2>1, <2>2 DEF IndInv, TypeOK
    <2>4. \A d \in Clients, w \in Workers : w < joining'[d] => wpc[w] = "exited"
      <3> SUFFICES ASSUME NEW d \in Clients, NEW w \in Workers, w < joining'[d]
                   PROVE  wpc[w] = "exited"
        OBVIOUS
      <3>1. CASE d = c /\ w = joining[c]
        BY <3>1, <2>1
      <3>2. CASE ~ (d = c /\ w = joining[c])
        <4>1. w < joining[d]
          BY <3>2, <2>1, <1>2, NumThreadsAssumption DEF IndInv, TypeOK, Workers
        <4> QED BY <4>1 DEF IndInv, Phases
      <3> QED BY <3>1, <3>2
    <2>5. InHand' /\ Distinct' /\ Accounts'
      BY <1>1, <2>1, SameTasks
    <2>6. WakeupsCoverQueue' /\ Exits' /\ WhoCloses' /\ QuietReturns'
      BY <1>1, <1>3, <2>1 DEF IndInv, WakeupsCoverQueue, Waiting, Popping, Exits, WhoCloses, QuietReturns
    <2>7. Phases'
      BY <1>1, <1>3, <2>1, <2>4 DEF IndInv, Phases
    <2> QED BY <2>3, <2>5, <2>6, <2>7 DEF IndInv
  <1>5. CASE joining[c] \notin Workers
    <2>1. /\ cpc' = [cpc EXCEPT ![c] = IF c \in dying THEN "release" ELSE "returned"]
          /\ joining' = joining
      BY <1>5 DEF ShutdownJoin, Goto
    <2>2. \A d \in Clients : cpc'[d] = IF d = c THEN IF c \in dying THEN "release" ELSE "returned"
                                                ELSE cpc[d]
      BY <2>1, Facts
    <2>3. Quiet
      <3>1. \A w \in Workers : w < joining[c]
        BY <1>2, <1>5, NumThreadsAssumption DEF Workers
      <3> QED BY <3>1, <1>2 DEF Quiet, IndInv, Phases
    <2>4. TypeOK'
      <3>1. cpc' \in [Clients -> ClientLabels]
        BY <2>1, Facts DEF ClientLabels
      <3> QED BY <1>1, <2>1, <3>1 DEF IndInv, TypeOK
    <2>5. InHand' /\ Distinct' /\ Accounts'
      BY <1>1, <2>2, SameTasks
    <2>6. WakeupsCoverQueue' /\ Exits' /\ WhoCloses'
      BY <1>1, <2>2 DEF IndInv, WakeupsCoverQueue, Waiting, Popping, Exits, WhoCloses
    <2>7. Phases' /\ QuietReturns'
      BY <1>1, <1>3, <2>1, <2>2, <2>3 DEF IndInv, Phases, QuietReturns
    <2> QED BY <2>4, <2>5, <2>6, <2>7 DEF IndInv
  <1> QED BY <1>4, <1>5

\* ~thread_pool() begins: no other call is in progress.
LEMMA DestroyBeginStep ==
    ASSUME IndInv, NEW c \in Clients, DestroyBegin(c)
    PROVE  IndInv'
  <1>1. /\ UNCHANGED <<queue, closed, shutdown, wpc, wtask, ctask, joining,
                       accepted, refused, finished, destroyed>>
        /\ \A d \in Clients : cpc[d] \in {"idle", "returned"}
        /\ dying' = {c}
        /\ cpc' = [cpc EXCEPT ![c] = IF shutdown THEN "release" ELSE "setFlag"]
    BY DEF DestroyBegin, Free, Goto, queueVars, workerVars, history
  <1>2. \A d \in Clients : cpc'[d] = IF d = c THEN IF shutdown THEN "release" ELSE "setFlag"
                                              ELSE cpc[d]
    BY <1>1, Facts
  <1>3. TypeOK'
    <2>1. cpc' \in [Clients -> ClientLabels]
      BY <1>1, Facts DEF ClientLabels
    <2> QED BY <1>1, <2>1 DEF IndInv, TypeOK
  <1>4. WakeupsCoverQueue' /\ Exits' /\ WhoCloses'
    BY <1>1, <1>2 DEF IndInv, WakeupsCoverQueue, Waiting, Popping, Exits, WhoCloses
  <1>5. InHand' /\ Distinct' /\ Accounts'
    BY <1>1, <1>2, SameTasks
  <1>6. Quiet' = Quiet
    BY <1>1 DEF Quiet
  <1>7. shutdown => Quiet
    BY <1>1 DEF IndInv, Phases
  <1>8. Phases' /\ QuietReturns'
    BY <1>1, <1>2, <1>6, <1>7 DEF IndInv, Phases, QuietReturns
  <1> QED BY <1>3, <1>4, <1>5, <1>8 DEF IndInv

\* ~thread_pool() ends: there is nothing left to free.
LEMMA DestroyEndStep ==
    ASSUME IndInv, NEW c \in Clients, DestroyEnd(c)
    PROVE  IndInv' /\ queue' = queue
  <1>1. /\ UNCHANGED <<closed, shutdown, wpc, wtask, ctask, joining, dying,
                       accepted, refused, finished>>
        /\ cpc[c] = "release" /\ destroyed' = TRUE /\ queue' = <<>>
        /\ cpc' = [cpc EXCEPT ![c] = "returned"]
    BY DEF DestroyEnd, Goto, workerVars, history
  <1>2. Quiet /\ queue' = queue
    BY <1>1, QuietIsDone DEF IndInv, Phases
  <1>3. \A d \in Clients : cpc'[d] = IF d = c THEN "returned" ELSE cpc[d]
    BY <1>1, Facts
  <1>4. TypeOK'
    <2>1. cpc' \in [Clients -> ClientLabels]
      BY <1>1, Facts DEF ClientLabels
    <2> QED BY <1>1, <1>2, <2>1 DEF IndInv, TypeOK
  <1>5. WakeupsCoverQueue' /\ Exits' /\ WhoCloses'
    BY <1>1, <1>2, <1>3 DEF IndInv, WakeupsCoverQueue, Waiting, Popping, Exits, WhoCloses
  <1>6. InHand' /\ Distinct' /\ Accounts'
    BY <1>1, <1>2, <1>3, SameTasks
  <1>7. Quiet' = Quiet
    BY <1>1 DEF Quiet
  <1>8. Phases' /\ QuietReturns'
    BY <1>1, <1>2, <1>3, <1>7 DEF IndInv, Phases, QuietReturns
  <1> QED BY <1>2, <1>4, <1>5, <1>6, <1>8 DEF IndInv

\* A step that changes nothing: submit() refused by the flag.
LEMMA Stutter == IndInv /\ UNCHANGED vars => IndInv'
  <1> SUFFICES ASSUME IndInv, UNCHANGED vars PROVE IndInv'
    OBVIOUS
  <1> USE DEF vars
  <1>1. TypeOK' /\ InHand' /\ Distinct' /\ Accounts'
    BY SameTasks DEF IndInv, TypeOK
  <1>2. Quiet' = Quiet
    BY DEF Quiet
  <1>3. WakeupsCoverQueue' /\ Exits' /\ WhoCloses'
    BY DEF IndInv, WakeupsCoverQueue, Waiting, Popping, Exits, WhoCloses
  <1>4. Phases' /\ QuietReturns'
    BY <1>2 DEF IndInv, Phases, QuietReturns
  <1> QED BY <1>1, <1>3, <1>4 DEF IndInv

\* Each step keeps the invariant.
LEMMA NextStep == IndInv /\ [Next]_vars => IndInv'
  <1> SUFFICES ASSUME IndInv, [Next]_vars PROVE IndInv'
    OBVIOUS
  <1>1. ASSUME NEW w \in Workers, WorkerStep(w) \/ SpuriousWakeup(w) PROVE IndInv'
    BY <1>1, WorkerMovesStep, PopTakesStep, RunTaskStep DEF WorkerStep
  <1>2. ASSUME NEW c \in Clients, CallStep(c) PROVE IndInv'
    BY <1>2, PushAcceptsStep, PushRefusesStep, ShutdownSetStep, ShutdownCloseStep,
       ShutdownJoinStep, DestroyEndStep DEF CallStep
  <1>3. ASSUME NEW c \in Clients, NEW task \in Tasks, SubmitAllocate(c, task) PROVE IndInv'
    BY <1>3, SubmitAllocateStep
  <1>4. ASSUME NEW c \in Clients, SubmitRefused(c) PROVE IndInv'
    BY <1>4, Stutter DEF SubmitRefused
  <1>5. ASSUME NEW c \in Clients, ShutdownTest(c) \/ DestroyBegin(c) PROVE IndInv'
    BY <1>5, ShutdownTestStep, DestroyBeginStep
  <1> QED BY <1>1, <1>2, <1>3, <1>4, <1>5, Stutter DEF Next

\* The invariant holds in every reachable state.
LEMMA Inductive == Spec => []IndInv
  <1>1. Init => IndInv
    BY InitInv
  <1>2. IndInv /\ [Next]_vars => IndInv'
    BY NextStep
  <1> QED BY <1>1, <1>2, PTL DEF Spec
-----------------------------------------------------------------------------
\* Every variable keeps its type: no index of a join leaves 1 .. NumThreads + 1,
\* and what is queued, accepted or finished is a task.
THEOREM TypeCorrect == Spec => []TypeOK
  <1>1. IndInv => TypeOK
    BY DEF IndInv
  <1> QED BY <1>1, Inductive, PTL

\* No lost wakeup, whatever order workers, submit(), shutdown() and spurious
\* wakeups come in: while a worker sleeps on cv_, at least as many are on their
\* way to the queue as there are tasks in it.
THEOREM NoLostWakeup == Spec => []WakeupsCoverQueue
  <1>1. IndInv => WakeupsCoverQueue
    BY DEF IndInv
  <1> QED BY <1>1, Inductive, PTL

\* With one client that calls shutdown(), whoever comes back from it, or from
\* ~thread_pool(), finds every accepted task executed.
THEOREM ShutdownWaits ==
    ASSUME \A c, d \in Closers : c = d
    PROVE  Spec => []ShutdownWaitsForTasks
  <1>1. IndInv => ShutdownWaitsForTasks
    BY QuietIsDone DEF IndInv, QuietReturns, ShutdownWaitsForTasks
  <1> QED BY <1>1, Inductive, PTL

\* With any number of them: once somebody has come back and nobody is closing
\* or joining any more, every accepted task has been executed.  (A second
\* shutdown() that overlaps the first comes back at once.)
LastShutdownWaits ==
    (\E c \in Clients : cpc[c] = "returned") /\ (\A c \in Clients : cpc[c] \notin {"close", "join"})
        => queue = <<>> /\ finished = Accepted

THEOREM LastShutdown == Spec => []LastShutdownWaits
  <1>1. IndInv => LastShutdownWaits
    BY QuietIsDone DEF IndInv, Phases, LastShutdownWaits
  <1> QED BY <1>1, Inductive, PTL
-----------------------------------------------------------------------------
\* The destructor finds the queue empty, so as many tasks have been started as
\* have left the queue.
ServiceStarted == IF destroyed THEN Len(accepted) ELSE Len(accepted) - Len(queue)
StartedMatch == ServiceStarted = NumStarted

\* The tasks that the service has started are those that the pool has started, also
\* once the pool is gone.
LEMMA StartedTasks == IndInv => StartedMatch
  <1> SUFFICES ASSUME IndInv, destroyed PROVE Len(accepted) = NumStarted
    BY DEF NumStarted, StartedMatch, ServiceStarted
  <1>1. Len(queue) = 0
    BY QuietIsDone, EmptySeq DEF IndInv, Phases
  <1> QED BY <1>1, Facts DEF NumStarted

\* The state of the abstract service, in the pool's words.
LEMMA ServiceState ==
    /\ IndInv => Service!vars = <<accepted, NumStarted, Running, finished, closed, drained>>
    /\ IndInv' => Service!vars' = <<accepted', NumStarted', Running', finished', closed', drained'>>
  <1>1. IndInv' => StartedMatch'
    BY StartedTasks, PTL
  <1> QED BY <1>1, StartedTasks DEF Service!vars, Running, ServiceStarted, StartedMatch

\* What a step of the pool has to do to be a step of the service.
LEMMA AcceptIs ==
    ASSUME IndInv, IndInv', NEW task \in Tasks \ Accepted, ~ closed,
           accepted' = Append(accepted, task),
           NumStarted' = NumStarted, Running' = Running, drained' = drained,
           UNCHANGED <<finished, closed>>
    PROVE  Service!Accept(task)
  BY ServiceState DEF Service!Accept, Service!Accepted, Accepted, Service!vars

\* A step that takes the next task off the queue starts it in the service.
LEMMA StartIs ==
    ASSUME IndInv, IndInv', NumStarted < Len(accepted), NumStarted' = NumStarted + 1,
           Running' = Running \cup {accepted[NumStarted + 1]}, drained' = drained,
           UNCHANGED <<accepted, finished, closed>>
    PROVE  Service!Start
  BY ServiceState DEF Service!Start, Service!vars

\* A step that ends a running task finishes it in the service.
LEMMA FinishIs ==
    ASSUME IndInv, IndInv', NEW task \in Running, Running' = Running \ {task},
           finished' = finished \cup {task}, NumStarted' = NumStarted, drained' = drained,
           UNCHANGED <<accepted, closed>>
    PROVE  Service!Finish(task)
  BY ServiceState DEF Service!Finish, Service!vars

\* closed_ may be set a second time, which is no step of the service.
LEMMA CloseIs ==
    ASSUME IndInv, IndInv', closed', NumStarted' = NumStarted, Running' = Running,
           drained' = drained, UNCHANGED <<accepted, finished>>
    PROVE  Service!Close \/ UNCHANGED Service!vars
  <1>1. closed \in BOOLEAN /\ closed' \in BOOLEAN
    BY DEF IndInv, TypeOK
  <1> QED BY <1>1, ServiceState DEF Service!Close, Service!vars

\* Calls move on; whoever is the first to come back finds the pool drained.
LEMMA DrainIs ==
    ASSUME IndInv, IndInv', \A c, d \in Closers : c = d,
           UNCHANGED <<wpc, closed, accepted, finished>>,
           NumStarted' = NumStarted, Running' = Running, drained => drained'
    PROVE  Service!Drain \/ UNCHANGED Service!vars
  <1>1. CASE drained' = drained
    BY <1>1, ServiceState
  <1>2. CASE drained' # drained
    <2>1. ~ drained /\ drained'
      BY <1>2 DEF drained
    <2>2. Quiet
      <3>1. Quiet'
        BY <2>1 DEF IndInv, Phases, QuietReturns, drained
      <3> QED BY <3>1 DEF Quiet
    <2>3. closed /\ finished = Accepted
      BY <2>2, QuietIsDone DEF Quiet
    <2> QED BY <2>1, <2>3, ServiceState DEF Service!Drain, Service!Accepted, Accepted, Service!vars, drained
  <1> QED BY <1>1, <1>2

\* A worker's steps: only taking a task and finishing it are the service's.
LEMMA WorkerSimulates ==
    ASSUME IndInv, IndInv', NEW w \in Workers, WorkerStep(w) \/ SpuriousWakeup(w)
    PROVE  Service!Next \/ UNCHANGED Service!vars
  <1>1. drained' = drained
    BY DEF WorkerStep, PopWaits, PopTakes, PopEnds, RunTask, SpuriousWakeup, clientVars, drained
  <1>2. CASE PopTakes(w)
    <2>1. UNCHANGED <<accepted, finished, closed>>
      BY <1>2 DEF PopTakes, history
    <2> QED BY <1>1, <1>2, <2>1, PopTakesStep, StartIs DEF Service!Next
  <1>3. CASE RunTask(w)
    <2>1. UNCHANGED <<accepted, closed>> /\ finished' = finished \cup {wtask[w]}
      BY <1>3 DEF RunTask, queueVars
    <2> QED BY <1>1, <1>3, <2>1, RunTaskStep, FinishIs DEF Service!Next
  <1>4. CASE PopWaits(w) \/ PopEnds(w) \/ SpuriousWakeup(w)
    <2>1. UNCHANGED <<queue, wtask, ctask, cpc, accepted, finished, closed>>
      BY <1>4 DEF PopWaits, PopEnds, SpuriousWakeup, queueVars, clientVars, history
    <2>2. \A v \in Workers : wpc'[v] = "run" <=> wpc[v] = "run"
      BY <1>4, Facts DEF PopWaits, PopEnds, SpuriousWakeup, Waiting
    <2>3. Running' = Running /\ NumStarted' = NumStarted
      BY <2>1, <2>2, SameTasks
    <2> QED BY <1>1, <2>1, <2>3, ServiceState
  <1> QED BY <1>2, <1>3, <1>4 DEF WorkerStep

\* submit(): only push() on an open queue is a step of the service.
LEMMA SubmitSimulates ==
    ASSUME IndInv, IndInv', NEW c \in Clients,
           PushAccepts(c) \/ PushRefuses(c) \/ SubmitRefused(c)
           \/ \E task \in Tasks : SubmitAllocate(c, task)
    PROVE  Service!Next \/ UNCHANGED Service!vars
  <1>1. CASE PushAccepts(c)
    <2>1. /\ ~ closed /\ accepted' = Append(accepted, ctask[c]) /\ UNCHANGED <<finished, closed>>
          /\ cpc[c] = "push" /\ cpc' = [cpc EXCEPT ![c] = "idle"]
      BY <1>1 DEF PushAccepts, Goto
    <2>2. drained' = drained
      BY <2>1, Facts DEF drained
    <2> QED BY <1>1, <2>1, <2>2, PushAcceptsStep, AcceptIs DEF Service!Next
  <1>2. CASE ~ PushAccepts(c)
    <2>1. UNCHANGED <<queue, wpc, wtask, accepted, finished, closed>>
      BY <1>2 DEF PushRefuses, SubmitRefused, SubmitAllocate, vars, queueVars, workerVars, history
    <2>2. Running' = Running /\ NumStarted' = NumStarted
      BY <2>1 DEF Running, NumStarted
    <2>3. drained' = drained
      <3>1. CASE PushRefuses(c) \/ SubmitRefused(c)
        BY <3>1, Facts DEF PushRefuses, SubmitRefused, Goto, vars, drained
      <3>2. CASE \E task \in Tasks : SubmitAllocate(c, task)
        <4>1. ~ shutdown /\ cpc' = [cpc EXCEPT ![c] = "push"]
          BY <3>2 DEF SubmitAllocate, Goto
        <4> QED BY <4>1, Facts DEF IndInv, Phases, drained
      <3> QED BY <1>2, <3>1, <3>2
    <2> QED BY <2>1, <2>2, <2>3, ServiceState
  <1> QED BY <1>1, <1>2

\* shutdown() and ~thread_pool(): closing the queue, and the first to return.
LEMMA ShutdownSimulates ==
    ASSUME IndInv, IndInv', \A c, d \in Closers : c = d, NEW c \in Clients,
           \/ ShutdownTest(c) \/ ShutdownSet(c) \/ ShutdownClose(c) \/ ShutdownJoin(c)
           \/ DestroyBegin(c) \/ DestroyEnd(c)
    PROVE  Service!Next \/ UNCHANGED Service!vars
  <1>1. UNCHANGED <<queue, wtask, ctask, accepted, finished>>
    BY DestroyEndStep DEF ShutdownTest, ShutdownSet, ShutdownClose, ShutdownJoin, DestroyBegin,
       DestroyEnd, queueVars, workerVars, history
  <1>2. CASE ShutdownClose(c)
    <2>1. /\ closed' /\ cpc[c] = "close" /\ cpc' = [cpc EXCEPT ![c] = "join"]
          /\ wpc' = [w \in Workers |-> IF w \in Waiting THEN "pop" ELSE wpc[w]]
      BY <1>2 DEF ShutdownClose, NotifyAll, Goto
    <2>2. drained' = drained
      BY <2>1, Facts DEF drained
    <2>3. Running' = Running /\ NumStarted' = NumStarted
      <3>1. \A w \in Workers : wpc'[w] = "run" <=> wpc[w] = "run"
        BY <2>1 DEF Waiting
      <3>2. \A d \in Clients : cpc'[d] = "push" <=> cpc[d] = "push"
        BY <2>1, Facts
      <3> QED BY <1>1, <3>1, <3>2, SameTasks
    <2> QED BY <1>1, <2>1, <2>2, <2>3, CloseIs DEF Service!Next
  <1>3. CASE ~ ShutdownClose(c)
    <2>1. UNCHANGED <<wpc, closed>>
      BY <1>3 DEF ShutdownTest, ShutdownSet, ShutdownJoin, DestroyBegin, DestroyEnd,
         queueVars, workerVars
    <2>2. Running' = Running /\ NumStarted' = NumStarted
      BY <1>1, <2>1 DEF Running, NumStarted
    <2>3. drained => drained'
      <3>1. CASE ShutdownTest(c) \/ DestroyBegin(c)
        <4>1. PICK label \in {"returned", "release"} :
                 cpc' = [cpc EXCEPT ![c] = IF shutdown THEN label ELSE "setFlag"]
          BY <3>1 DEF ShutdownTest, DestroyBegin, Goto
        <4>2. drained => shutdown
          BY DEF IndInv, Phases, drained
        <4> QED BY <4>1, <4>2, Facts DEF drained
      <3>2. CASE ShutdownSet(c)
        BY <3>2, Facts DEF ShutdownSet, Goto, drained
      <3>3. CASE ShutdownJoin(c) \/ DestroyEnd(c)
        <4>1. PICK label \in {"returned", "release"} :
                 cpc' = cpc \/ cpc' = [cpc EXCEPT ![c] = label]
          BY <3>3 DEF ShutdownJoin, DestroyEnd, Goto
        <4> QED BY <4>1, Facts DEF drained
      <3> QED BY <1>3, <3>1, <3>2, <3>3
    <2> QED BY <1>1, <2>1, <2>2, <2>3, DrainIs DEF Service!Next
  <1> QED BY <1>2, <1>3

\* Initial states of the pool are initial states of the service.
LEMMA InitSimulates == Init => Service!Init
  <1> SUFFICES ASSUME Init PROVE Service!Init
    OBVIOUS
  <1>1. ServiceStarted = 0 /\ Running = {} /\ drained = FALSE
    BY EmptySeq DEF Init, ServiceStarted, Running, drained
  <1> QED BY <1>1 DEF Init, Service!Init, ServiceStarted, Running

\* With one closer, each step of the pool is a step or a stutter of the service.
LEMMA StepSimulates ==
    ASSUME \A c, d \in Closers : c = d
    PROVE  IndInv /\ IndInv' /\ [Next]_vars => [Service!Next]_(Service!vars)
  <1> SUFFICES ASSUME IndInv, IndInv', [Next]_vars PROVE Service!Next \/ UNCHANGED Service!vars
    OBVIOUS
  <1>1. CASE UNCHANGED vars
    BY <1>1 DEF vars, Service!vars, drained
  <1>2. ASSUME NEW w \in Workers, WorkerStep(w) \/ SpuriousWakeup(w)
        PROVE  Service!Next \/ UNCHANGED Service!vars
    BY <1>2, WorkerSimulates
  <1>3. ASSUME NEW c \in Clients,
               \/ CallStep(c) \/ SubmitRefused(c) \/ ShutdownTest(c) \/ DestroyBegin(c)
               \/ \E task \in Tasks : SubmitAllocate(c, task)
        PROVE  Service!Next \/ UNCHANGED Service!vars
    BY <1>3, SubmitSimulates, ShutdownSimulates DEF CallStep
  <1> QED BY <1>1, <1>2, <1>3 DEF Next

\* With one client that calls shutdown(), the pool with its queue, workers,
\* condition variable and flags is the abstract task service: accepted tasks are
\* started once each in the order of acceptance, none is accepted after closing,
\* and shutdown() reports a drained pool only when all of them have finished.
THEOREM Implements ==
    ASSUME \A c, d \in Closers : c = d
    PROVE  Spec => ImplementsService
  <1>1. Init => Service!Init
    BY InitSimulates
  <1>2. IndInv /\ IndInv' /\ [Next]_vars => [Service!Next]_(Service!vars)
    BY StepSimulates
  <1> QED BY <1>1, <1>2, Inductive, PTL DEF Spec, ImplementsService, Service!Spec

-----------------------------------------------------------------------------
(***************************************************************************)
(* zen::thread_pool of src/threading/pool/thread_pool.h (WorkerPool.tla),  *)
(* over its variables in the composition.                                  *)
(***************************************************************************)
\* How many tasks have left the queue, and which; they are the first accepted.
WNumStarted == Len(accepted_) - Len(tasks_)
WStarted == {accepted_[i] : i \in 1 .. WNumStarted}
WRunning == {wtask_[w] : w \in {v \in W!Workers : wpc_[v] = "run"}}

\* A worker has a task in its hand while it runs it, and no two the same; no
\* task is accepted twice.
WInHand == \A w \in W!Workers : wpc_[w] = "run" <=> wtask_[w] # NoTask
WDistinct ==
    /\ \A i, j \in 1 .. Len(accepted_) : accepted_[i] = accepted_[j] => i = j
    /\ \A v, w \in W!Workers : wpc_[v] = "run" /\ wtask_[v] = wtask_[w] => v = w

\* The queue holds the tasks accepted last, and those that left it are running
\* or have finished.
WAccounts ==
    /\ Len(tasks_) <= Len(accepted_)
    /\ \A i \in 1 .. Len(tasks_) : tasks_[i] = accepted_[WNumStarted + i]
    /\ WStarted = finished_ \cup WRunning

\* A worker leaves when stop_ is set and the queue empty, and then it stays empty.
WExits == \A w \in W!Workers : wpc_[w] = "exited" => stop_ /\ tasks_ = <<>>

\* Who is between the unlock and notify_one(): a worker inside its task, or a
\* client while nobody destroys the pool.
WNotifiers ==
    /\ \A w \in W!Workers : w \in notifying_ => wpc_[w] = "run"
    /\ \A c \in Clients : c \in notifying_ => \A d \in Clients : cpc_[d] \in {"idle", "waited"}

\* The phases of the destructor: one client runs it, stop_ says that it does,
\* and a worker that was joined has left.
WDestroying == {"stopped", "join", "destroyed"}
WPhases ==
    /\ stop_ <=> \E c \in Clients : cpc_[c] \in WDestroying
    /\ \A c, d \in Clients : cpc_[c] \in WDestroying /\ cpc_[d] \in WDestroying => c = d
    /\ \A w \in W!Workers : w < joining_ => wpc_[w] = "exited"
    /\ \A c \in Clients : cpc_[c] = "destroyed" => \A w \in W!Workers : wpc_[w] = "exited"

\* W!WakeupsCoverQueue, with the Cardinality of this module.
WCovers ==
    W!Waiting # {} => Cardinality(W!Popping) + Cardinality(notifying_) >= Len(tasks_)

WIndInv ==
    /\ W!ConstantsAssumption
    /\ W!TypeOK
    /\ WCovers
    /\ WInHand
    /\ WDistinct
    /\ WAccounts
    /\ WExits
    /\ WNotifiers
    /\ WPhases
-----------------------------------------------------------------------------
\* Cardinality is one operator here and in the instance.
LEMMA SameCardinality == \A S : W!Cardinality(S) = Cardinality(S) /\ W!IsFiniteSet(S) = IsFiniteSet(S)
  BY DEF W!Cardinality, Cardinality, W!IsFiniteSet, IsFiniteSet

\* What the invariant says in the form the steps need.
LEMMA WFacts ==
    ASSUME WIndInv
    PROVE  /\ NumThreads \in Nat \ {0} /\ NoTask \notin Tasks
           /\ Clients \cap W!Workers = {} /\ IsFiniteSet(Clients)
           /\ tasks_ \in Seq(Tasks) /\ accepted_ \in Seq(Tasks)
           /\ Len(tasks_) \in Nat /\ Len(accepted_) \in Nat /\ WNumStarted \in Nat
           /\ \A i \in 1 .. Len(accepted_) : accepted_[i] \in Tasks
           /\ wpc_ \in [W!Workers -> W!WorkerLabels] /\ cpc_ \in [Clients -> W!ClientLabels]
           /\ wtask_ \in [W!Workers -> Tasks \cup {NoTask}]
           /\ \A w \in W!Workers : wpc_[w] = "run" => wtask_[w] \in Tasks
  <1>1. tasks_ \in Seq(Tasks) /\ accepted_ \in Seq(Tasks)
    BY DEF WIndInv, W!TypeOK
  <1>2. Len(tasks_) \in Nat /\ Len(accepted_) \in Nat /\ \A i \in 1 .. Len(accepted_) : accepted_[i] \in Tasks
    BY <1>1, LenProperties, ElementOfSeq
  <1>3. WNumStarted \in Nat
    BY <1>2 DEF WIndInv, WAccounts, WNumStarted
  <1> QED BY <1>1, <1>2, <1>3, SameCardinality DEF WIndInv, W!TypeOK, WInHand, W!ConstantsAssumption

\* Workers on their way to the queue and pending notifications can be counted.
LEMMA WFiniteCounts ==
    ASSUME WIndInv
    PROVE  /\ IsFiniteSet(W!Popping) /\ Cardinality(W!Popping) \in Nat
           /\ Cardinality(W!Popping') \in Nat
           /\ IsFiniteSet(notifying_) /\ Cardinality(notifying_) \in Nat
  <1>1. IsFiniteSet(W!Workers)
    BY FS_Interval, WFacts DEF W!Workers
  <1>2. IsFiniteSet(W!Callers)
    BY <1>1, WFacts, FS_Union DEF W!Callers
  <1>3. IsFiniteSet(notifying_)
    BY <1>2, FS_Subset DEF WIndInv, W!TypeOK
  <1> QED BY <1>1, <1>3, FS_Subset, FS_CardinalityType DEF W!Popping

\* One worker more on its way, or one less.
LEMMA WOneMorePops ==
    ASSUME WIndInv, NEW w \in W!Workers, w \notin W!Popping, W!Popping' = W!Popping \cup {w}
    PROVE  Cardinality(W!Popping') = Cardinality(W!Popping) + 1
  BY WFiniteCounts, FS_AddElement

\* One worker less is about to pop.
LEMMA WOneLessPops ==
    ASSUME WIndInv, NEW w \in W!Popping, W!Popping' = W!Popping \ {w}
    PROVE  Cardinality(W!Popping') = Cardinality(W!Popping) - 1
  BY WFiniteCounts, FS_RemoveElement

\* notify_one(): with a sleeper, one more worker is on its way; and no worker
\* is sent anywhere but to the queue.
LEMMA WNotifyOneEffect ==
    ASSUME WIndInv, W!NotifyOne
    PROVE  /\ wpc_' \in [W!Workers -> W!WorkerLabels]
           /\ \A w \in W!Workers : wpc_'[w] = wpc_[w] \/ (wpc_[w] = "wait" /\ wpc_'[w] = "pop")
           /\ W!Waiting' # {} => Cardinality(W!Popping') = Cardinality(W!Popping) + 1
  <1>1. CASE W!Waiting = {} /\ UNCHANGED wpc_
    BY <1>1, WFacts DEF W!Waiting
  <1>2. ASSUME NEW w \in W!Waiting, wpc_' = [wpc_ EXCEPT ![w] = "pop"]
        PROVE  /\ wpc_' \in [W!Workers -> W!WorkerLabels]
               /\ \A v \in W!Workers : wpc_'[v] = wpc_[v] \/ (wpc_[v] = "wait" /\ wpc_'[v] = "pop")
               /\ Cardinality(W!Popping') = Cardinality(W!Popping) + 1
    <2>1. w \in W!Workers /\ wpc_[w] = "wait"
      BY DEF W!Waiting
    <2>2. \A v \in W!Workers : wpc_'[v] = IF v = w THEN "pop" ELSE wpc_[v]
      BY <1>2, WFacts
    <2>3. W!Popping' = W!Popping \cup {w} /\ w \notin W!Popping
      BY <2>1, <2>2 DEF W!Popping
    <2> QED BY <1>2, <2>1, <2>2, <2>3, WOneMorePops, WFacts DEF W!WorkerLabels
  <1> QED BY <1>1, <1>2 DEF W!NotifyOne

-----------------------------------------------------------------------------
\* The constructor: the workers on their way to an empty queue.
LEMMA WInitInv ==
    ASSUME W!ConstantsAssumption
    PROVE  W!Init => WIndInv
  <1> SUFFICES ASSUME W!Init PROVE WIndInv
    OBVIOUS
  <1> USE DEF W!Init
  <1>1. tasks_ \in Seq(Tasks) /\ accepted_ \in Seq(Tasks) /\ Len(tasks_) = 0 /\ Len(accepted_) = 0
    BY EmptySeq
  <1>2. W!TypeOK
    <2>1. 1 \in 1 .. NumThreads + 1
      BY DEF W!ConstantsAssumption
    <2> QED BY <1>1, <2>1 DEF W!TypeOK, W!WorkerLabels, W!ClientLabels
  <1>3. WCovers
    BY DEF WCovers, W!Waiting
  <1>4. WInHand /\ WDistinct /\ WExits /\ WNotifiers
    BY <1>1 DEF WInHand, WDistinct, WExits, WNotifiers
  <1>5. WAccounts
    BY <1>1 DEF WAccounts, WStarted, WNumStarted, WRunning
  <1>6. WPhases
    <2>1. \A w \in W!Workers : ~ (w < 1)
      BY DEF W!Workers, W!ConstantsAssumption
    <2> QED BY <2>1 DEF WPhases, WDestroying
  <1> QED BY <1>2, <1>3, <1>4, <1>5, <1>6 DEF WIndInv

\* What a step that leaves the tasks alone has to show.
LEMMA WSameTasks ==
    ASSUME WIndInv, UNCHANGED <<tasks_, wtask_, accepted_, finished_>>,
           \A w \in W!Workers : wpc_'[w] = "run" <=> wpc_[w] = "run"
    PROVE  /\ W!ConstantsAssumption' /\ WInHand' /\ WDistinct' /\ WAccounts'
           /\ WRunning' = WRunning /\ WNumStarted' = WNumStarted
  <1>1. WInHand'
    BY DEF WIndInv, WInHand
  <1>2. WDistinct'
    BY DEF WIndInv, WDistinct
  <1>3. WRunning' = WRunning /\ WStarted' = WStarted /\ WNumStarted' = WNumStarted
    BY DEF WRunning, WStarted, WNumStarted
  <1>4. WAccounts'
    BY <1>3 DEF WIndInv, WAccounts
  <1> QED BY <1>1, <1>2, <1>3, <1>4 DEF WIndInv

\* A worker waits, wakes up by itself, or leaves.
LEMMA WWorkerMovesStep ==
    ASSUME WIndInv, NEW w \in W!Workers, W!WorkerWaits(w) \/ W!WorkerExits(w) \/ W!SpuriousWakeup(w)
    PROVE  WIndInv' /\ WRunning' = WRunning /\ WNumStarted' = WNumStarted
  <1>1. UNCHANGED <<tasks_, stop_, wtask_, notifying_, cpc_, joining_, accepted_, rejected_, finished_>>
    BY DEF W!WorkerWaits, W!WorkerExits, W!SpuriousWakeup
  <1>2. PICK label \in {"wait", "exited", "pop"} :
           /\ wpc_' = [wpc_ EXCEPT ![w] = label]
           /\ label = "exited" => stop_ /\ tasks_ = <<>>
           /\ label = "wait" => tasks_ = <<>>
           /\ label = "pop" => wpc_[w] = "wait"
           /\ wpc_[w] \in {"pop", "wait"}
    BY DEF W!WorkerWaits, W!WorkerExits, W!SpuriousWakeup, W!Waiting
  <1>3. \A v \in W!Workers : wpc_'[v] = IF v = w THEN label ELSE wpc_[v]
    BY <1>2, WFacts
  <1>4. W!TypeOK'
    <2>1. wpc_' \in [W!Workers -> W!WorkerLabels]
      BY <1>2, WFacts DEF W!WorkerLabels
    <2> QED BY <1>1, <2>1 DEF WIndInv, W!TypeOK
  <1>5. WCovers'
    <2>1. CASE tasks_ = <<>>
      <3>1. Len(tasks_') = 0
        BY <2>1, <1>1, EmptySeq
      <3> QED BY <3>1, <1>1, WFiniteCounts DEF WCovers
    <2>2. CASE tasks_ # <<>>
      <3>1. wpc_[w] = "wait" /\ label = "pop"
        BY <2>2, <1>2
      <3>2. W!Popping' = W!Popping \cup {w} /\ w \notin W!Popping /\ W!Waiting # {}
        BY <3>1, <1>3 DEF W!Popping, W!Waiting
      <3>3. Cardinality(W!Popping') = Cardinality(W!Popping) + 1
        BY <3>2, WOneMorePops
      <3> QED BY <3>2, <3>3, <1>1, WFiniteCounts, WFacts DEF WIndInv, WCovers
    <2> QED BY <2>1, <2>2
  <1>6. /\ W!ConstantsAssumption' /\ WInHand' /\ WDistinct' /\ WAccounts'
        /\ WRunning' = WRunning /\ WNumStarted' = WNumStarted
    BY <1>1, <1>2, <1>3, WSameTasks
  <1>7. WExits' /\ WNotifiers' /\ WPhases'
    BY <1>1, <1>2, <1>3 DEF WIndInv, WExits, WNotifiers, WPhases
  <1> QED BY <1>4, <1>5, <1>6, <1>7 DEF WIndInv

\* A worker takes the front of the queue.
LEMMA WWorkerTakesStep ==
    ASSUME WIndInv, NEW w \in W!Workers, W!WorkerTakes(w)
    PROVE  /\ WIndInv'
           /\ WNumStarted < Len(accepted_) /\ WNumStarted' = WNumStarted + 1
           /\ WRunning' = WRunning \cup {accepted_[WNumStarted + 1]}
  <1>1. /\ UNCHANGED <<stop_, notifying_, cpc_, joining_, accepted_, rejected_, finished_>>
        /\ wpc_[w] = "pop" /\ tasks_ # <<>>
        /\ wtask_' = [wtask_ EXCEPT ![w] = Head(tasks_)]
        /\ tasks_' = Tail(tasks_)
        /\ wpc_' = [wpc_ EXCEPT ![w] = "run"]
    BY DEF W!WorkerTakes
  <1>2. /\ Len(tasks_) \in Nat \ {0} /\ Head(tasks_) = tasks_[1] /\ Head(tasks_) \in Tasks
        /\ Tail(tasks_) \in Seq(Tasks) /\ Len(Tail(tasks_)) = Len(tasks_) - 1
        /\ \A i \in 1 .. Len(tasks_) - 1 : Tail(tasks_)[i] = tasks_[i + 1]
    BY <1>1, WFacts, HeadTailProperties, EmptySeq
  <1>3. \A v \in W!Workers : /\ wpc_'[v] = IF v = w THEN "run" ELSE wpc_[v]
                           /\ wtask_'[v] = IF v = w THEN Head(tasks_) ELSE wtask_[v]
    BY <1>1, WFacts
  <1>4. WNumStarted' = WNumStarted + 1 /\ WNumStarted + 1 \in 1 .. Len(accepted_)
    BY <1>1, <1>2, WFacts DEF WNumStarted, WIndInv, WAccounts
  <1>5. Head(tasks_) = accepted_[WNumStarted + 1]
    BY <1>2 DEF WIndInv, WAccounts
  <1>6. Head(tasks_) \notin WStarted
    BY <1>4, <1>5, WFacts DEF WStarted, WIndInv, WDistinct
  <1>7. W!TypeOK'
    <2>1. wpc_' \in [W!Workers -> W!WorkerLabels] /\ wtask_' \in [W!Workers -> Tasks \cup {NoTask}]
      BY <1>1, <1>2, WFacts DEF W!WorkerLabels
    <2> QED BY <1>1, <1>2, <2>1 DEF WIndInv, W!TypeOK
  <1>8. WCovers'
    <2>1. W!Waiting' = W!Waiting
      BY <1>1, <1>3 DEF W!Waiting
    <2>2. W!Popping' = W!Popping \ {w} /\ w \in W!Popping
      BY <1>1, <1>3 DEF W!Popping
    <2>3. Cardinality(W!Popping') = Cardinality(W!Popping) - 1
      BY <2>2, WOneLessPops
    <2> QED BY <1>1, <1>2, <2>1, <2>3, WFiniteCounts DEF WIndInv, WCovers
  <1>9. WInHand'
    BY <1>1, <1>2, <1>3, WFacts DEF WIndInv, WInHand
  <1>10. WRunning' = WRunning \cup {Head(tasks_)}
    BY <1>1, <1>3 DEF WRunning
  <1>11. WDistinct'
    <2>1. ASSUME NEW v \in W!Workers, NEW u \in W!Workers, wpc_'[v] = "run", wtask_'[v] = wtask_'[u]
          PROVE  v = u
      <3>1. \A x \in W!Workers \ {w} : wpc_[x] = "run" => wtask_[x] # Head(tasks_)
        BY <1>6 DEF WIndInv, WAccounts, WRunning
      <3>2. \A x \in W!Workers \ {w} : wpc_[x] # "run" => wtask_[x] = NoTask
        BY DEF WIndInv, WInHand
      <3>3. \A x \in W!Workers \ {w} : wtask_[x] # Head(tasks_)
        BY <3>1, <3>2, <1>2, WFacts
      <3>4. CASE v = w
        BY <3>3, <3>4, <2>1, <1>3
      <3>5. CASE v # w
        BY <3>3, <3>5, <2>1, <1>3 DEF WIndInv, WDistinct
      <3> QED BY <3>4, <3>5
    <2> QED BY <1>1, <2>1 DEF WIndInv, WDistinct
  <1>12. WAccounts'
    <2>1. \A i \in 1 .. Len(tasks_') : tasks_'[i] = accepted_'[WNumStarted' + i]
      <3> SUFFICES ASSUME NEW i \in 1 .. Len(tasks_')
                   PROVE  tasks_'[i] = accepted_'[WNumStarted' + i]
        OBVIOUS
      <3>1. tasks_'[i] = tasks_[i + 1] /\ i + 1 \in 1 .. Len(tasks_)
        BY <1>1, <1>2
      <3>2. tasks_[i + 1] = accepted_[WNumStarted + (i + 1)]
        BY <3>1 DEF WIndInv, WAccounts
      <3>3. WNumStarted + (i + 1) = WNumStarted' + i
        BY <1>4, WFacts
      <3> QED BY <3>1, <3>2, <3>3, <1>1
    <2>2. WStarted' = WStarted \cup {Head(tasks_)}
      BY <1>1, <1>4, <1>5, WFacts DEF WStarted
    <2>3. Len(tasks_') <= Len(accepted_')
      BY <1>1, <1>2, WFacts DEF WIndInv, WAccounts
    <2> QED BY <1>1, <1>10, <2>1, <2>2, <2>3 DEF WIndInv, WAccounts
  <1>13. WExits' /\ WNotifiers' /\ WPhases'
    BY <1>1, <1>3 DEF WIndInv, WExits, WNotifiers, WPhases
  <1>14. WIndInv'
    BY <1>7, <1>8, <1>9, <1>11, <1>12, <1>13 DEF WIndInv
  <1> QED BY <1>14, <1>4, <1>5, <1>10, WFacts

\* A worker has executed its task and goes back to the queue.
LEMMA WWorkerRunsStep ==
    ASSUME WIndInv, NEW w \in W!Workers, W!WorkerRuns(w)
    PROVE  /\ WIndInv'
           /\ wtask_[w] \in Tasks /\ wtask_[w] \in WRunning /\ WNumStarted' = WNumStarted
           /\ WRunning' = WRunning \ {wtask_[w]}
  <1>1. /\ UNCHANGED <<tasks_, stop_, notifying_, cpc_, joining_, accepted_, rejected_>>
        /\ wpc_[w] = "run" /\ w \notin notifying_
        /\ finished_' = finished_ \cup {wtask_[w]}
        /\ wtask_' = [wtask_ EXCEPT ![w] = NoTask]
        /\ wpc_' = [wpc_ EXCEPT ![w] = "pop"]
    BY DEF W!WorkerRuns
  <1>2. wtask_[w] \in Tasks
    BY <1>1, WFacts
  <1>3. \A v \in W!Workers : /\ wpc_'[v] = IF v = w THEN "pop" ELSE wpc_[v]
                           /\ wtask_'[v] = IF v = w THEN NoTask ELSE wtask_[v]
    BY <1>1, WFacts
  <1>4. W!TypeOK'
    <2>1. wpc_' \in [W!Workers -> W!WorkerLabels] /\ wtask_' \in [W!Workers -> Tasks \cup {NoTask}]
      BY <1>1, WFacts DEF W!WorkerLabels
    <2> QED BY <1>1, <1>2, <2>1 DEF WIndInv, W!TypeOK
  <1>5. WCovers'
    <2>1. W!Waiting' = W!Waiting
      BY <1>1, <1>3 DEF W!Waiting
    <2>2. W!Popping' = W!Popping \cup {w} /\ w \notin W!Popping
      BY <1>1, <1>3 DEF W!Popping
    <2>3. Cardinality(W!Popping') = Cardinality(W!Popping) + 1
      BY <2>2, WOneMorePops
    <2> QED BY <1>1, <2>1, <2>3, WFiniteCounts, WFacts DEF WIndInv, WCovers
  <1>6. WInHand'
    BY <1>1, <1>3 DEF WIndInv, WInHand
  <1>7. WDistinct'
    <2>1. ASSUME NEW v \in W!Workers, NEW u \in W!Workers, wpc_'[v] = "run", wtask_'[v] = wtask_'[u]
          PROVE  v = u
      BY <2>1, <1>3, WFacts DEF WIndInv, WDistinct
    <2> QED BY <1>1, <2>1 DEF WIndInv, WDistinct
  <1>8. WRunning' = WRunning \ {wtask_[w]} /\ wtask_[w] \in WRunning
    BY <1>1, <1>3 DEF WRunning, WIndInv, WDistinct
  <1>9. WStarted' = WStarted /\ WNumStarted' = WNumStarted
    BY <1>1 DEF WStarted, WNumStarted
  <1>10. WAccounts'
    BY <1>1, <1>8, <1>9 DEF WIndInv, WAccounts
  <1>11. WExits' /\ WNotifiers' /\ WPhases'
    BY <1>1, <1>3 DEF WIndInv, WExits, WNotifiers, WPhases
  <1>12. WIndInv'
    BY <1>4, <1>5, <1>6, <1>7, <1>10, <1>11 DEF WIndInv
  <1> QED BY <1>2, <1>8, <1>9, <1>12

\* submit() under the lock: a task more, and a notification that will follow.
LEMMA WSubmitAcceptsStep ==
    ASSUME WIndInv, NEW caller \in W!Callers, NEW task \in Tasks, W!SubmitAccepts(caller, task)
    PROVE  /\ WIndInv'
           /\ task \in Tasks \ W!Accepted
           /\ WNumStarted' = WNumStarted /\ WRunning' = WRunning
  <1>1. /\ UNCHANGED <<stop_, wpc_, wtask_, cpc_, joining_, rejected_, finished_>>
        /\ caller \notin notifying_ /\ ~ stop_ /\ task \notin W!Accepted
        /\ tasks_' = Append(tasks_, task) /\ accepted_' = Append(accepted_, task)
        /\ notifying_' = notifying_ \cup {caller}
        /\ \/ caller \in Clients /\ \A c \in Clients : cpc_[c] \in {"idle", "waited"}
           \/ caller \in W!Workers /\ wpc_[caller] = "run"
    BY DEF W!SubmitAccepts, W!MayCall
  <1>2. /\ tasks_' \in Seq(Tasks) /\ Len(tasks_') = Len(tasks_) + 1
        /\ \A i \in 1 .. Len(tasks_) : tasks_'[i] = tasks_[i]
        /\ tasks_'[Len(tasks_) + 1] = task
    BY <1>1, WFacts, AppendProperties
  <1>3. /\ accepted_' \in Seq(Tasks) /\ Len(accepted_') = Len(accepted_) + 1
        /\ \A i \in 1 .. Len(accepted_) : accepted_'[i] = accepted_[i]
        /\ accepted_'[Len(accepted_) + 1] = task
    BY <1>1, WFacts, AppendProperties
  <1>4. W!TypeOK'
    BY <1>1, <1>2, <1>3 DEF WIndInv, W!TypeOK
  <1>5. WCovers'
    <2>1. Cardinality(notifying_') = Cardinality(notifying_) + 1
      BY <1>1, WFiniteCounts, FS_AddElement
    <2>2. W!Waiting' = W!Waiting /\ W!Popping' = W!Popping
      BY <1>1 DEF W!Waiting, W!Popping
    <2> QED BY <1>2, <2>1, <2>2, WFiniteCounts, WFacts DEF WIndInv, WCovers
  <1>6. WInHand'
    BY <1>1 DEF WIndInv, WInHand
  <1>7. WDistinct'
    <2>1. ASSUME NEW i \in 1 .. Len(accepted_'), NEW j \in 1 .. Len(accepted_'),
                 accepted_'[i] = accepted_'[j]
          PROVE  i = j
      <3>1. \A k \in 1 .. Len(accepted_) : accepted_'[k] # task
        BY <1>1, <1>3 DEF W!Accepted
      <3> QED BY <2>1, <3>1, <1>3, WFacts DEF WIndInv, WDistinct
    <2> QED BY <1>1, <2>1 DEF WIndInv, WDistinct
  <1>8. WNumStarted' = WNumStarted
    BY <1>2, <1>3, WFacts DEF WNumStarted
  <1>9. WRunning' = WRunning
    BY <1>1 DEF WRunning
  <1>10. WAccounts'
    <2>1. WStarted' = WStarted
      <3>1. \A i \in 1 .. WNumStarted : accepted_'[i] = accepted_[i]
        <4>1. WNumStarted <= Len(accepted_)
          BY WFacts DEF WNumStarted
        <4> QED BY <4>1, <1>3, WFacts
      <3> QED BY <3>1, <1>8 DEF WStarted
    <2>2. ASSUME NEW i \in 1 .. Len(tasks_') PROVE tasks_'[i] = accepted_'[WNumStarted' + i]
      <3>1. CASE i \in 1 .. Len(tasks_)
        <4>1. WNumStarted + i \in 1 .. Len(accepted_)
          BY <3>1, WFacts DEF WNumStarted
        <4> QED BY <3>1, <4>1, <1>2, <1>3, <1>8 DEF WIndInv, WAccounts
      <3>2. CASE i = Len(tasks_) + 1
        <4>1. WNumStarted + i = Len(accepted_) + 1
          BY <3>2, WFacts DEF WNumStarted
        <4> QED BY <3>2, <4>1, <1>2, <1>3, <1>8
      <3> QED BY <3>1, <3>2, <1>2, WFacts
    <2>3. Len(tasks_') <= Len(accepted_')
      BY <1>2, <1>3, WFacts DEF WIndInv, WAccounts
    <2> QED BY <1>1, <1>9, <2>1, <2>2, <2>3 DEF WIndInv, WAccounts
  <1>11. WExits'
    BY <1>1 DEF WIndInv, WExits
  <1>12. WNotifiers'
    BY <1>1, WFacts DEF WIndInv, WNotifiers
  <1>13. WPhases'
    BY <1>1 DEF WIndInv, WPhases
  <1>14. WIndInv'
    BY <1>4, <1>5, <1>6, <1>7, <1>10, <1>11, <1>12, <1>13 DEF WIndInv
  <1> QED BY <1>1, <1>8, <1>9, <1>14

\* submit() throws: nothing but the list of rejected tasks changes.
LEMMA WSubmitThrowsStep ==
    ASSUME WIndInv, NEW caller \in W!Callers, NEW task \in Tasks, W!SubmitThrows(caller, task)
    PROVE  WIndInv' /\ WRunning' = WRunning /\ WNumStarted' = WNumStarted
  <1>1. /\ UNCHANGED <<tasks_, stop_, wpc_, wtask_, notifying_, cpc_, joining_, accepted_, finished_>>
        /\ rejected_' = rejected_ \cup {task}
    BY DEF W!SubmitThrows
  <1>2. W!TypeOK'
    BY <1>1 DEF WIndInv, W!TypeOK
  <1>3. WCovers' /\ WExits' /\ WNotifiers' /\ WPhases'
    BY <1>1 DEF WIndInv, WCovers, W!Waiting, W!Popping, WExits, WNotifiers, WPhases
  <1>4. /\ W!ConstantsAssumption' /\ WInHand' /\ WDistinct' /\ WAccounts'
        /\ WRunning' = WRunning /\ WNumStarted' = WNumStarted
    BY <1>1, WSameTasks
  <1> QED BY <1>2, <1>3, <1>4 DEF WIndInv

\* notify_one() after the unlock: the pending notification becomes a worker on
\* its way, unless nobody sleeps.
LEMMA WSubmitNotifiesStep ==
    ASSUME WIndInv, NEW caller \in W!Callers, W!SubmitNotifies(caller)
    PROVE  WIndInv' /\ WRunning' = WRunning /\ WNumStarted' = WNumStarted
  <1>1. /\ UNCHANGED <<tasks_, stop_, wtask_, cpc_, joining_, accepted_, rejected_, finished_>>
        /\ caller \in notifying_ /\ W!NotifyOne /\ notifying_' = notifying_ \ {caller}
    BY DEF W!SubmitNotifies
  <1>2. /\ wpc_' \in [W!Workers -> W!WorkerLabels]
        /\ \A w \in W!Workers : wpc_'[w] = wpc_[w] \/ (wpc_[w] = "wait" /\ wpc_'[w] = "pop")
        /\ W!Waiting' # {} => Cardinality(W!Popping') = Cardinality(W!Popping) + 1
    BY <1>1, WNotifyOneEffect
  <1>3. W!TypeOK'
    BY <1>1, <1>2 DEF WIndInv, W!TypeOK
  <1>4. WCovers'
    <2>1. Cardinality(notifying_') = Cardinality(notifying_) - 1
      BY <1>1, WFiniteCounts, FS_RemoveElement
    <2>2. W!Waiting' # {} => W!Waiting # {}
      BY <1>2 DEF W!Waiting
    <2> QED BY <1>1, <1>2, <2>1, <2>2, WFiniteCounts, WFacts DEF WIndInv, WCovers
  <1>5. /\ W!ConstantsAssumption' /\ WInHand' /\ WDistinct' /\ WAccounts'
        /\ WRunning' = WRunning /\ WNumStarted' = WNumStarted
    BY <1>1, <1>2, WSameTasks
  <1>6. WExits' /\ WNotifiers' /\ WPhases'
    BY <1>1, <1>2 DEF WIndInv, WExits, WNotifiers, WPhases
  <1> QED BY <1>3, <1>4, <1>5, <1>6 DEF WIndInv

\* wait() does nothing, and the destructor sets stop_ once no client is inside.
LEMMA WWaitReturnsStep ==
    ASSUME WIndInv, NEW c \in Clients, W!WaitReturns(c)
    PROVE  WIndInv'
  <1>1. /\ UNCHANGED <<tasks_, stop_, wpc_, wtask_, notifying_, joining_, accepted_, rejected_, finished_>>
        /\ \A d \in Clients : cpc_[d] \in {"idle", "waited"}
        /\ cpc_' = [cpc_ EXCEPT ![c] = "waited"]
    BY DEF W!WaitReturns
  <1>2. \A d \in Clients : cpc_'[d] = IF d = c THEN "waited" ELSE cpc_[d]
    BY <1>1, WFacts
  <1>3. W!TypeOK'
    <2>1. cpc_' \in [Clients -> W!ClientLabels]
      BY <1>1, WFacts DEF W!ClientLabels
    <2> QED BY <1>1, <2>1 DEF WIndInv, W!TypeOK
  <1>4. WCovers' /\ WExits'
    BY <1>1 DEF WIndInv, WCovers, W!Waiting, W!Popping, WExits
  <1>5. W!ConstantsAssumption' /\ WInHand' /\ WDistinct' /\ WAccounts'
    BY <1>1, WSameTasks
  <1>6. WNotifiers' /\ WPhases'
    BY <1>1, <1>2 DEF WIndInv, WNotifiers, WPhases, WDestroying
  <1> QED BY <1>3, <1>4, <1>5, <1>6 DEF WIndInv

\* The destructor sets stop_.
LEMMA WDestroyStopsStep ==
    ASSUME WIndInv, NEW c \in Clients, W!DestroyStops(c)
    PROVE  WIndInv'
  <1>1. /\ UNCHANGED <<tasks_, wpc_, wtask_, notifying_, joining_, accepted_, rejected_, finished_>>
        /\ \A d \in Clients : cpc_[d] \in {"idle", "waited"} /\ d \notin notifying_
        /\ stop_' = TRUE /\ cpc_' = [cpc_ EXCEPT ![c] = "stopped"]
    BY DEF W!DestroyStops
  <1>2. \A d \in Clients : cpc_'[d] = IF d = c THEN "stopped" ELSE cpc_[d]
    BY <1>1, WFacts
  <1>3. W!TypeOK'
    <2>1. cpc_' \in [Clients -> W!ClientLabels]
      BY <1>1, WFacts DEF W!ClientLabels
    <2> QED BY <1>1, <2>1 DEF WIndInv, W!TypeOK
  <1>4. WCovers' /\ WExits'
    BY <1>1 DEF WIndInv, WCovers, W!Waiting, W!Popping, WExits
  <1>5. W!ConstantsAssumption' /\ WInHand' /\ WDistinct' /\ WAccounts'
    BY <1>1, WSameTasks
  <1>6. WNotifiers' /\ WPhases'
    BY <1>1, <1>2 DEF WIndInv, WNotifiers, WPhases, WDestroying
  <1> QED BY <1>3, <1>4, <1>5, <1>6 DEF WIndInv

\* notify_all(): nobody sleeps afterwards.
LEMMA WDestroyNotifiesStep ==
    ASSUME WIndInv, NEW c \in Clients, W!DestroyNotifies(c)
    PROVE  WIndInv' /\ WRunning' = WRunning /\ WNumStarted' = WNumStarted
  <1>1. /\ UNCHANGED <<tasks_, stop_, wtask_, notifying_, joining_, accepted_, rejected_, finished_>>
        /\ cpc_[c] = "stopped" /\ cpc_' = [cpc_ EXCEPT ![c] = "join"]
        /\ wpc_' = [w \in W!Workers |-> IF w \in W!Waiting THEN "pop" ELSE wpc_[w]]
    BY DEF W!DestroyNotifies, W!NotifyAll
  <1>2. \A d \in Clients : cpc_'[d] = IF d = c THEN "join" ELSE cpc_[d]
    BY <1>1, WFacts
  <1>3. \A w \in W!Workers : wpc_'[w] = IF wpc_[w] = "wait" THEN "pop" ELSE wpc_[w]
    BY <1>1 DEF W!Waiting
  <1>4. W!TypeOK'
    <2>1. cpc_' \in [Clients -> W!ClientLabels]
      BY <1>1, WFacts DEF W!ClientLabels
    <2>2. wpc_' \in [W!Workers -> W!WorkerLabels]
      BY <1>1, WFacts DEF W!WorkerLabels
    <2> QED BY <1>1, <2>1, <2>2 DEF WIndInv, W!TypeOK
  <1>5. WCovers'
    BY <1>3 DEF WCovers, W!Waiting
  <1>6. /\ W!ConstantsAssumption' /\ WInHand' /\ WDistinct' /\ WAccounts'
        /\ WRunning' = WRunning /\ WNumStarted' = WNumStarted
    BY <1>1, <1>3, WSameTasks
  <1>7. WExits'
    BY <1>1, <1>3 DEF WIndInv, WExits
  <1>8. WNotifiers' /\ WPhases'
    BY <1>1, <1>2, <1>3 DEF WIndInv, WNotifiers, WPhases, WDestroying
  <1> QED BY <1>4, <1>5, <1>6, <1>7, <1>8 DEF WIndInv

\* join(): one worker more has left, or the loop is over.
LEMMA WDestroyJoinsStep ==
    ASSUME WIndInv, NEW c \in Clients, W!DestroyJoins(c)
    PROVE  WIndInv' /\ (cpc_'[c] = "destroyed" => \A w \in W!Workers : wpc_[w] = "exited")
  <1>1. /\ UNCHANGED <<tasks_, stop_, wpc_, wtask_, notifying_, accepted_, rejected_, finished_>>
        /\ cpc_[c] = "join" /\ joining_ \in 1 .. NumThreads + 1
    BY DEF W!DestroyJoins, WIndInv, W!TypeOK
  <1>2. /\ WCovers' /\ WExits'
        /\ W!ConstantsAssumption' /\ WInHand' /\ WDistinct' /\ WAccounts'
    BY <1>1, WSameTasks DEF WIndInv, WCovers, W!Waiting, W!Popping, WExits
  <1>3. CASE joining_ \in W!Workers
    <2>1. wpc_[joining_] = "exited" /\ joining_' = joining_ + 1 /\ cpc_' = cpc_
      BY <1>3 DEF W!DestroyJoins
    <2>2. joining_' \in 1 .. NumThreads + 1
      BY <1>3, <2>1, WFacts DEF W!Workers
    <2>3. \A w \in W!Workers : w < joining_' => wpc_[w] = "exited"
      BY <1>1, <2>1, WFacts DEF WIndInv, WPhases, W!Workers
    <2>4. W!TypeOK' /\ WNotifiers' /\ WPhases'
      BY <1>1, <2>1, <2>2, <2>3 DEF WIndInv, W!TypeOK, WNotifiers, WPhases
    <2> QED BY <1>1, <1>2, <2>1, <2>4 DEF WIndInv
  <1>4. CASE joining_ \notin W!Workers
    <2>1. cpc_' = [cpc_ EXCEPT ![c] = "destroyed"] /\ joining_' = joining_
      BY <1>4 DEF W!DestroyJoins
    <2>2. \A d \in Clients : cpc_'[d] = IF d = c THEN "destroyed" ELSE cpc_[d]
      BY <2>1, WFacts
    <2>3. \A w \in W!Workers : wpc_[w] = "exited"
      <3>1. \A w \in W!Workers : w < joining_
        BY <1>1, <1>4, WFacts DEF W!Workers
      <3> QED BY <3>1 DEF WIndInv, WPhases
    <2>4. W!TypeOK'
      <3>1. cpc_' \in [Clients -> W!ClientLabels]
        BY <2>1, WFacts DEF W!ClientLabels
      <3> QED BY <1>1, <2>1, <3>1 DEF WIndInv, W!TypeOK
    <2>5. WNotifiers' /\ WPhases'
      BY <1>1, <2>1, <2>2, <2>3 DEF WIndInv, WNotifiers, WPhases, WDestroying
    <2> QED BY <1>2, <2>3, <2>4, <2>5 DEF WIndInv
  <1> QED BY <1>3, <1>4

\* A step of another component leaves the invariant true.
LEMMA WStutter == WIndInv /\ UNCHANGED W!vars => WIndInv'
  <1> SUFFICES ASSUME WIndInv, UNCHANGED W!vars PROVE WIndInv'
    OBVIOUS
  <1> USE DEF W!vars
  <1>1. W!TypeOK' /\ W!ConstantsAssumption' /\ WInHand' /\ WDistinct' /\ WAccounts'
    BY WSameTasks DEF WIndInv, W!TypeOK
  <1>2. WCovers' /\ WExits' /\ WNotifiers' /\ WPhases'
    BY DEF WIndInv, WCovers, W!Waiting, W!Popping, WExits, WNotifiers, WPhases
  <1> QED BY <1>1, <1>2 DEF WIndInv

\* Each step keeps the invariant.
LEMMA WNextStep == WIndInv /\ [W!Next]_(W!vars) => WIndInv'
  <1> SUFFICES ASSUME WIndInv, [W!Next]_(W!vars) PROVE WIndInv'
    OBVIOUS
  <1>1. ASSUME NEW w \in W!Workers, W!WorkerStep(w) \/ W!SpuriousWakeup(w) PROVE WIndInv'
    BY <1>1, WWorkerMovesStep, WWorkerTakesStep, WWorkerRunsStep DEF W!WorkerStep
  <1>2. ASSUME NEW caller \in W!Callers, W!SubmitNotifies(caller) PROVE WIndInv'
    BY <1>2, WSubmitNotifiesStep
  <1>3. ASSUME NEW caller \in W!Callers, NEW task \in Tasks,
               W!SubmitAccepts(caller, task) \/ W!SubmitThrows(caller, task)
        PROVE  WIndInv'
    BY <1>3, WSubmitAcceptsStep, WSubmitThrowsStep
  <1>4. ASSUME NEW c \in Clients, W!WaitReturns(c) \/ W!DestroyStops(c) \/ W!DestroyStep(c) PROVE WIndInv'
    BY <1>4, WWaitReturnsStep, WDestroyStopsStep, WDestroyNotifiesStep, WDestroyJoinsStep DEF W!DestroyStep
  <1> QED BY <1>1, <1>2, <1>3, <1>4, WStutter DEF W!Next

\* The invariant holds in every reachable state.
LEMMA WInductive ==
    ASSUME W!ConstantsAssumption
    PROVE  W!Spec => []WIndInv
  <1>1. W!Init => WIndInv
    BY WInitInv
  <1>2. WIndInv /\ [W!Next]_(W!vars) => WIndInv'
    BY WNextStep
  <1> QED BY <1>1, <1>2, PTL DEF W!Spec

\* When the destructor has joined the workers, all that was accepted has run.
LEMMA WQuiet ==
    ASSUME WIndInv, \A w \in W!Workers : wpc_[w] = "exited"
    PROVE  tasks_ = <<>> /\ stop_ /\ finished_ = W!Accepted
  <1>1. 1 \in W!Workers
    BY WFacts DEF W!Workers
  <1>2. tasks_ = <<>> /\ stop_
    BY <1>1 DEF WIndInv, WExits
  <1>3. WRunning = {}
    BY DEF WRunning
  <1>4. WNumStarted = Len(accepted_)
    BY <1>2, EmptySeq, WFacts DEF WNumStarted
  <1> QED BY <1>2, <1>3, <1>4 DEF WIndInv, WAccounts, WStarted, W!Accepted
-----------------------------------------------------------------------------
\* Every variable keeps its type.
THEOREM WTypeCorrect ==
    ASSUME W!ConstantsAssumption
    PROVE  W!Spec => []W!TypeOK
  <1>1. WIndInv => W!TypeOK
    BY DEF WIndInv
  <1> QED BY <1>1, WInductive, PTL

\* No lost wakeup although notify_one() is called without the mutex: while a
\* worker sleeps, every queued task has a worker on its way to the queue or a
\* notification that is still to be sent.
THEOREM WNoLostWakeup ==
    ASSUME W!ConstantsAssumption
    PROVE  W!Spec => []W!WakeupsCoverQueue
  <1>1. WIndInv => W!WakeupsCoverQueue
    BY SameCardinality DEF WIndInv, WCovers, W!WakeupsCoverQueue
  <1> QED BY <1>1, WInductive, PTL

\* When the destructor returns, every worker has left, nobody is about to use
\* the condition variable, and every accepted task has run.
THEOREM WDestructorWaits ==
    ASSUME W!ConstantsAssumption
    PROVE  W!Spec => []W!DestroyedMeansQuiet
  <1>1. WIndInv => W!DestroyedMeansQuiet
    <2> SUFFICES ASSUME WIndInv, NEW c \in Clients, cpc_[c] = "destroyed"
                 PROVE  /\ \A w \in W!Workers : wpc_[w] = "exited"
                        /\ notifying_ = {} /\ finished_ = W!Accepted
      BY DEF W!DestroyedMeansQuiet
    <2>1. \A w \in W!Workers : wpc_[w] = "exited"
      BY DEF WIndInv, WPhases
    <2>2. notifying_ = {}
      BY <2>1 DEF WIndInv, WNotifiers, W!TypeOK, W!Callers
    <2> QED BY <2>1, <2>2, WQuiet
  <1> QED BY <1>1, WInductive, PTL
-----------------------------------------------------------------------------
\* The state of the abstract service, in the pool's words.
LEMMA WServiceState ==
    /\ W!Service!vars = <<accepted_, WNumStarted, WRunning, finished_, stop_, W!drained>>
    /\ W!Service!vars' = <<accepted_', WNumStarted', WRunning', finished_', stop_', W!drained'>>
  BY DEF W!Service!vars, WNumStarted, WRunning

\* A worker's steps: only taking a task and finishing it are the service's.
LEMMA WWorkerSimulates ==
    ASSUME WIndInv, NEW w \in W!Workers, W!WorkerStep(w) \/ W!SpuriousWakeup(w)
    PROVE  W!Service!Next \/ UNCHANGED W!Service!vars
  <1>1. W!drained' = W!drained /\ UNCHANGED <<accepted_, stop_>>
    BY DEF W!WorkerStep, W!WorkerWaits, W!WorkerTakes, W!WorkerExits, W!WorkerRuns,
           W!SpuriousWakeup, W!drained
  <1>2. CASE W!WorkerTakes(w)
    <2>1. finished_' = finished_
      BY <1>2 DEF W!WorkerTakes
    <2>2. W!Service!Start
      BY <1>1, <1>2, <2>1, WWorkerTakesStep, WServiceState DEF W!Service!Start, W!Service!vars
    <2> QED BY <2>2 DEF W!Service!Next
  <1>3. CASE W!WorkerRuns(w)
    <2>1. finished_' = finished_ \cup {wtask_[w]}
      BY <1>3 DEF W!WorkerRuns
    <2>2. PICK task \in Tasks : task = wtask_[w]
      BY <1>3, WWorkerRunsStep
    <2>3. W!Service!Finish(task)
      BY <1>1, <1>3, <2>1, <2>2, WWorkerRunsStep, WServiceState DEF W!Service!Finish, W!Service!vars
    <2> QED BY <2>3 DEF W!Service!Next
  <1>4. CASE W!WorkerWaits(w) \/ W!WorkerExits(w) \/ W!SpuriousWakeup(w)
    <2>1. finished_' = finished_
      BY <1>4 DEF W!WorkerWaits, W!WorkerExits, W!SpuriousWakeup
    <2> QED BY <1>1, <1>4, <2>1, WWorkerMovesStep, WServiceState
  <1> QED BY <1>2, <1>3, <1>4 DEF W!WorkerStep

\* submit(): only its locked part on a running pool is a step of the service.
LEMMA WSubmitSimulates ==
    ASSUME WIndInv, NEW caller \in W!Callers,
           \/ W!SubmitNotifies(caller)
           \/ \E task \in Tasks : W!SubmitAccepts(caller, task) \/ W!SubmitThrows(caller, task)
    PROVE  W!Service!Next \/ UNCHANGED W!Service!vars
  <1>1. W!drained' = W!drained /\ UNCHANGED <<finished_, stop_>>
    BY DEF W!SubmitNotifies, W!SubmitAccepts, W!SubmitThrows, W!drained
  <1>2. ASSUME NEW task \in Tasks, W!SubmitAccepts(caller, task) PROVE W!Service!Next
    <2>1. ~ stop_ /\ accepted_' = Append(accepted_, task)
      BY <1>2 DEF W!SubmitAccepts
    <2>2. W!Service!Accept(task)
      BY <1>1, <1>2, <2>1, WSubmitAcceptsStep, WServiceState
         DEF W!Service!Accept, W!Service!Accepted, W!Accepted, W!Service!vars
    <2> QED BY <2>2 DEF W!Service!Next
  <1>3. ASSUME NEW task \in Tasks, W!SubmitThrows(caller, task) PROVE UNCHANGED W!Service!vars
    <2>1. accepted_' = accepted_
      BY <1>3 DEF W!SubmitThrows
    <2> QED BY <1>1, <1>3, <2>1, WSubmitThrowsStep, WServiceState
  <1>4. CASE W!SubmitNotifies(caller)
    <2>1. accepted_' = accepted_
      BY <1>4 DEF W!SubmitNotifies
    <2> QED BY <1>1, <1>4, <2>1, WSubmitNotifiesStep, WServiceState
  <1> QED BY <1>2, <1>3, <1>4

\* The destructor: stop_ closes the service, and its return is the drain.
LEMMA WDestroySimulates ==
    ASSUME WIndInv, NEW c \in Clients,
           W!WaitReturns(c) \/ W!DestroyStops(c) \/ W!DestroyNotifies(c) \/ W!DestroyJoins(c)
    PROVE  W!Service!Next \/ UNCHANGED W!Service!vars
  <1>1. UNCHANGED <<tasks_, wtask_, accepted_, finished_>>
    BY DEF W!WaitReturns, W!DestroyStops, W!DestroyNotifies, W!DestroyJoins
  <1>2. WRunning' = WRunning /\ WNumStarted' = WNumStarted
    <2>1. CASE W!DestroyNotifies(c)
      BY <2>1, WDestroyNotifiesStep
    <2>2. CASE ~ W!DestroyNotifies(c)
      BY <1>1, <2>2 DEF W!WaitReturns, W!DestroyStops, W!DestroyJoins, WRunning, WNumStarted
    <2> QED BY <2>1, <2>2
  <1>3. CASE W!DestroyStops(c)
    <2>1. /\ stop_' = TRUE /\ \A d \in Clients : cpc_[d] \in {"idle", "waited"}
          /\ cpc_' = [cpc_ EXCEPT ![c] = "stopped"]
      BY <1>3 DEF W!DestroyStops
    <2>3. ~ stop_ /\ stop_ \in BOOLEAN
      BY <2>1 DEF WIndInv, W!TypeOK, WPhases, WDestroying
    <2>4. W!drained' = W!drained
      BY <2>1, WFacts DEF W!drained
    <2>2. W!Service!Close
      BY <1>1, <1>2, <2>1, <2>3, <2>4, WServiceState DEF W!Service!Close, W!Service!vars
    <2> QED BY <2>2 DEF W!Service!Next
  <1>4. CASE W!WaitReturns(c) \/ W!DestroyNotifies(c)
    <2>1. stop_' = stop_ /\ W!drained' = W!drained
      BY <1>4, WFacts DEF W!WaitReturns, W!DestroyNotifies, W!drained
    <2> QED BY <1>1, <1>2, <2>1, WServiceState
  <1>5. CASE W!DestroyJoins(c)
    <2>1. stop_' = stop_ /\ cpc_[c] = "join" /\ ~ W!drained
      BY <1>5 DEF W!DestroyJoins, W!drained, WIndInv, WPhases, WDestroying
    <2>2. CASE ~ W!drained'
      BY <1>1, <1>2, <2>1, <2>2, WServiceState DEF W!drained
    <2>3. CASE W!drained'
      <3>1. cpc_'[c] = "destroyed"
        BY <1>5, <2>1, <2>3, WFacts DEF W!DestroyJoins, W!drained
      <3>2. stop_ /\ finished_ = W!Accepted
        BY <1>5, <3>1, WDestroyJoinsStep, WQuiet
      <3>3. W!Service!Drain
        BY <1>1, <1>2, <2>1, <2>3, <3>2, WServiceState
           DEF W!Service!Drain, W!Service!Accepted, W!Accepted, W!Service!vars, W!drained
      <3> QED BY <3>3 DEF W!Service!Next
    <2> QED BY <2>2, <2>3
  <1> QED BY <1>3, <1>4, <1>5

\* Initial states of the pool are initial states of the service.
LEMMA WInitSimulates == W!Init => W!Service!Init
  <1> SUFFICES ASSUME W!Init PROVE W!Service!Init
    OBVIOUS
  <1>1. WNumStarted = 0 /\ WRunning = {} /\ W!drained = FALSE
    BY EmptySeq DEF W!Init, WNumStarted, WRunning, W!drained
  <1> QED BY <1>1 DEF W!Init, W!Service!Init, WNumStarted, WRunning

\* Each step of the pool is a step or a stutter of the service.
LEMMA WStepSimulates == WIndInv /\ [W!Next]_(W!vars) => [W!Service!Next]_(W!Service!vars)
  <1> SUFFICES ASSUME WIndInv, [W!Next]_(W!vars) PROVE W!Service!Next \/ UNCHANGED W!Service!vars
    OBVIOUS
  <1>1. CASE UNCHANGED W!vars
    BY <1>1 DEF W!vars, W!Service!vars, W!drained
  <1>2. ASSUME NEW w \in W!Workers, W!WorkerStep(w) \/ W!SpuriousWakeup(w)
        PROVE  W!Service!Next \/ UNCHANGED W!Service!vars
    BY <1>2, WWorkerSimulates
  <1>3. ASSUME NEW caller \in W!Callers,
               \/ W!SubmitNotifies(caller)
               \/ \E task \in Tasks : W!SubmitAccepts(caller, task) \/ W!SubmitThrows(caller, task)
        PROVE  W!Service!Next \/ UNCHANGED W!Service!vars
    BY <1>3, WSubmitSimulates
  <1>4. ASSUME NEW c \in Clients, W!WaitReturns(c) \/ W!DestroyStops(c) \/ W!DestroyStep(c)
        PROVE  W!Service!Next \/ UNCHANGED W!Service!vars
    BY <1>4, WDestroySimulates DEF W!DestroyStep
  <1> QED BY <1>1, <1>2, <1>3, <1>4 DEF W!Next

\* The pool is the abstract task service: accepted tasks are started once each
\* in the order of acceptance, none is accepted once stop_ is set, and the
\* destructor returns only when all of them have finished.
THEOREM WImplements ==
    ASSUME W!ConstantsAssumption
    PROVE  W!Spec => W!ImplementsService
  <1>1. W!Init => W!Service!Init
    BY WInitSimulates
  <1>2. WIndInv /\ [W!Next]_(W!vars) => [W!Service!Next]_(W!Service!vars)
    BY WStepSimulates
  <1> QED BY <1>1, <1>2, WInductive, PTL DEF W!Spec, W!ImplementsService, W!Service!Spec
-----------------------------------------------------------------------------
(***************************************************************************)
(* The composition.                                                        *)
(***************************************************************************)
\* One client calls shutdown() of the first pool, as in the run.
OneShutdown == \A c, d \in Closers : c = d
-----------------------------------------------------------------------------
\* A behaviour of the composition is one of each pool.
LEMMA FirstPool == MCSpec => Spec
  <1>1. MCInit => Init
    BY DEF MCInit
  <1>2. [MCNext]_allVars => [Next]_vars
    BY DEF MCNext, ThreadPoolStep, WorkerPoolStep, OfQueue, OfWorkers, allVars
  <1> QED BY <1>1, <1>2, PTL DEF MCSpec, Spec

\* The composition, seen by the second pool, is WorkerPool's specification.
LEMMA SecondPool == MCSpec => W!Spec
  <1>1. MCInit => W!Init
    BY DEF MCInit
  <1>2. [MCNext]_allVars => [W!Next]_(W!vars)
    BY DEF MCNext, ThreadPoolStep, WorkerPoolStep, OfQueue, OfWorkers, allVars, W!vars, workerPoolVars
  <1> QED BY <1>1, <1>2, PTL DEF MCSpec, W!Spec

-----------------------------------------------------------------------------
\* No wakeup is lost in either pool, whether notify_one() is called under the
\* mutex or after it is released.
THEOREM WorkersAreWoken == MCSpec => []WakeupsReachWorkers
  <1>1. W!Spec => []W!WakeupsCoverQueue
    BY WorkerPoolAssumption, WNoLostWakeup
  <1>2. WakeupsCoverQueue /\ W!WakeupsCoverQueue => WakeupsReachWorkers
    BY DEF WakeupsReachWorkers
  <1> QED BY <1>1, <1>2, FirstPool, SecondPool, NoLostWakeup, PTL

\* Whoever comes back from the first pool's only shutdown(), or from either
\* destructor, finds every accepted task executed; and the second pool's
\* destructor leaves no worker and no pending notification behind.
THEOREM QuietReturn ==
    ASSUME OneShutdown
    PROVE  MCSpec => []ReturnMeansQuiet
  <1>1. Spec => []ShutdownWaitsForTasks
    BY ShutdownWaits DEF OneShutdown
  <1>2. W!Spec => []W!DestroyedMeansQuiet
    BY WorkerPoolAssumption, WDestructorWaits
  <1>3. ShutdownWaitsForTasks /\ W!DestroyedMeansQuiet => ReturnMeansQuiet
    BY DEF ReturnMeansQuiet
  <1> QED BY <1>1, <1>2, <1>3, FirstPool, SecondPool, PTL

\* Both pools are the abstract task service.
THEOREM PoolsImplement ==
    ASSUME OneShutdown
    PROVE  MCSpec => PoolsImplementService
  <1>1. Spec => ImplementsService
    BY Implements DEF OneShutdown
  <1>2. W!Spec => W!ImplementsService
    BY WorkerPoolAssumption, WImplements
  <1> QED BY <1>1, <1>2, FirstPool, SecondPool, PTL DEF PoolsImplementService
=============================================================================
