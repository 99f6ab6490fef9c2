---------------------------- MODULE TimerManager ----------------------------
(***************************************************************************)
(* zen::timer_manager (src/timer/timer_manager.h): several threads add,    *)
(* cancel and drive timers kept in a timer_queue under mtx_.               *)
(*                                                                         *)
(* tick() reads the clock, pops the due entries under the lock into a      *)
(* local array of MAX_BATCH, then runs the callbacks WITHOUT the lock and  *)
(* puts each repeating timer back after its callback.  While a callback    *)
(* runs, its thread may add and cancel timers, and so may all others.      *)
(*                                                                         *)
(* The queue is the abstract TimerStore that TimerQueue implements.        *)
(***************************************************************************)
EXTENDS TimerStore

CONSTANTS
    Threads,    \* the threads that use the manager
    Drivers,    \* those that call tick() or tick_until_empty()
    Capacity,   \* ZEN_TIMER_QUEUE_MAX, the room of the queue
    MaxBatch,   \* MAX_BATCH, the room of the array fired
    Delays,     \* the delays and intervals asked for
    MaxId,      \* bound: ids handed out
    MaxTime,    \* bound: the clock stops here
    MaxWait     \* max_ms of tick_until_empty()

ASSUME DriversAssumption == Drivers \subseteq Threads
ASSUME DelaysAssumption == Delays \subseteq Nat
ASSUME ThreadsAssumption == IsFiniteSet(Threads)
ASSUME LimitsAssumption == Capacity \in Nat /\ MaxBatch \in Nat
ASSUME BoundsAssumption == MaxId \in Nat /\ MaxTime \in Nat /\ MaxWait \in Nat

VARIABLES
    now,      \* monotonic_ms()
    queue,    \* queue_
    next_id,  \* next_id_
    pc,       \* where each thread is
    asked,    \* the entry add_internal() is about to push, without its id
    seen,     \* the local now of tick()
    fired,    \* the local array of tick(), from the entry being handled on
    until,    \* the start time of tick_until_empty(), or Never
    \* history
    live,     \* ids that an add returned to its caller
    shots,    \* ids of one-shot timers whose callback has been called
    stopped,  \* ids for which cancel() returned true
    lost      \* ids of uncancelled entries that the manager dropped

vars == <<now, queue, next_id, pc, asked, seen, fired, until,
          live, shots, stopped, lost>>

history == <<live, shots, stopped, lost>>

Ids   == 1 .. MaxId
Never == MaxTime + 1
Kinds == {"ONCE", "REPEAT"}
Request == [type : Kinds, expire : Nat, interval : Nat]
Entry == [id : Ids, type : Kinds, expire : Nat, interval : Nat, cancelled : BOOLEAN]

NoRequest == [type |-> "ONCE", expire |-> 0, interval |-> 0]

InQueue == {e.id : e \in queue}
Held(t) == {fired[t][i].id : i \in 1 .. Len(fired[t])}
InCallback(t) == pc[t] \in {"callback", "cbAdd"}

TypeOK ==
    /\ now \in 0 .. MaxTime
    /\ queue \subseteq Entry
    /\ Cardinality(queue) <= Capacity
    /\ next_id \in 1 .. MaxId + 1
    /\ pc \in [Threads -> {"idle", "add", "cbAdd", "pop", "fire", "callback", "check"}]
    /\ asked \in [Threads -> Request]
    /\ seen \in [Threads -> 0 .. MaxTime]
    /\ fired \in [Threads -> Seq(Entry)]
    /\ \A t \in Threads : Len(fired[t]) <= MaxBatch
    /\ until \in [Threads -> 0 .. Never]
    /\ live \subseteq Ids /\ shots \subseteq Ids /\ stopped \subseteq Ids
    /\ lost \subseteq Ids

Init ==
    /\ now = 0
    /\ queue = {}
    /\ next_id = 1
    /\ pc = [t \in Threads |-> "idle"]
    /\ asked = [t \in Threads |-> NoRequest]
    /\ seen = [t \in Threads |-> 0]
    /\ fired = [t \in Threads |-> <<>>]
    /\ until = [t \in Threads |-> Never]
    /\ live = {} /\ shots = {} /\ stopped = {} /\ lost = {}

Goto(t, label) == pc' = [pc EXCEPT ![t] = label]

-----------------------------------------------------------------------------
\* The monotonic clock (external).
Tick ==
    /\ now < MaxTime
    /\ now' = now + 1
    /\ UNCHANGED <<queue, next_id, pc, asked, seen, fired, until, history>>

\* timer_queue::push(): the queue with e added, or as it was when it is full.
Pushed(e) == IF Cardinality(queue) < Capacity THEN queue \cup {e} ELSE queue

\* Bound: each add in progress has an id left.
IdsLeft == next_id + Cardinality({t \in Threads : pc[t] \in {"add", "cbAdd"}}) <= MaxId

\* add_once(), add_repeat(): an interval of 0 is taken as 1; add_internal()
\* reads the clock before it takes the lock.  A callback may do the same.
AddReadsClock(t, type, delay) ==
    /\ pc[t] \in {"idle", "callback"}
    /\ IdsLeft
    /\ LET interval == IF type = "REPEAT" /\ delay = 0 THEN 1 ELSE delay
       IN asked' = [asked EXCEPT ![t] = [type |-> type, expire |-> now + interval,
                                         interval |-> interval]]
    /\ Goto(t, IF pc[t] = "idle" THEN "add" ELSE "cbAdd")
    /\ UNCHANGED <<now, queue, next_id, seen, fired, until, history>>

\* Under the lock an id is taken and the entry pushed.  When the queue is
\* full, INVALID_TIMER_ID is returned and the id is used up.
TakeIdAndPush(request) ==
    LET e == [id |-> next_id, type |-> request.type, expire |-> request.expire,
              interval |-> request.interval, cancelled |-> FALSE]
    IN /\ queue' = Pushed(e)
       /\ next_id' = next_id + 1
       /\ live' = IF e \in queue' THEN live \cup {e.id} ELSE live

\* add_internal(): the locked part.
AddPushes(t) ==
    /\ pc[t] \in {"add", "cbAdd"}
    /\ TakeIdAndPush(asked[t])
    /\ asked' = [asked EXCEPT ![t] = NoRequest]
    /\ Goto(t, IF pc[t] = "add" THEN "idle" ELSE "callback")
    /\ UNCHANGED <<now, seen, fired, until, shots, stopped, lost>>

\* add_once_at(): the absolute time is the caller's, and all is under the lock.
AddOnceAt(t, expire) ==
    /\ pc[t] \in {"idle", "callback"}
    /\ IdsLeft
    /\ TakeIdAndPush([type |-> "ONCE", expire |-> expire, interval |-> 0])
    /\ UNCHANGED <<now, pc, asked, seen, fired, until, shots, stopped, lost>>

\* Fault: cancel() finds the entry and reports it, but does not mark it.
CancelWithoutMark(t, id) ==
    /\ pc[t] \in {"idle", "callback"}
    /\ id < next_id
    /\ stopped' = IF id \in InQueue THEN stopped \cup {id} ELSE stopped
    /\ UNCHANGED <<now, queue, next_id, pc, asked, seen, fired, until, live, shots, lost>>

\* cancel(id) of an id that was handed out: true if the entry is queued, and
\* then it is marked; false if it is not, because it is gone or because a
\* tick() holds it in its array.
Cancel(t, id) ==
    /\ pc[t] \in {"idle", "callback"}
    /\ id < next_id
    /\ queue' = {IF e.id = id THEN [e EXCEPT !.cancelled = TRUE] ELSE e : e \in queue}
    /\ stopped' = IF id \in InQueue THEN stopped \cup {id} ELSE stopped
    /\ UNCHANGED <<now, next_id, pc, asked, seen, fired, until, live, shots, lost>>
-----------------------------------------------------------------------------
\* tick(): now = monotonic_ms(), read before the lock is taken.
TickReadsClock(t) ==
    /\ t \in Drivers
    /\ pc[t] = "idle"
    /\ seen' = [seen EXCEPT ![t] = now]
    /\ Goto(t, "pop")
    /\ UNCHANGED <<now, queue, next_id, asked, fired, until, history>>

\* Fault: repeating timers stay queued while their callback is due.
TickPopsKeepsRepeats(t) ==
    /\ pc[t] = "pop"
    /\ \E batch \in Deliveries(queue, seen[t], MaxBatch) :
          /\ fired' = [fired EXCEPT ![t] = batch]
          /\ lost' = lost \cup {e.id : e \in Live(Due(queue, seen[t])) \ ToSet(batch)}
    /\ queue' = {e \in queue : e \notin Due(queue, seen[t]) \/ e.type = "REPEAT"}
    /\ Goto(t, "fire")
    /\ UNCHANGED <<now, next_id, asked, seen, until, live, shots, stopped>>

\* tick(): pop_expired(now, fired, MAX_BATCH) under the lock.  The due entries
\* leave the queue; those that do not fit into the array are dropped.
TickPops(t) ==
    /\ pc[t] = "pop"
    /\ \E batch \in Deliveries(queue, seen[t], MaxBatch) :
          /\ fired' = [fired EXCEPT ![t] = batch]
          /\ lost' = lost \cup {e.id : e \in Live(Due(queue, seen[t])) \ ToSet(batch)}
    /\ queue' = queue \ Due(queue, seen[t])
    /\ Goto(t, "fire")
    /\ UNCHANGED <<now, next_id, asked, seen, until, live, shots, stopped>>

\* tick(): the next callback is called, without the lock.
TickCalls(t) ==
    /\ pc[t] = "fire"
    /\ fired[t] # <<>>
    /\ shots' = IF Head(fired[t]).type = "ONCE" THEN shots \cup {Head(fired[t]).id} ELSE shots
    /\ Goto(t, "callback")
    /\ UNCHANGED <<now, queue, next_id, asked, seen, fired, until, live, stopped, lost>>

\* Fault: every timer is put back, one-shot timers too.
TickRequeuesAll(t) ==
    /\ pc[t] = "callback"
    /\ queue' = Pushed([Head(fired[t]) EXCEPT !.expire = seen[t] + @, !.cancelled = FALSE])
    /\ fired' = [fired EXCEPT ![t] = Tail(@)]
    /\ Goto(t, "fire")
    /\ UNCHANGED <<now, next_id, asked, seen, until, live, shots, stopped, lost>>

\* Fault: no timer is put back.
TickForgetsRepeats(t) ==
    /\ pc[t] = "callback"
    /\ fired' = [fired EXCEPT ![t] = Tail(@)]
    /\ Goto(t, "fire")
    /\ UNCHANGED <<now, queue, next_id, asked, seen, until, live, shots, stopped, lost>>

\* tick(): the callback has returned; a repeating timer is put back, due one
\* interval after the time this tick() read, and not cancelled.  The result
\* of push() is ignored.
TickReturnsFrom(t) ==
    /\ pc[t] = "callback"
    /\ LET e == Head(fired[t])
           again == [e EXCEPT !.expire = seen[t] + e.interval, !.cancelled = FALSE]
       IN IF e.type = "REPEAT"
          THEN /\ queue' = Pushed(again)
               /\ lost' = IF again \in queue' THEN lost ELSE lost \cup {e.id}
          ELSE UNCHANGED <<queue, lost>>
    /\ fired' = [fired EXCEPT ![t] = Tail(@)]
    /\ Goto(t, "fire")
    /\ UNCHANGED <<now, next_id, asked, seen, until, live, shots, stopped>>

\* tick() returns, to its caller or into the loop of tick_until_empty().
TickReturns(t) ==
    /\ pc[t] = "fire"
    /\ fired[t] = <<>>
    /\ seen' = [seen EXCEPT ![t] = 0]
    /\ Goto(t, IF until[t] = Never THEN "idle" ELSE "check")
    /\ UNCHANGED <<now, queue, next_id, asked, fired, until, history>>

\* tick_until_empty(): the start time is read and the first tick() begins.
UntilBegin(t) ==
    /\ t \in Drivers
    /\ pc[t] = "idle"
    /\ now + MaxWait <= MaxTime  \* bound: the clock reaches the end of the wait
    /\ until' = [until EXCEPT ![t] = now]
    /\ seen' = [seen EXCEPT ![t] = now]
    /\ Goto(t, "pop")
    /\ UNCHANGED <<now, queue, next_id, asked, fired, history>>

\* tick_until_empty(): an empty queue or the end of the time ends the loop.
UntilEnd(t) ==
    /\ pc[t] = "check"
    /\ queue = {} \/ now - until[t] >= MaxWait
    /\ until' = [until EXCEPT ![t] = Never]
    /\ Goto(t, "idle")
    /\ UNCHANGED <<now, queue, next_id, asked, seen, fired, history>>

\* tick_until_empty(): it sleeps, and the next tick() reads the clock.
UntilAgain(t) ==
    /\ pc[t] = "check"
    /\ queue # {} /\ now - until[t] < MaxWait
    /\ seen' = [seen EXCEPT ![t] = now]
    /\ Goto(t, "pop")
    /\ UNCHANGED <<now, queue, next_id, asked, fired, until, history>>

-----------------------------------------------------------------------------
TickStep(t) ==
    \/ TickPops(t) \/ TickCalls(t) \/ TickReturnsFrom(t) \/ TickReturns(t)
    \/ UntilEnd(t) \/ UntilAgain(t)

Client(t) ==
    \/ \E delay \in Delays : \/ AddOnceAt(t, delay)
                             \/ \E type \in Kinds : AddReadsClock(t, type, delay)
    \/ \E id \in Ids : Cancel(t, id)
    \/ UntilBegin(t)

Next ==
    \/ Tick
    \/ \E t \in Threads : TickStep(t) \/ AddPushes(t) \/ Client(t) \/ TickReadsClock(t)

Spec == Init /\ [][Next]_vars
-----------------------------------------------------------------------------
\* A timer is in one place only: queued once, or held by one tick() once.
\* Otherwise two driving threads would run one timer's callback twice.
OnePlace ==
    /\ \A e, f \in queue : e.id = f.id => e = f
    /\ \A t \in Threads :
          /\ Held(t) \cap InQueue = {}
          /\ Cardinality(Held(t)) = Len(fired[t])
          /\ \A u \in Threads \ {t} : Held(t) \cap Held(u) = {}

\* A one-shot timer whose callback was called is gone, but for that callback
\* itself: it is neither queued nor about to be called by anyone.
SpentTimersAreGone ==
    \A id \in shots :
        /\ id \notin InQueue
        /\ \A t \in Threads : id \in Held(t) => InCallback(t) /\ Head(fired[t]).id = id

\* No timer that an add returned vanishes: it waits, is held by a tick(), has
\* fired for good, was cancelled, or was dropped at one of the two limits, the
\* full queue and the full array.
NothingVanishes ==
    \A id \in live :
        id \in InQueue \cup (UNION {Held(t) : t \in Threads})
                \cup shots \cup stopped \cup lost

\* When cancel() has returned true, the callback is not called any more,
\* whatever the ticks in progress have read or popped before.
CancelledNeverCalled ==
    [][\A t \in Threads : pc[t] = "fire" /\ pc'[t] = "callback" =>
          Head(fired[t]).id \notin stopped]_vars

\* The comment on tick(): "check and fire all timers that are due".  The array
\* holds MAX_BATCH entries, and what is due beyond them is dropped.
TickFiresAllDue ==
    [][\A t \in Threads : pc[t] = "pop" /\ pc'[t] = "fire" =>
          ToSet(fired'[t]) = Live(Due(queue, seen[t]))]_vars
=============================================================================
