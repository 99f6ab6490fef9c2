----------------------------- MODULE EventLoop -----------------------------
(***************************************************************************)
(* zen::event_loop (src/event/event_loop.h): one thread runs the loop and  *)
(* the callbacks, other threads may stop() it or wake it up.               *)
(*                                                                         *)
(* epoll is external: an edge-triggered descriptor enters the kernel's     *)
(* ready list when data arrives, or when it is registered while there is   *)
(* data, and leaves it when epoll_wait() returns it.  A callback reads all *)
(* there is, as edge triggering demands.  The eventfd that wakeup() writes *)
(* to is one more descriptor of the list.                                  *)
(*                                                                         *)
(* The timers are a timer_manager that only the loop's thread uses; the    *)
(* queue is the abstract TimerStore.                                       *)
(***************************************************************************)
EXTENDS Integers, TimerStore

CONSTANTS
    Fds,        \* the descriptors of the program
    WakeFd,     \* wakeup_fd_
    Others,     \* the threads that may call stop() and wakeup()
    Loop,       \* the thread that calls run()
    MaxEvents,  \* MAX_EVENTS, the room of the array of epoll_wait()
    MaxBatch,   \* MAX_BATCH of timer_manager::tick()
    IntValues,  \* the number of values of an int (2^32)
    MaxWait,    \* the cap of the timeout (10000)
    Never,      \* ~0ULL
    Delays,     \* the delays and intervals asked for
    MaxId,      \* bound: timers ever added
    MaxTime     \* bound: the clock's last value stands for all later times

ASSUME ThreadsAssumption == Loop \notin Others
ASSUME WakeFdAssumption == WakeFd \notin Fds
ASSUME NeverAssumption == Never > MaxTime + MaxWait /\ Never % IntValues = IntValues - 1
ASSUME RoomAssumption == MaxEvents \in Nat \ {0} /\ MaxBatch \in Nat \ {0}

VARIABLES
    now,       \* monotonic_ms()
    data,      \* the descriptors with unread data (external)
    watched,   \* the descriptors registered with epoll_fd_
    reading,   \* those of them whose mask has ZEN_EVENT_READ
    ready,     \* the ready list of epoll_fd_ (external)
    handlers,  \* the keys of io_handlers_
    timers,    \* the queue of timer_manager_
    next_id,   \* the id of the next timer; all before are in timer_callbacks_
    stopped,   \* stopped_
    pc,        \* where the loop's thread is
    wake_at,   \* when its epoll_wait() times out, or Never
    events,    \* the rest of the array events[]
    fired,     \* the rest of the array fired[] of tick()
    seen,      \* the local now of tick()
    stopping,  \* the threads between the two statements of stop()
    broken,    \* a map node was deleted: undefined behaviour
    \* history
    removed,   \* descriptors that remove_io_event() has taken out
    called     \* timers whose callback has been called

vars == <<now, data, watched, reading, ready, handlers, timers, next_id, stopped,
          pc, wake_at, events, fired, seen, stopping, broken, removed, called>>

epollVars == <<watched, reading, ready>>
timerVars == <<timers, next_id, fired, seen, called>>
loopVars  == <<pc, wake_at, events>>
stopVars  == <<stopped, stopping>>

Entry == [id : 1 .. MaxId, expire : Nat, interval : Nat, cancelled : {FALSE}]

TypeOK ==
    /\ now \in 0 .. MaxTime
    /\ data \subseteq Fds /\ watched \subseteq Fds /\ reading \subseteq watched
    /\ ready \in Seq(Fds \cup {WakeFd}) /\ Len(ready) <= Cardinality(Fds) + 1
    /\ handlers \subseteq Fds
    /\ timers \subseteq Entry
    /\ next_id \in 1 .. MaxId + 1
    /\ stopped \in BOOLEAN /\ broken \in BOOLEAN
    /\ pc \in {"idle", "test", "wait", "dispatch", "callback",
               "tick", "fire", "timerCallback", "returned"}
    /\ wake_at \in 0 .. Never
    /\ events \in Seq(Fds \cup {WakeFd}) /\ Len(events) <= MaxEvents
    /\ fired \in Seq(Entry) /\ Len(fired) <= MaxBatch
    /\ seen \in 0 .. MaxTime
    /\ stopping \subseteq Others \cup {Loop}
    /\ removed \subseteq Fds
    /\ called \subseteq 1 .. MaxId

\* event_loop(): the eventfd is registered, and nothing else.
Init ==
    /\ now = 0
    /\ data = {} /\ watched = {} /\ reading = {} /\ ready = <<>>
    /\ handlers = {}
    /\ timers = {} /\ next_id = 1
    /\ stopped = FALSE
    /\ pc = "idle"
    /\ wake_at = Never
    /\ events = <<>> /\ fired = <<>> /\ seen = 0
    /\ stopping = {}
    /\ broken = FALSE
    /\ removed = {} /\ called = {}

\* The loop's thread runs code of the program: before run(), or in a callback.
InProgram == pc \in {"idle", "callback", "timerCallback"} /\ Loop \notin stopping
-----------------------------------------------------------------------------
\* The kernel puts fd on the ready list, once.
Queued(fd) == IF fd \in ToSet(ready) THEN ready ELSE Append(ready, fd)
Unqueued(fd) == RemoveFirst(ready, fd)

\* Data arrives (external).
Arrive(fd) ==
    /\ data' = data \cup {fd}
    /\ ready' = IF fd \in reading THEN Queued(fd) ELSE ready
    /\ UNCHANGED <<now, watched, reading, handlers, timerVars, loopVars, stopVars, broken, removed>>

\* The monotonic clock (external).
Tick ==
    /\ now < MaxTime
    /\ now' = now + 1
    /\ UNCHANGED <<data, epollVars, handlers, timerVars, loopVars, stopVars, broken, removed>>

\* EPOLL_CTL_ADD and EPOLL_CTL_MOD with a mask that has READ or has not.
Watch(fd, read) ==
    /\ watched' = watched \cup {fd}
    /\ reading' = IF read THEN reading \cup {fd} ELSE reading \ {fd}
    /\ ready' = IF ~read THEN Unqueued(fd) ELSE IF fd \in data THEN Queued(fd) ELSE ready

\* EPOLL_CTL_DEL, and what close() of the descriptor does.
Unwatch(fd) ==
    /\ watched' = watched \ {fd}
    /\ reading' = reading \ {fd}
    /\ ready' = Unqueued(fd)

\* add_io_event(): EPOLL_CTL_ADD fails for a descriptor that is registered.
AddIoEvent(fd, read) ==
    /\ InProgram
    /\ fd \notin watched
    /\ Watch(fd, read)
    /\ handlers' = handlers \cup {fd}
    /\ removed' = removed \ {fd}
    /\ UNCHANGED <<now, data, timerVars, loopVars, stopVars, broken>>

\* modify_io_event(): the callback may be replaced, the key stays.
ModifyIoEvent(fd, read) ==
    /\ InProgram
    /\ fd \in watched
    /\ Watch(fd, read)
    /\ UNCHANGED <<now, data, handlers, timerVars, loopVars, stopVars, broken, removed>>

\* Fault: the handler stays in the map.
RemoveKeepsHandler(fd) ==
    /\ InProgram
    /\ fd \in watched
    /\ Unwatch(fd)
    /\ removed' = removed \cup {fd}
    /\ UNCHANGED <<now, data, handlers, timerVars, loopVars, stopVars, broken>>

\* remove_io_event(): fails, with the handler left, if epoll does not know fd.
RemoveIoEvent(fd) ==
    /\ InProgram
    /\ fd \in watched
    /\ Unwatch(fd)
    /\ handlers' = handlers \ {fd}
    /\ removed' = removed \cup {fd}
    /\ UNCHANGED <<now, data, timerVars, loopVars, stopVars, broken>>

\* The program closes a descriptor, removed or not; the number may be used
\* again for a new connection (external).
CloseFd(fd) ==
    /\ InProgram
    /\ fd \in watched
    /\ Unwatch(fd)
    /\ data' = data \ {fd}
    /\ UNCHANGED <<now, handlers, timerVars, loopVars, stopVars, broken, removed>>

\* add_timer(), add_repeat_timer() over add_once() and add_repeat().
AddTimer(delay, repeat) ==
    /\ InProgram
    /\ next_id <= MaxId
    /\ LET interval == IF repeat /\ delay = 0 THEN 1 ELSE delay
       IN timers' = timers \cup {[id |-> next_id, expire |-> now + interval,
                                  interval |-> IF repeat THEN interval ELSE 0,
                                  cancelled |-> FALSE]}
    /\ next_id' = next_id + 1
    /\ UNCHANGED <<now, data, epollVars, handlers, fired, seen, called, loopVars,
                   stopVars, broken, removed>>

\* cancel_timer() of an id that was handed out deletes a part of a map node.
CancelTimer(id) ==
    /\ InProgram
    /\ id < next_id
    /\ broken' = TRUE
    /\ UNCHANGED <<now, data, epollVars, handlers, timerVars, loopVars, stopVars, removed>>
-----------------------------------------------------------------------------
\* Fault: the eventfd is not written.
NoWakeup == UNCHANGED ready

\* wakeup(): the write makes the eventfd ready.
WriteWakeFd == ready' = Queued(WakeFd)

MayCall(t) == IF t = Loop THEN InProgram ELSE t \notin stopping

\* stop(): stopped_ = true.
StopSets(t) ==
    /\ MayCall(t)
    /\ ~stopped  \* bound: nobody stops the loop twice
    /\ stopped' = TRUE
    /\ stopping' = stopping \cup {t}
    /\ UNCHANGED <<now, data, epollVars, handlers, timerVars, loopVars, broken, removed>>

\* stop(): wakeup().
StopWakes(t) ==
    /\ t \in stopping
    /\ stopping' = stopping \ {t}
    /\ WriteWakeFd
    /\ UNCHANGED <<now, data, watched, reading, handlers, timerVars, loopVars, stopped, broken, removed>>

\* wakeup() by another thread.
Wakeup(t) ==
    /\ t \in Others \ stopping
    /\ WriteWakeFd
    /\ UNCHANGED <<now, data, watched, reading, handlers, timerVars, loopVars, stopVars, broken, removed>>
-----------------------------------------------------------------------------
\* static_cast<int>: the low bits, read as a signed number.
AsInt(x) ==
    LET low == x % IntValues IN IF 2 * low < IntValues THEN low ELSE low - IntValues

\* run(): time_until_next() is asked with 0 as the current time, or with ~0ULL
\* when no timer is pending, so it answers the expiry time itself, or ~0ULL.
Timeout ==
    LET wait == AsInt(NextExpire(timers, Never))
    IN IF wait > MaxWait THEN MaxWait ELSE wait

\* run(): the test of stopped_, the timeout, and epoll_wait() begins.  A
\* negative timeout has no end.
RunTests ==
    /\ pc \in {"idle", "test"}
    /\ Loop \notin stopping
    /\ IF stopped THEN pc' = "returned" /\ UNCHANGED wake_at
       ELSE /\ pc' = "wait"
            /\ wake_at' = IF Timeout < 0 THEN Never ELSE now + Timeout
    /\ UNCHANGED <<now, data, epollVars, handlers, timerVars, events, stopVars, broken, removed>>

\* epoll_wait() returns the first MAX_EVENTS of the ready list.
WaitReturnsEvents ==
    /\ pc = "wait"
    /\ ready # <<>>
    /\ LET n == IF Len(ready) < MaxEvents THEN Len(ready) ELSE MaxEvents
       IN /\ events' = SubSeq(ready, 1, n)
          /\ ready' = SubSeq(ready, n + 1, Len(ready))
    /\ pc' = "dispatch"
    /\ wake_at' = Never
    /\ UNCHANGED <<now, data, watched, reading, handlers, timerVars, stopVars, broken, removed>>

\* epoll_wait() times out.
WaitTimesOut ==
    /\ pc = "wait"
    /\ ready = <<>>
    /\ wake_at # Never
    /\ now >= wake_at \/ now = MaxTime
    /\ pc' = "tick"
    /\ wake_at' = Never
    /\ UNCHANGED <<now, data, epollVars, handlers, timerVars, events, stopVars, broken, removed>>

\* epoll_wait() is interrupted by a signal: handle_io_events() returns.  With
\* events ready it would have returned them.
WaitInterrupted ==
    /\ pc = "wait"
    /\ ready = <<>>
    /\ pc' = "tick"
    /\ wake_at' = Never
    /\ UNCHANGED <<now, data, epollVars, handlers, timerVars, events, stopVars, broken, removed>>

\* Fault: the wakeup event ends the loop over the events.
DispatchBreaksAtWakeup ==
    /\ pc = "dispatch"
    /\ events # <<>>
    /\ Head(events) \notin handlers
    /\ events' = IF Head(events) = WakeFd THEN <<>> ELSE Tail(events)
    /\ UNCHANGED <<now, data, epollVars, handlers, timerVars, pc, wake_at, stopVars, broken, removed>>

\* handle_io_events(): the eventfd is read; an event without a handler is
\* passed over.
DispatchSkips ==
    /\ pc = "dispatch"
    /\ events # <<>>
    /\ Head(events) \notin handlers
    /\ events' = Tail(events)
    /\ UNCHANGED <<now, data, epollVars, handlers, timerVars, pc, wake_at, stopVars, broken, removed>>

\* handle_io_events(): the handler is called, and reads what there is.
DispatchCalls ==
    /\ pc = "dispatch"
    /\ events # <<>>
    /\ Head(events) \in handlers
    /\ data' = data \ {Head(events)}
    /\ pc' = "callback"
    /\ UNCHANGED <<now, epollVars, handlers, timerVars, events, wake_at, stopVars, broken, removed>>

\* The handler returns.
CallbackReturns ==
    /\ pc = "callback"
    /\ InProgram
    /\ events' = Tail(events)
    /\ pc' = "dispatch"
    /\ UNCHANGED <<now, data, epollVars, handlers, timerVars, wake_at, stopVars, broken, removed>>

\* Fault: after I/O events the timers are left for the next round.
DispatchSkipsTimers ==
    /\ pc = "dispatch"
    /\ events = <<>>
    /\ pc' = "test"
    /\ UNCHANGED <<now, data, epollVars, handlers, timerVars, events, wake_at, stopVars, broken, removed>>

\* handle_io_events() returns.
DispatchEnds ==
    /\ pc = "dispatch"
    /\ events = <<>>
    /\ pc' = "tick"
    /\ UNCHANGED <<now, data, epollVars, handlers, timerVars, events, wake_at, stopVars, broken, removed>>

\* handle_timer_events(): tick() takes the due timers, as many as it has room
\* for; the others are dropped (see TimerManager).
TickPops ==
    /\ pc = "tick"
    /\ fired' \in Deliveries(timers, now, MaxBatch)
    /\ timers' = timers \ Due(timers, now)
    /\ seen' = now
    /\ pc' = "fire"
    /\ UNCHANGED <<now, data, epollVars, handlers, next_id, called, events, wake_at,
                   stopVars, broken, removed>>

\* tick(): the next callback, or the end of the round.
TickCalls ==
    /\ pc = "fire"
    /\ IF fired = <<>>
       THEN pc' = "test" /\ seen' = 0 /\ UNCHANGED called
       ELSE pc' = "timerCallback" /\ called' = called \cup {Head(fired).id} /\ UNCHANGED seen
    /\ UNCHANGED <<now, data, epollVars, handlers, timers, next_id, fired, events, wake_at,
                   stopVars, broken, removed>>

\* tick(): the callback returns, a repeating timer is put back.
TimerCallbackReturns ==
    /\ pc = "timerCallback"
    /\ InProgram
    /\ timers' = IF Head(fired).interval = 0 THEN timers
                 ELSE timers \cup {[Head(fired) EXCEPT !.expire = seen + Head(fired).interval]}
    /\ fired' = Tail(fired)
    /\ pc' = "fire"
    /\ UNCHANGED <<now, data, epollVars, handlers, next_id, seen, called, events, wake_at,
                   stopVars, broken, removed>>
-----------------------------------------------------------------------------
LoopStep ==
    \/ RunTests \/ WaitReturnsEvents \/ WaitTimesOut
    \/ DispatchSkips \/ DispatchCalls \/ CallbackReturns \/ DispatchEnds
    \/ TickPops \/ TickCalls \/ TimerCallbackReturns

ProgramStep ==
    \/ \E fd \in Fds : \/ RemoveIoEvent(fd) \/ CloseFd(fd)
                       \/ \E read \in BOOLEAN : AddIoEvent(fd, read) \/ ModifyIoEvent(fd, read)
    \/ \E delay \in Delays, repeat \in BOOLEAN : AddTimer(delay, repeat)
    \/ \E id \in 1 .. MaxId : CancelTimer(id)

Next ==
    /\ ~broken
    /\ \/ LoopStep \/ WaitInterrupted \/ ProgramStep
       \/ Tick \/ \E fd \in Fds : Arrive(fd)
       \/ \E t \in Others \cup {Loop} : StopSets(t) \/ StopWakes(t)
       \/ \E t \in Others : Wakeup(t)

\* The loop's thread runs, callbacks return, a stop() that has begun is
\* carried on, and time passes.  No signal and no data is promised.
Fairness ==
    /\ WF_vars(~broken /\ LoopStep)
    /\ \A t \in Others \cup {Loop} : WF_vars(~broken /\ StopWakes(t))
    /\ WF_vars(~broken /\ Tick)

Spec == Init /\ [][Next]_vars
FairSpec == Spec /\ Fairness
-----------------------------------------------------------------------------
\* run() has returned, or nothing is known any more.
Over == pc = "returned" \/ broken

\* The events that epoll_wait() returned and no handler has been called for.
Pending == IF pc = "callback" THEN Tail(events) ELSE events

\* At every moment what must still be handled is known to someone: a
\* descriptor with unread data that is watched for reading is on the ready list
\* or among the pending events, though registration, modification and removal
\* move it in and out; and when run() waits after stop() has set its flag, the
\* eventfd is ready or its write is still to come.
EventsKept ==
    /\ data \cap reading \subseteq ToSet(ready) \cup ToSet(Pending)
    /\ stopped /\ pc = "wait" => WakeFd \in ToSet(ready) \/ stopping # {}

\* A stop() by another thread or by a callback ends run(), though the flag is
\* tested before the wait and the wait may have no timeout.
StopEndsRun == stopped /\ pc # "idle" ~> Over

\* No edge is lost: data on a descriptor that is watched for reading reaches
\* its handler, or the program stops watching it, however many descriptors
\* are ready, and whatever other handlers of the same batch do.
EdgesAreHandled ==
    \A fd \in Fds :
        fd \in data /\ fd \in reading /\ pc # "idle" ~> fd \notin data \/ fd \notin reading \/ Over

\* remove_io_event() is final: not even an event that epoll_wait() returned
\* before it reaches the removed handler.
RemovedNeverCalled ==
    [][pc = "dispatch" /\ pc' = "callback" => Head(events) \notin removed]_vars

\* A due timer is called, unless the loop waits without a timeout, which it
\* does when the earliest expiry time, cut to an int, is negative.
TimersFire ==
    \A id \in 1 .. MaxId :
        (pc # "idle" /\ \E e \in timers : e.id = id /\ e.expire <= now)
            ~> (id \in called \/ (pc = "wait" /\ wake_at = Never) \/ Over)
=============================================================================
