------------------------ MODULE TimerManager_proofs ------------------------
(***************************************************************************)
(* Proofs about zen::timer_manager (TimerManager.tla) for every number of  *)
(* threads, every capacity of the queue and of the array of tick(), and    *)
(* every set of delays: where a timer is, and what cancel() guarantees.    *)
(*                                                                         *)
(* The properties are not inductive: each rests on what the others say of  *)
(* the places a timer can be in, and on the ids being fresh.               *)
(***************************************************************************)
EXTENDS TimerManager, FiniteSetTheorems, SequenceTheorems, TLAPS

\* The ids along the local array of tick(); Held(t) is IdsOf(fired[t]).
IdsOf(s) == {s[i].id : i \in 1 .. Len(s)}
Distinct(s) == \A i, j \in 1 .. Len(s) : s[i].id = s[j].id => i = j

Adding == {t \in Threads : pc[t] \in {"add", "cbAdd"}}

\* Each add_internal() in progress has an id left.
IdsReserved == next_id + Cardinality(Adding) <= MaxId + 1

\* next_id_ is above every id in use, so that the next one is new.
IdsTaken ==
    /\ \A e \in queue : e.id < next_id
    /\ \A t \in Threads : \A id \in Held(t) : id < next_id
    /\ \A id \in live \cup shots \cup stopped : id < next_id

\* OnePlace, with the entries of an array told apart by their ids.
Places ==
    /\ \A e, f \in queue : e.id = f.id => e = f
    /\ \A t \in Threads :
          /\ Distinct(fired[t])
          /\ Held(t) \cap InQueue = {}
          /\ \A u \in Threads \ {t} : Held(t) \cap Held(u) = {}

\* The array holds entries only while tick() handles them, and during a
\* callback the first is the one called.
Phases ==
    \A t \in Threads :
        /\ fired[t] # <<>> => pc[t] \in {"fire", "callback", "cbAdd"}
        /\ InCallback(t) => fired[t] # <<>>

\* SpentTimersAreGone, and the kind of the timer in a callback.
Spent ==
    /\ SpentTimersAreGone
    /\ \A t \in Threads : InCallback(t) =>
          (Head(fired[t]).id \in shots <=> Head(fired[t]).type = "ONCE")

\* A timer that cancel() stopped is marked while it is queued, no tick() holds
\* it, and no other entry is marked.
Stopped ==
    /\ \A id \in stopped, t \in Threads : id \notin Held(t)
    /\ \A e \in queue : e.cancelled <=> e.id \in stopped

IndInv ==
    /\ TypeOK
    /\ IsFiniteSet(queue)
    /\ IdsReserved
    /\ IdsTaken
    /\ Places
    /\ Phases
    /\ Spent
    /\ Stopped
    /\ NothingVanishes
-----------------------------------------------------------------------------
\* The operators on arrays and queues.

\* What the entries of a queue or an array are.
LEMMA EntryFields ==
    ASSUME NEW e \in Entry
    PROVE  /\ e.id \in Ids /\ e.id \in Nat /\ e.type \in Kinds
           /\ e.expire \in Nat /\ e.interval \in Nat /\ e.cancelled \in BOOLEAN
  BY BoundsAssumption DEF Entry, Ids

\* The first entry of an array is the one tick() handles; when it is done, its
\* id and no other leaves the array.
LEMMA HeadAndTail ==
    ASSUME NEW s \in Seq(Entry), s # <<>>, Distinct(s)
    PROVE  /\ Head(s) \in Entry /\ Head(s).id \in IdsOf(s)
           /\ Tail(s) \in Seq(Entry) /\ Len(Tail(s)) <= Len(s)
           /\ Distinct(Tail(s))
           /\ IdsOf(Tail(s)) = IdsOf(s) \ {Head(s).id}
  <1>1. /\ Head(s) \in Entry /\ Tail(s) \in Seq(Entry)
        /\ Len(s) \in Nat \ {0} /\ Len(Tail(s)) = Len(s) - 1
        /\ \A i \in 1 .. Len(Tail(s)) : Tail(s)[i] = s[i + 1]
    BY HeadTailProperties, EmptySeq
  <1>2. Head(s) = s[1]
    BY <1>1
  <1>3. Head(s).id \in IdsOf(s)
    BY <1>1, <1>2 DEF IdsOf
  <1>4. Distinct(Tail(s))
    BY <1>1 DEF Distinct
  <1>5. ASSUME NEW id \in IdsOf(Tail(s)) PROVE id \in IdsOf(s) \ {Head(s).id}
    <2>1. PICK i \in 1 .. Len(Tail(s)) : id = Tail(s)[i].id
      BY DEF IdsOf
    <2>2. id = s[i + 1].id /\ i + 1 \in 1 .. Len(s) /\ i + 1 # 1 /\ 1 \in 1 .. Len(s)
      BY <2>1, <1>1
    <2> QED BY <2>2, <1>2 DEF IdsOf, Distinct
  <1>6. ASSUME NEW id \in IdsOf(s), id # Head(s).id PROVE id \in IdsOf(Tail(s))
    <2>1. PICK i \in 1 .. Len(s) : id = s[i].id
      BY DEF IdsOf
    <2>2. i # 1
      BY <2>1, <1>2, <1>6
    <2>3. i - 1 \in 1 .. Len(Tail(s)) /\ Tail(s)[i - 1] = s[i]
      BY <2>2, <1>1
    <2> QED BY <2>1, <2>3 DEF IdsOf
  <1> QED BY <1>1, <1>3, <1>4, <1>5, <1>6

\* An array whose ids are all different holds as many ids as entries.
LEMMA DistinctCount ==
    ASSUME NEW s \in Seq(Entry), Distinct(s)
    PROVE  Cardinality(IdsOf(s)) = Len(s)
  <1> DEFINE f == [i \in 1 .. Len(s) |-> s[i].id]
  <1>1. Len(s) \in Nat
    BY LenProperties
  <1>2. f \in Bijection(1 .. Len(s), IdsOf(s))
    <2>1. f \in Injection(1 .. Len(s), IdsOf(s))
      BY DEF Injection, IsInjective, Distinct, IdsOf
    <2>2. f \in Surjection(1 .. Len(s), IdsOf(s))
      BY DEF Surjection, IdsOf
    <2> QED BY <2>1, <2>2 DEF Bijection
  <1>3. ExistsBijection(1 .. Len(s), IdsOf(s))
    BY <1>2 DEF ExistsBijection
  <1> QED BY <1>1, <1>3, FS_CountingElements

\* What pop_expired() delivers: different live due entries of the queue, no
\* more than the array holds.
LEMMA Delivered ==
    ASSUME NEW S \in SUBSET Entry, IsFiniteSet(S),
           \A e, f \in S : e.id = f.id => e = f,
           NEW time \in Nat, NEW batch \in Deliveries(S, time, MaxBatch)
    PROVE  /\ batch \in Seq(Entry) /\ Len(batch) <= MaxBatch
           /\ Distinct(batch)
           /\ ToSet(batch) \subseteq Live(Due(S, time))
           /\ IdsOf(batch) = {e.id : e \in ToSet(batch)}
  <1> DEFINE C == Live(Due(S, time))
             n == IF Cardinality(C) < MaxBatch THEN Cardinality(C) ELSE MaxBatch
  <1>1. C \subseteq S /\ IsFiniteSet(C)
    BY FS_Subset DEF Live, Due
  <1>2. n \in Nat /\ n <= MaxBatch
    BY <1>1, FS_CardinalityType, LimitsAssumption
  <1>3. PICK T \in kSubset(n, C) : batch \in SetToSeqs(T)
    BY DEF Deliveries
  <1>4. T \subseteq C /\ Cardinality(T) = n
    BY <1>3 DEF kSubset
  <1>5. /\ batch \in [1 .. n -> T]
        /\ \A i, j \in 1 .. n : i # j => batch[i] # batch[j]
    BY <1>3, <1>4 DEF SetToSeqs
  <1> HIDE DEF n, C
  <1>6. batch \in Seq(T) /\ Len(batch) = n /\ DOMAIN batch = 1 .. n
    BY <1>2, <1>5, SeqDef
  <1>7. batch \in Seq(Entry)
    BY <1>1, <1>4, <1>6, SeqMonotonic
  <1>8. Distinct(batch)
    BY <1>1, <1>4, <1>5, <1>6 DEF Distinct
  <1>9. ToSet(batch) \subseteq C
    BY <1>4, <1>5 DEF ToSet
  <1>10. IdsOf(batch) = {e.id : e \in ToSet(batch)}
    BY <1>6 DEF IdsOf, ToSet
  <1> QED BY <1>2, <1>6, <1>7, <1>8, <1>9, <1>10 DEF C

\* push() keeps the queue within its room.
LEMMA PushedQueue ==
    ASSUME queue \subseteq Entry, IsFiniteSet(queue), Cardinality(queue) <= Capacity,
           NEW e \in Entry
    PROVE  /\ Pushed(e) \subseteq Entry /\ IsFiniteSet(Pushed(e))
           /\ Cardinality(Pushed(e)) <= Capacity
           /\ Pushed(e) = queue \/ Pushed(e) = queue \cup {e}
  <1>1. Cardinality(queue) \in Nat
    BY FS_CardinalityType
  <1>2. /\ IsFiniteSet(queue \cup {e})
        /\ Cardinality(queue \cup {e}) <= Cardinality(queue) + 1
    BY <1>1, FS_AddElement
  <1>3. CASE Cardinality(queue) < Capacity
    <2>1. Cardinality(queue \cup {e}) \in Nat
      BY <1>2, FS_CardinalityType
    <2>2. Pushed(e) = queue \cup {e}
      BY <1>3 DEF Pushed
    <2> QED BY <1>1, <1>2, <1>3, <2>1, <2>2, LimitsAssumption
  <1>4. CASE ~ (Cardinality(queue) < Capacity)
    BY <1>4 DEF Pushed
  <1> QED BY <1>3, <1>4

\* cancel() marks entries and keeps the queue within its room.
Mark(e, id) == IF e.id = id THEN [e EXCEPT !.cancelled = TRUE] ELSE e
Marked(id) == {Mark(e, id) : e \in queue}

\* Cancelling marks entries and neither adds nor drops any.
LEMMA MarkedQueue ==
    ASSUME queue \subseteq Entry, IsFiniteSet(queue), Cardinality(queue) <= Capacity,
           NEW id
    PROVE  /\ Marked(id) \subseteq Entry /\ IsFiniteSet(Marked(id))
           /\ Cardinality(Marked(id)) <= Capacity
           /\ \A e \in queue : /\ Mark(e, id) \in Marked(id)
                               /\ Mark(e, id).id = e.id
                               /\ Mark(e, id).cancelled <=> e.cancelled \/ e.id = id
           /\ \A f \in Marked(id) : \E e \in queue : f = Mark(e, id)
  <1> DEFINE Q == Marked(id)
             m == [e \in queue |-> Mark(e, id)]
  <1>1. \A e \in queue : /\ Mark(e, id) \in Entry /\ Mark(e, id).id = e.id
                         /\ Mark(e, id).cancelled <=> e.cancelled \/ e.id = id
    BY DEF Entry, Mark
  <1>2. m \in Surjection(queue, Q)
    BY DEF Surjection, Marked
  <1>3. IsFiniteSet(Q) /\ Cardinality(Q) <= Cardinality(queue)
    BY <1>2, FS_Surjection
  <1>4. Cardinality(Q) \in Nat /\ Cardinality(queue) \in Nat
    BY <1>3, FS_CardinalityType
  <1>5. Cardinality(Q) <= Capacity
    BY <1>3, <1>4, LimitsAssumption
  <1> QED BY <1>1, <1>3, <1>5 DEF Marked

-----------------------------------------------------------------------------
\* The constructor: an empty queue and no tick() in progress.
LEMMA InitInv == Init => IndInv
  <1> SUFFICES ASSUME Init PROVE IndInv
    OBVIOUS
  <1> USE DEF Init
  <1>1. \A t \in Threads : fired[t] = <<>> /\ Len(fired[t]) = 0 /\ fired[t] \in Seq(Entry)
    BY EmptySeq
  <1>2. \A t \in Threads : Held(t) = {} /\ Distinct(fired[t])
    BY <1>1 DEF Held, Distinct
  <1>3. IsFiniteSet(queue) /\ Cardinality(queue) = 0
    BY FS_EmptySet
  <1>4. TypeOK
    BY <1>1, <1>3, LimitsAssumption, BoundsAssumption
    DEF TypeOK, Request, NoRequest, Kinds, Never
  <1>5. IdsReserved
    <2>1. Adding = {}
      BY DEF Adding
    <2> QED BY <2>1, FS_EmptySet, BoundsAssumption DEF IdsReserved
  <1>6. IdsTaken /\ Places /\ Phases
    BY <1>1, <1>2 DEF IdsTaken, Places, Phases, InCallback
  <1>7. Spent /\ Stopped /\ NothingVanishes
    BY DEF Spent, SpentTimersAreGone, Stopped, NothingVanishes, InCallback
  <1> QED BY <1>3, <1>4, <1>5, <1>6, <1>7 DEF IndInv

\* The places after a step that leaves the queue, the arrays and the history
\* alone.
Quiet == UNCHANGED <<queue, next_id, fired, live, shots, stopped, lost>>

\* A step that changes no more than where threads are.
LEMMA QuietStep ==
    ASSUME IndInv, Quiet, TypeOK', IdsReserved',
           \A t \in Threads :
               /\ InCallback(t)' <=> InCallback(t)
               /\ fired[t] # <<>> => pc'[t] \in {"fire", "callback", "cbAdd"}
    PROVE  IndInv'
  <1> USE DEF Quiet, IndInv
  <1>1. \A t \in Threads : Held(t)' = Held(t)
    BY DEF Held
  <1>2. IdsTaken' /\ Places'
    BY <1>1 DEF IdsTaken, Places, InQueue
  <1>3. Phases'
    BY DEF Phases
  <1>4. Spent' /\ Stopped' /\ NothingVanishes'
    BY <1>1 DEF Spent, SpentTimersAreGone, Stopped, NothingVanishes, InQueue
  <1> QED BY <1>2, <1>3, <1>4

\* A step of one thread that neither begins nor ends an add.
LEMMA SameAdding ==
    ASSUME TypeOK, NEW t \in Threads, NEW label, Goto(t, label),
           pc[t] \notin {"add", "cbAdd"}, label \notin {"add", "cbAdd"},
           IdsReserved, next_id' = next_id
    PROVE  IdsReserved'
  <1>1. Adding' = Adding
    BY DEF Adding, Goto, TypeOK
  <1> QED BY <1>1 DEF IdsReserved

\* The clock, and the steps of a driver between two callbacks or two ticks.
LEMMA TickStepInv ==
    ASSUME IndInv, Tick
    PROVE  IndInv'
  <1> USE DEF IndInv, Tick, history
  <1>1. TypeOK'
    BY BoundsAssumption DEF TypeOK
  <1>2. IdsReserved'
    BY DEF IdsReserved, Adding
  <1>3. \A t \in Threads : InCallback(t)' <=> InCallback(t)
    BY DEF InCallback
  <1> QED BY <1>1, <1>2, <1>3, QuietStep DEF Quiet, Phases

\* The steps that only read the clock or return.
LEMMA DriverSteps ==
    ASSUME IndInv, NEW t \in Threads,
           TickReadsClock(t) \/ TickReturns(t) \/ UntilBegin(t) \/ UntilEnd(t) \/ UntilAgain(t)
    PROVE  IndInv'
  <1> USE DEF IndInv, history, TickReadsClock, TickReturns, UntilBegin, UntilEnd, UntilAgain
  <1>1. Quiet
    BY DEF Quiet
  <1>2. PICK label \in {"pop", "idle", "check"} : Goto(t, label)
    OBVIOUS
  <1>3. pc[t] \in {"idle", "fire", "check"} /\ fired[t] = <<>>
    BY DEF Phases
  <1>4. TypeOK'
    <2>1. pc' \in [Threads -> {"idle", "add", "cbAdd", "pop", "fire", "callback", "check"}]
      BY <1>2 DEF TypeOK, Goto
    <2>2. now \in 0 .. MaxTime /\ 0 \in 0 .. MaxTime /\ Never \in 0 .. Never /\ now \in 0 .. Never
      BY BoundsAssumption DEF TypeOK, Never
    <2>3. seen' \in [Threads -> 0 .. MaxTime]
      BY <2>2 DEF TypeOK
    <2>4. until' \in [Threads -> 0 .. Never]
      BY <2>2 DEF TypeOK
    <2> QED BY <1>1, <2>1, <2>3, <2>4 DEF TypeOK, Quiet
  <1>5. IdsReserved'
    BY <1>1, <1>2, <1>3, SameAdding DEF Quiet
  <1>6. \A u \in Threads : pc'[u] = IF u = t THEN label ELSE pc[u]
    BY <1>2 DEF Goto, TypeOK
  <1>7. \A u \in Threads : /\ InCallback(u)' <=> InCallback(u)
                           /\ fired[u] # <<>> => pc'[u] \in {"fire", "callback", "cbAdd"}
    BY <1>2, <1>3, <1>6 DEF InCallback, Phases
  <1> QED BY <1>1, <1>4, <1>5, <1>7, QuietStep

\* add_internal() reads the clock: one more thread is adding.
LEMMA AddReadsClockStep ==
    ASSUME IndInv, NEW t \in Threads, NEW type \in Kinds, NEW delay \in Delays,
           AddReadsClock(t, type, delay)
    PROVE  IndInv'
  <1> USE DEF IndInv, AddReadsClock, history
  <1> DEFINE label == IF pc[t] = "idle" THEN "add" ELSE "cbAdd"
  <1>1. Quiet /\ pc' = [pc EXCEPT ![t] = label]
    BY DEF Quiet, Goto
  <1>2. TypeOK'
    <2>1. now \in Nat /\ delay \in Nat
      BY DelaysAssumption, BoundsAssumption DEF TypeOK
    <2> DEFINE interval == IF type = "REPEAT" /\ delay = 0 THEN 1 ELSE delay
               r == [type |-> type, expire |-> now + interval, interval |-> interval]
    <2>2. r \in Request /\ asked' = [asked EXCEPT ![t] = r]
      BY <2>1 DEF Request
    <2> HIDE DEF r
    <2>3. pc' \in [Threads -> {"idle", "add", "cbAdd", "pop", "fire", "callback", "check"}]
      BY <1>1 DEF TypeOK
    <2> QED BY <1>1, <2>2, <2>3 DEF TypeOK, Quiet
  <1>3. IdsReserved'
    <2>1. Adding' = Adding \cup {t} /\ t \notin Adding
      <3>1. \A u \in Threads : pc'[u] = IF u = t THEN label ELSE pc[u]
        BY <1>1 DEF TypeOK
      <3> QED BY <3>1 DEF Adding
    <2>2. IsFiniteSet(Adding)
      BY ThreadsAssumption, FS_Subset DEF Adding
    <2>3. Cardinality(Adding') = Cardinality(Adding) + 1 /\ Cardinality(Adding) \in Nat
      BY <2>1, <2>2, FS_AddElement, FS_CardinalityType
    <2>4. next_id + Cardinality(Adding) <= MaxId
      BY DEF IdsLeft, Adding
    <2> QED BY <1>1, <2>3, <2>4, BoundsAssumption DEF IdsReserved, TypeOK, Quiet
  <1>4. \A u \in Threads : /\ InCallback(u)' <=> InCallback(u)
                           /\ fired[u] # <<>> => pc'[u] \in {"fire", "callback", "cbAdd"}
    BY <1>1 DEF InCallback, Phases, TypeOK
  <1> QED BY <1>1, <1>2, <1>3, <1>4, QuietStep

\* The locked part of an add: the id is new, so the entry is nowhere else.
LEMMA TakeIdStep ==
    ASSUME IndInv, NEW request \in Request, next_id <= MaxId, TakeIdAndPush(request),
           UNCHANGED <<now, seen, fired, until, shots, stopped, lost>>,
           pc' \in [Threads -> {"idle", "add", "cbAdd", "pop", "fire", "callback", "check"}],
           asked' \in [Threads -> Request],
           IdsReserved',
           \A t \in Threads :
               /\ InCallback(t)' <=> InCallback(t)
               /\ fired[t] # <<>> => pc'[t] \in {"fire", "callback", "cbAdd"}
    PROVE  IndInv'
  <1> USE DEF IndInv
  <1> DEFINE e == [id |-> next_id, type |-> request.type, expire |-> request.expire,
                   interval |-> request.interval, cancelled |-> FALSE]
  <1>1. next_id \in Ids /\ next_id \in Nat
    BY BoundsAssumption DEF TypeOK, Ids
  <1>2. e \in Entry /\ e.id = next_id /\ ~ e.cancelled
    BY <1>1 DEF Entry, Request
  <1>3. /\ queue' = Pushed(e) /\ next_id' = next_id + 1
        /\ live' = IF e \in queue' THEN live \cup {e.id} ELSE live
    BY DEF TakeIdAndPush
  <1> HIDE DEF e
  <1>4. /\ queue' \subseteq Entry /\ IsFiniteSet(queue') /\ Cardinality(queue') <= Capacity
        /\ queue' = queue \/ queue' = queue \cup {e}
    BY <1>2, <1>3, PushedQueue DEF TypeOK
  <1>5. \A t \in Threads : Held(t)' = Held(t) /\ next_id \notin Held(t)
    <2>1. \A t \in Threads : Held(t)' = Held(t)
      BY DEF Held
    <2>2. \A t \in Threads : \A id \in Held(t) : id < next_id
      BY DEF IdsTaken
    <2> QED BY <1>1, <2>1, <2>2
  <1>6. queue \subseteq queue' /\ \A f \in queue' : f \in queue \/ f = e
    BY <1>4
  <1>7. InQueue \subseteq InQueue' /\ InQueue' \subseteq InQueue \cup {next_id} /\ next_id \notin InQueue
    BY <1>1, <1>2, <1>6 DEF InQueue, IdsTaken
  <1>8. next_id \notin shots \cup stopped \cup live
    BY <1>1 DEF IdsTaken
  <1>9. TypeOK'
    <2>1. live' \subseteq Ids /\ next_id' \in 1 .. MaxId + 1
      BY <1>1, <1>2, <1>3, BoundsAssumption DEF TypeOK, Ids
    <2> QED BY <1>4, <2>1 DEF TypeOK
  <1>10. IdsTaken'
    <2>1. \A id \in Ids : id < next_id => id < next_id'
      BY <1>1, <1>3, BoundsAssumption DEF Ids
    <2>2. live \cup shots \cup stopped \subseteq Ids
      BY DEF TypeOK
    <2>3. \A f \in queue : f.id \in Ids
      BY EntryFields DEF TypeOK
    <2>4. next_id < next_id'
      BY <1>1, <1>3
    <2>5. \A id \in live' : id \in live \/ id = next_id
      BY <1>2, <1>3
    <2>6. \A t \in Threads : \A id \in Held(t) : id \in Ids
      BY EntryFields, ElementOfSeq DEF TypeOK, Held
    <2> QED BY <1>2, <1>5, <1>6, <2>1, <2>2, <2>3, <2>4, <2>5, <2>6 DEF IdsTaken
  <1>11. Places'
    <2>1. \A f, g \in queue' : f.id = g.id => f = g
      BY <1>2, <1>6, <1>7 DEF Places, InQueue
    <2> QED BY <2>1, <1>5, <1>7 DEF Places
  <1>12. Phases'
    BY DEF Phases
  <1>13. Spent'
    BY <1>5, <1>7, <1>8 DEF Spent, SpentTimersAreGone
  <1>14. Stopped'
    BY <1>2, <1>5, <1>6, <1>8 DEF Stopped
  <1>15. NothingVanishes'
    <2>1. \A id \in live' : id \in live \/ id \in InQueue'
      BY <1>3 DEF InQueue
    <2> QED BY <1>5, <1>7, <2>1 DEF NothingVanishes
  <1> QED BY <1>4, <1>9, <1>10, <1>11, <1>12, <1>13, <1>14, <1>15

\* add_internal(), locked: the thread is adding no more.
LEMMA AddPushesStep ==
    ASSUME IndInv, NEW t \in Threads, AddPushes(t)
    PROVE  IndInv'
  <1> USE DEF IndInv, AddPushes
  <1> DEFINE label == IF pc[t] = "add" THEN "idle" ELSE "callback"
  <1>1. \A u \in Threads : pc'[u] = IF u = t THEN label ELSE pc[u]
    BY DEF Goto, TypeOK
  <1>2. Adding' = Adding \ {t} /\ t \in Adding
    BY <1>1 DEF Adding
  <1>3. IsFiniteSet(Adding)
    BY ThreadsAssumption, FS_Subset DEF Adding
  <1>4. Cardinality(Adding') = Cardinality(Adding) - 1 /\ Cardinality(Adding) \in Nat \ {0}
    BY <1>2, <1>3, FS_RemoveElement, FS_CardinalityType, FS_EmptySet
  <1>5. next_id' = next_id + 1
    BY DEF TakeIdAndPush
  <1>6. next_id <= MaxId /\ IdsReserved'
    BY <1>4, <1>5, BoundsAssumption DEF IdsReserved, TypeOK
  <1>7. pc' \in [Threads -> {"idle", "add", "cbAdd", "pop", "fire", "callback", "check"}]
    BY DEF TypeOK, Goto
  <1>8. asked[t] \in Request /\ asked' \in [Threads -> Request]
    BY DEF TypeOK, Request, NoRequest, Kinds
  <1>9. \A u \in Threads : /\ InCallback(u)' <=> InCallback(u)
                           /\ fired[u] # <<>> => pc'[u] \in {"fire", "callback", "cbAdd"}
    BY <1>1 DEF InCallback, Phases
  <1> QED BY <1>6, <1>7, <1>8, <1>9, TakeIdStep

\* add_once_at(): the whole add is under the lock.
LEMMA AddOnceAtStep ==
    ASSUME IndInv, NEW t \in Threads, NEW expire \in Delays, AddOnceAt(t, expire)
    PROVE  IndInv'
  <1> USE DEF IndInv, AddOnceAt
  <1>1. IsFiniteSet(Adding)
    BY ThreadsAssumption, FS_Subset DEF Adding
  <1>2. Adding' = Adding /\ Cardinality(Adding) \in Nat
    BY <1>1, FS_CardinalityType DEF Adding
  <1>3. next_id + Cardinality(Adding) <= MaxId
    BY DEF IdsLeft, Adding
  <1>4. next_id' = next_id + 1
    BY DEF TakeIdAndPush
  <1>5. next_id <= MaxId /\ IdsReserved'
    BY <1>2, <1>3, <1>4, BoundsAssumption DEF IdsReserved, TypeOK
  <1>6. [type |-> "ONCE", expire |-> expire, interval |-> 0] \in Request
    BY DelaysAssumption DEF Request, Kinds
  <1>7. \A u \in Threads : /\ InCallback(u)' <=> InCallback(u)
                           /\ fired[u] # <<>> => pc'[u] \in {"fire", "callback", "cbAdd"}
    BY DEF InCallback, Phases
  <1> QED BY <1>5, <1>6, <1>7, TakeIdStep DEF TypeOK

\* cancel(): the entry is marked where it waits.
LEMMA CancelStep ==
    ASSUME IndInv, NEW t \in Threads, NEW id \in Ids, Cancel(t, id)
    PROVE  IndInv'
  <1> USE DEF IndInv
  <1>1. /\ queue' \subseteq Entry /\ IsFiniteSet(queue') /\ Cardinality(queue') <= Capacity
        /\ \A e \in queue : /\ Mark(e, id) \in queue'
                            /\ Mark(e, id).id = e.id
                            /\ Mark(e, id).cancelled <=> e.cancelled \/ e.id = id
        /\ \A f \in queue' : \E e \in queue : f = Mark(e, id)
    <2>1. queue' = Marked(id)
      BY DEF Cancel, Marked, Mark
    <2>2. queue \subseteq Entry /\ IsFiniteSet(queue) /\ Cardinality(queue) <= Capacity
      BY DEF TypeOK
    <2> QED BY <2>1, <2>2, MarkedQueue, Zenon
  <1>2. InQueue' = InQueue /\ \A u \in Threads : Held(u)' = Held(u)
    <2>1. InQueue' \subseteq InQueue
      BY <1>1 DEF InQueue
    <2>2. InQueue \subseteq InQueue'
      BY <1>1 DEF InQueue
    <2>3. \A u \in Threads : Held(u)' = Held(u)
      BY DEF Cancel, Held
    <2> QED BY <2>1, <2>2, <2>3
  <1>3. /\ UNCHANGED <<now, next_id, pc, asked, seen, fired, until, live, shots, lost>>
        /\ stopped' = (IF id \in InQueue THEN stopped \cup {id} ELSE stopped)
        /\ id < next_id
    BY DEF Cancel
  <1>4. TypeOK'
    BY <1>1, <1>3 DEF TypeOK
  <1>5. IdsReserved' /\ Phases'
    BY <1>3 DEF IdsReserved, Adding, Phases, InCallback
  <1>6. IdsTaken'
    <2>1. \A f \in queue' : f.id < next_id
      BY <1>1 DEF IdsTaken
    <2>2. \A i \in live \cup shots \cup stopped' : i < next_id
      BY <1>3 DEF IdsTaken
    <2>3. \A u \in Threads : \A i \in Held(u)' : i < next_id
      BY <1>2 DEF IdsTaken
    <2> QED BY <1>3, <2>1, <2>2, <2>3 DEF IdsTaken
  <1>7. Places'
    <2>1. ASSUME NEW f \in queue', NEW g \in queue', f.id = g.id PROVE f = g
      BY <2>1, <1>1 DEF Places
    <2> QED BY <2>1, <1>2, <1>3 DEF Places
  <1>8. Spent'
    BY <1>2, <1>3 DEF Spent, SpentTimersAreGone, InCallback
  <1>9. Stopped'
    <2>1. ASSUME NEW u \in Threads, NEW i \in stopped' PROVE i \notin Held(u)'
      BY <2>1, <1>2, <1>3 DEF Stopped, Places
    <2>2. ASSUME NEW f \in queue' PROVE f.cancelled <=> f.id \in stopped'
      <3>1. PICK e \in queue : f = Mark(e, id)
        BY <1>1, <2>2
      <3>2. /\ f.id = e.id /\ (f.cancelled <=> e.cancelled \/ e.id = id)
            /\ e.id \in InQueue
        BY <1>1, <3>1 DEF InQueue
      <3>3. e.cancelled <=> e.id \in stopped
        BY DEF Stopped
      <3> QED BY <1>3, <3>2, <3>3
    <2> QED BY <2>1, <2>2 DEF Stopped
  <1>10. NothingVanishes'
    BY <1>2, <1>3 DEF NothingVanishes
  <1> QED BY <1>1, <1>4, <1>5, <1>6, <1>7, <1>8, <1>9, <1>10

-----------------------------------------------------------------------------
\* tick() pops under the lock: the live due entries move from the queue to the
\* array, which was empty, or are dropped.
LEMMA TickPopsStep ==
    ASSUME IndInv, NEW t \in Threads, TickPops(t)
    PROVE  IndInv'
  <1> USE DEF IndInv
  <1> DEFINE due == Due(queue, seen[t])
  <1>1. PICK batch \in Deliveries(queue, seen[t], MaxBatch) :
           /\ fired' = [fired EXCEPT ![t] = batch]
           /\ lost' = lost \cup {e.id : e \in Live(due) \ ToSet(batch)}
    BY DEF TickPops
  <1>2. /\ pc[t] = "pop" /\ pc' = [pc EXCEPT ![t] = "fire"] /\ queue' = queue \ due
        /\ UNCHANGED <<now, next_id, asked, seen, until, live, shots, stopped>>
    BY DEF TickPops, Goto
  <1>3. queue \subseteq Entry /\ IsFiniteSet(queue) /\ seen[t] \in Nat
    BY BoundsAssumption DEF TypeOK
  <1>4. /\ batch \in Seq(Entry) /\ Len(batch) <= MaxBatch /\ Distinct(batch)
        /\ ToSet(batch) \subseteq Live(due)
        /\ IdsOf(batch) = {e.id : e \in ToSet(batch)}
    <2>1. \A e, f \in queue : e.id = f.id => e = f
      BY DEF Places
    <2> QED BY <1>3, <2>1, Delivered
  <1>5. /\ due \subseteq queue
        /\ \A e \in Live(due) : e \in due /\ e \in queue /\ ~ e.cancelled
        /\ \A e \in due : e.cancelled \/ e \in Live(due)
    BY DEF Due, Live
  <1>6. \A id \in IdsOf(batch) : \E e \in due : e.id = id /\ e \in queue /\ ~ e.cancelled
    BY <1>4, <1>5
  <1> HIDE DEF due
  <1>7. fired[t] = <<>> /\ Held(t) = {}
    BY <1>2, EmptySeq DEF Phases, Held
  <1>8. /\ fired'[t] = batch /\ Held(t)' = IdsOf(batch)
        /\ \A u \in Threads \ {t} : fired'[u] = fired[u] /\ Held(u)' = Held(u)
    BY <1>1 DEF TypeOK, Held, IdsOf
  <1>9. \A u \in Threads : pc'[u] = IF u = t THEN "fire" ELSE pc[u]
    BY <1>2 DEF TypeOK
  <1>10. /\ queue' \subseteq queue /\ IsFiniteSet(queue') /\ Cardinality(queue') <= Capacity
         /\ \A e \in queue' : e \notin due
    <2>1. queue' \subseteq queue /\ IsFiniteSet(queue') /\ Cardinality(queue') <= Cardinality(queue)
      BY <1>2, <1>3, FS_Subset
    <2>2. Cardinality(queue') \in Nat /\ Cardinality(queue) \in Nat
      BY <1>3, <2>1, FS_CardinalityType
    <2> QED BY <1>2, <2>1, <2>2, LimitsAssumption DEF TypeOK
  <1>11. InQueue' \subseteq InQueue
    BY <1>10 DEF InQueue
  <1>12. TypeOK'
    <2>1. fired' \in [Threads -> Seq(Entry)] /\ \A u \in Threads : Len(fired'[u]) <= MaxBatch
      BY <1>1, <1>4, <1>8 DEF TypeOK
    <2>2. lost' \subseteq Ids
      BY <1>1, <1>3, <1>5, EntryFields DEF TypeOK
    <2>3. pc' \in [Threads -> {"idle", "add", "cbAdd", "pop", "fire", "callback", "check"}]
      BY <1>2 DEF TypeOK
    <2> QED BY <1>2, <1>10, <2>1, <2>2, <2>3 DEF TypeOK
  <1>13. IdsReserved'
    BY <1>2, SameAdding DEF Goto
  <1>14. IdsTaken'
    <2>1. \A id \in IdsOf(batch) : id < next_id
      BY <1>6 DEF IdsTaken
    <2>2. \A u \in Threads : \A id \in Held(u)' : id < next_id
      BY <1>8, <2>1 DEF IdsTaken
    <2> QED BY <1>2, <1>10, <2>2 DEF IdsTaken
  <1>15. Places'
    <2>1. \A e, f \in queue' : e.id = f.id => e = f
      BY <1>10 DEF Places
    <2>2. ASSUME NEW id \in IdsOf(batch)
          PROVE  id \notin InQueue' /\ \A u \in Threads \ {t} : id \notin Held(u)
      <3>1. PICK e \in due : e.id = id /\ e \in queue
        BY <1>6
      <3>2. id \in InQueue
        BY <3>1 DEF InQueue
      <3>3. \A f \in queue' : f.id # id
        BY <3>1, <1>10 DEF Places
      <3> QED BY <3>2, <3>3 DEF Places, InQueue
    <2>3. ASSUME NEW u \in Threads PROVE Distinct(fired[u])' /\ Held(u)' \cap InQueue' = {}
      BY <1>4, <1>8, <1>11, <2>2 DEF Places, Distinct
    <2>4. ASSUME NEW u \in Threads, NEW v \in Threads \ {u} PROVE Held(u)' \cap Held(v)' = {}
      BY <1>8, <2>2 DEF Places
    <2> QED BY <2>1, <2>3, <2>4 DEF Places
  <1>16. Phases'
    BY <1>8, <1>9 DEF Phases, InCallback
  <1>17. Spent'
    <2>1. ASSUME NEW id \in shots PROVE id \notin InQueue' /\ id \notin IdsOf(batch)
      BY <1>6, <1>11 DEF Spent, SpentTimersAreGone, InQueue
    <2>2. \A u \in Threads : InCallback(u)' => u # t /\ InCallback(u) /\ fired'[u] = fired[u]
      BY <1>8, <1>9 DEF InCallback
    <2>3. \A u \in Threads \ {t} : InCallback(u) => InCallback(u)'
      BY <1>9 DEF InCallback
    <2> QED BY <1>2, <1>8, <2>1, <2>2, <2>3 DEF Spent, SpentTimersAreGone
  <1>18. Stopped'
    <2>1. \A id \in stopped : id \notin IdsOf(batch)
      BY <1>6 DEF Stopped
    <2>2. \A id \in stopped, u \in Threads : id \notin Held(u)'
      BY <1>8, <2>1 DEF Stopped
    <2> QED BY <1>2, <1>10, <2>2 DEF Stopped
  <1>19. NothingVanishes'
    <2>1. ASSUME NEW e \in queue
          PROVE  e.id \in InQueue' \cup Held(t)' \cup stopped \cup lost'
      <3>1. CASE e \notin due
        BY <3>1, <1>2 DEF InQueue
      <3>2. CASE e \in due /\ e.cancelled
        BY <3>2 DEF Stopped
      <3>3. CASE e \in Live(due) /\ e \in ToSet(batch)
        BY <3>3, <1>4, <1>8
      <3>4. CASE e \in Live(due) /\ e \notin ToSet(batch)
        BY <3>4, <1>1
      <3> QED BY <3>1, <3>2, <3>3, <3>4, <1>5
    <2>2. \A id \in InQueue : id \in InQueue' \cup Held(t)' \cup stopped \cup lost'
      BY <2>1 DEF InQueue
    <2>3. \A u \in Threads : Held(u) \subseteq Held(u)'
      BY <1>7, <1>8
    <2>4. lost \subseteq lost'
      BY <1>1
    <2>5. ASSUME NEW id \in live
          PROVE  id \in InQueue' \cup (UNION {Held(u)' : u \in Threads}) \cup shots \cup stopped \cup lost'
      BY <2>2, <2>3, <2>4 DEF NothingVanishes
    <2> QED BY <1>2, <2>5 DEF NothingVanishes
  <1> QED BY <1>10, <1>12, <1>13, <1>14, <1>15, <1>16, <1>17, <1>18, <1>19

\* tick() calls the callback of its first entry; for a one-shot timer that is
\* the only call.
LEMMA TickCallsStep ==
    ASSUME IndInv, NEW t \in Threads, TickCalls(t)
    PROVE  IndInv'
  <1> USE DEF IndInv
  <1> DEFINE e == Head(fired[t])
  <1>1. /\ pc[t] = "fire" /\ fired[t] # <<>> /\ pc' = [pc EXCEPT ![t] = "callback"]
        /\ shots' = (IF e.type = "ONCE" THEN shots \cup {e.id} ELSE shots)
        /\ UNCHANGED <<now, queue, next_id, asked, seen, fired, until, live, stopped, lost>>
    BY DEF TickCalls, Goto
  <1>2. e \in Entry /\ e.id \in Held(t)
    BY <1>1, HeadAndTail DEF TypeOK, Places, Held, IdsOf
  <1> HIDE DEF e
  <1>3. \A u \in Threads : pc'[u] = IF u = t THEN "callback" ELSE pc[u]
    BY <1>1 DEF TypeOK
  <1>4. InQueue' = InQueue /\ \A u \in Threads : Held(u)' = Held(u)
    BY <1>1 DEF InQueue, Held
  <1>5. TypeOK'
    <2>1. shots' \subseteq Ids
      BY <1>1, <1>2, EntryFields DEF TypeOK
    <2>2. pc' \in [Threads -> {"idle", "add", "cbAdd", "pop", "fire", "callback", "check"}]
      BY <1>1 DEF TypeOK
    <2> QED BY <1>1, <2>1, <2>2 DEF TypeOK
  <1>6. IdsReserved'
    BY <1>1, SameAdding DEF Goto
  <1>7. IdsTaken' /\ Places'
    BY <1>1, <1>2, <1>4 DEF IdsTaken, Places
  <1>8. Phases'
    BY <1>1, <1>3 DEF Phases, InCallback
  <1>9. e.id \notin shots
    BY <1>1, <1>2 DEF Spent, SpentTimersAreGone, InCallback
  <1>10. e.id \notin InQueue /\ \A u \in Threads \ {t} : e.id \notin Held(u)
    BY <1>2 DEF Places
  <1>11. InCallback(t)' /\ \A u \in Threads \ {t} : InCallback(u)' <=> InCallback(u)
    BY <1>3 DEF InCallback
  <1>12. \A u \in Threads : InCallback(u) => Head(fired[u]).id \in Held(u)
    BY HeadAndTail DEF Phases, TypeOK, Places, Held, IdsOf
  <1>13. Spent'
    <2>1. \A id \in shots' : id \in shots \/ id = e.id
      BY <1>1
    <2>2. ASSUME NEW id \in shots'
          PROVE  /\ id \notin InQueue
                 /\ \A u \in Threads : id \in Held(u) => InCallback(u)' /\ Head(fired[u]).id = id
      <3>1. CASE id \in shots
        <4>1. id \notin Held(t)
          BY <3>1, <1>1 DEF Spent, SpentTimersAreGone, InCallback
        <4> QED BY <3>1, <4>1, <1>11 DEF Spent, SpentTimersAreGone
      <3>2. CASE id = e.id
        BY <3>2, <1>10, <1>11 DEF e
      <3> QED BY <3>1, <3>2, <2>1
    <2>3. ASSUME NEW u \in Threads, InCallback(u)'
          PROVE  Head(fired[u]).id \in shots' <=> Head(fired[u]).type = "ONCE"
      <3>1. CASE u = t
        BY <3>1, <1>1, <1>9 DEF e
      <3>2. CASE u # t
        BY <3>2, <2>3, <1>1, <1>10, <1>11, <1>12 DEF Spent
      <3> QED BY <3>1, <3>2
    <2> QED BY <1>1, <1>4, <2>2, <2>3 DEF Spent, SpentTimersAreGone
  <1>14. Stopped' /\ NothingVanishes'
    BY <1>1, <1>4 DEF Stopped, NothingVanishes
  <1> QED BY <1>1, <1>5, <1>6, <1>7, <1>8, <1>13, <1>14

\* The callback has returned: a repeating timer goes back to the queue, or is
\* dropped when the queue is full; a one-shot timer is gone.
LEMMA TickReturnsFromStep ==
    ASSUME IndInv, NEW t \in Threads, TickReturnsFrom(t)
    PROVE  IndInv'
  <1> USE DEF IndInv
  <1> DEFINE e == Head(fired[t])
             again == [e EXCEPT !.expire = seen[t] + e.interval, !.cancelled = FALSE]
  <1>1. /\ pc[t] = "callback" /\ pc' = [pc EXCEPT ![t] = "fire"]
        /\ fired' = [fired EXCEPT ![t] = Tail(@)]
        /\ UNCHANGED <<now, next_id, asked, seen, until, live, shots, stopped>>
    BY DEF TickReturnsFrom, Goto
  <1>2. /\ e.type = "REPEAT" => /\ queue' = Pushed(again)
                                /\ lost' = (IF again \in queue' THEN lost ELSE lost \cup {e.id})
        /\ e.type # "REPEAT" => queue' = queue /\ lost' = lost
    BY DEF TickReturnsFrom
  <1>3. /\ fired[t] # <<>> /\ fired[t] \in Seq(Entry) /\ Distinct(fired[t])
        /\ IdsOf(fired[t]) = Held(t)
    BY <1>1 DEF Phases, InCallback, TypeOK, Places, IdsOf, Held
  <1>4. /\ e \in Entry /\ e.id \in Held(t)
        /\ Tail(fired[t]) \in Seq(Entry) /\ Len(Tail(fired[t])) <= Len(fired[t])
        /\ Distinct(Tail(fired[t])) /\ IdsOf(Tail(fired[t])) = Held(t) \ {e.id}
    BY <1>3, HeadAndTail
  <1> HIDE DEF e
  <1>5. again \in Entry /\ again.id = e.id /\ ~ again.cancelled
    <2>1. seen[t] \in Nat
      BY BoundsAssumption DEF TypeOK
    <2>2. \A time \in Nat : [e EXCEPT !.expire = time, !.cancelled = FALSE] \in Entry
      BY <1>4 DEF Entry
    <2>3. seen[t] + e.interval \in Nat
      BY <1>4, <2>1, EntryFields
    <2>4. again \in Entry
      BY <2>2, <2>3, Zenon
    <2>5. again.id = e.id /\ ~ again.cancelled
      BY <1>4 DEF Entry
    <2> QED BY <2>4, <2>5
  <1> HIDE DEF again
  <1>6. queue \subseteq Entry /\ IsFiniteSet(queue) /\ Cardinality(queue) <= Capacity
    BY DEF TypeOK
  <1>7. /\ queue' \subseteq Entry /\ IsFiniteSet(queue') /\ Cardinality(queue') <= Capacity
        /\ queue \subseteq queue'
        /\ \A f \in queue' : f \in queue \/ (e.type = "REPEAT" /\ f = again)
    <2>1. CASE e.type = "REPEAT"
      BY <2>1, <1>2, <1>5, <1>6, PushedQueue
    <2>2. CASE e.type # "REPEAT"
      BY <2>2, <1>2, <1>6
    <2> QED BY <2>1, <2>2
  <1>8. /\ fired'[t] = Tail(fired[t]) /\ Held(t)' = Held(t) \ {e.id}
        /\ \A u \in Threads \ {t} : fired'[u] = fired[u] /\ Held(u)' = Held(u)
    <2>1. /\ fired'[t] = Tail(fired[t])
          /\ \A u \in Threads \ {t} : fired'[u] = fired[u]
      BY <1>1 DEF TypeOK
    <2>2. Held(t)' = IdsOf(Tail(fired[t]))
      BY <2>1 DEF Held, IdsOf
    <2>3. \A u \in Threads \ {t} : Held(u)' = Held(u)
      BY <2>1 DEF Held
    <2> QED BY <2>1, <2>2, <2>3, <1>4
  <1>9. \A u \in Threads : pc'[u] = IF u = t THEN "fire" ELSE pc[u]
    BY <1>1 DEF TypeOK
  <1>10. e.id \notin InQueue /\ \A u \in Threads \ {t} : e.id \notin Held(u)
    BY <1>4 DEF Places
  <1>11. InQueue \subseteq InQueue'
    BY <1>7 DEF InQueue
  <1>12. \A id \in InQueue' : id \in InQueue \/ (e.type = "REPEAT" /\ id = e.id)
    BY <1>5, <1>7 DEF InQueue
  <1>13. e.id \in shots <=> e.type = "ONCE"
    BY <1>1 DEF Spent, InCallback, e
  <1>14. e.type \in Kinds
    BY <1>4, EntryFields
  <1>15. TypeOK'
    <2>1. fired' \in [Threads -> Seq(Entry)] /\ \A u \in Threads : Len(fired'[u]) <= MaxBatch
      <3>1. Len(Tail(fired[t])) <= MaxBatch
        BY <1>3, <1>4, LenProperties, LimitsAssumption DEF TypeOK
      <3> QED BY <3>1, <1>1, <1>4, <1>8 DEF TypeOK
    <2>2. lost' \subseteq Ids
      BY <1>2, <1>4, EntryFields DEF TypeOK
    <2>3. pc' \in [Threads -> {"idle", "add", "cbAdd", "pop", "fire", "callback", "check"}]
      BY <1>1 DEF TypeOK
    <2> QED BY <1>1, <1>7, <2>1, <2>2, <2>3 DEF TypeOK
  <1>16. IdsReserved'
    BY <1>1, SameAdding DEF Goto
  <1>17. IdsTaken'
    <2>1. \A f \in queue' : f.id < next_id
      BY <1>4, <1>5, <1>7 DEF IdsTaken
    <2>2. \A u \in Threads : \A id \in Held(u)' : id < next_id
      BY <1>8 DEF IdsTaken
    <2> QED BY <1>1, <2>1, <2>2 DEF IdsTaken
  <1>18. Places'
    <2>1. \A f, g \in queue' : f.id = g.id => f = g
      BY <1>5, <1>7, <1>10 DEF Places, InQueue
    <2>2. ASSUME NEW u \in Threads PROVE Distinct(fired[u])' /\ Held(u)' \cap InQueue' = {}
      <3>1. Distinct(fired[u])'
        BY <1>4, <1>8 DEF Places, Distinct
      <3>2. Held(u)' \cap InQueue' = {}
        BY <1>8, <1>10, <1>12 DEF Places
      <3> QED BY <3>1, <3>2
    <2>3. ASSUME NEW u \in Threads, NEW v \in Threads \ {u} PROVE Held(u)' \cap Held(v)' = {}
      BY <1>8 DEF Places
    <2> QED BY <2>1, <2>2, <2>3 DEF Places
  <1>19. Phases'
    BY <1>8, <1>9 DEF Phases, InCallback
  <1>20. Spent'
    <2>1. ASSUME NEW id \in shots PROVE id \notin InQueue'
      BY <1>12, <1>13 DEF Spent, SpentTimersAreGone
    <2>2. ASSUME NEW id \in shots, NEW u \in Threads, id \in Held(u)'
          PROVE  u # t /\ id \in Held(u)
      <3>1. CASE u = t
        <4>1. id \in Held(t) /\ id # e.id
          BY <2>2, <3>1, <1>8
        <4>2. Head(fired[t]).id = id
          BY <4>1 DEF Spent, SpentTimersAreGone
        <4> QED BY <4>1, <4>2 DEF e
      <3> QED BY <2>2, <3>1, <1>8
    <2>3. \A u \in Threads : InCallback(u)' => u # t /\ InCallback(u)
      BY <1>9 DEF InCallback
    <2>4. \A u \in Threads \ {t} : InCallback(u) => InCallback(u)'
      BY <1>9 DEF InCallback
    <2>5. SpentTimersAreGone'
      BY <1>1, <1>8, <2>1, <2>2, <2>4 DEF Spent, SpentTimersAreGone
    <2>6. \A u \in Threads : InCallback(u)' =>
             (Head(fired'[u]).id \in shots' <=> Head(fired'[u]).type = "ONCE")
      BY <1>1, <1>8, <2>3 DEF Spent
    <2> QED BY <2>5, <2>6 DEF Spent
  <1>21. Stopped'
    <2>1. e.id \notin stopped
      BY <1>4 DEF Stopped
    <2>2. \A f \in queue' : f.cancelled <=> f.id \in stopped
      BY <2>1, <1>5, <1>7 DEF Stopped
    <2>3. \A id \in stopped, u \in Threads : id \notin Held(u)'
      BY <1>8 DEF Stopped
    <2> QED BY <1>1, <2>2, <2>3 DEF Stopped
  <1>22. NothingVanishes'
    <2>1. e.id \in InQueue' \cup shots \cup lost'
      <3>1. CASE e.type = "ONCE"
        BY <3>1, <1>13
      <3>2. CASE e.type = "REPEAT"
        BY <3>2, <1>2, <1>5 DEF InQueue
      <3> QED BY <3>1, <3>2, <1>14 DEF Kinds
    <2>2. \A u \in Threads : \A id \in Held(u) : id \in Held(u)' \/ id = e.id
      BY <1>8
    <2>3. lost \subseteq lost'
      BY <1>2, <1>14 DEF Kinds
    <2>4. ASSUME NEW id \in live
          PROVE  id \in InQueue' \cup (UNION {Held(u)' : u \in Threads}) \cup shots \cup stopped \cup lost'
      BY <1>11, <2>1, <2>2, <2>3 DEF NothingVanishes
    <2> QED BY <1>1, <2>4 DEF NothingVanishes
  <1> QED BY <1>7, <1>15, <1>16, <1>17, <1>18, <1>19, <1>20, <1>21, <1>22

\* Every step of the manager preserves the invariant.
LEMMA NextStep == IndInv /\ [Next]_vars => IndInv'
  <1> SUFFICES ASSUME IndInv, [Next]_vars PROVE IndInv'
    OBVIOUS
  <1>1. CASE Tick
    BY <1>1, TickStepInv
  <1>2. ASSUME NEW t \in Threads, TickStep(t) PROVE IndInv'
    BY <1>2, TickPopsStep, TickCallsStep, TickReturnsFromStep, DriverSteps DEF TickStep
  <1>3. ASSUME NEW t \in Threads, AddPushes(t) \/ TickReadsClock(t) PROVE IndInv'
    BY <1>3, AddPushesStep, DriverSteps
  <1>4. ASSUME NEW t \in Threads, Client(t) PROVE IndInv'
    BY <1>4, AddOnceAtStep, AddReadsClockStep, CancelStep, DriverSteps DEF Client
  <1>5. CASE UNCHANGED vars
    <2>1. TypeOK' /\ IdsReserved' /\ Quiet
      BY <1>5 DEF vars, IndInv, TypeOK, IdsReserved, Adding, Quiet
    <2>2. \A t \in Threads : InCallback(t)' <=> InCallback(t)
      BY <1>5 DEF vars, InCallback
    <2> QED BY <1>5, <2>1, <2>2, QuietStep DEF vars, IndInv, Phases
  <1> QED BY <1>1, <1>2, <1>3, <1>4, <1>5 DEF Next

\* Only tick() goes on to a callback.
LEMMA CallsCallback ==
    ASSUME TypeOK, [Next]_vars, NEW t \in Threads, pc[t] = "fire", pc'[t] = "callback"
    PROVE  TickCalls(t)
  <1>1. pc' # pc
    OBVIOUS
  <1>2. ~ Tick /\ ~ UNCHANGED vars
    BY <1>1 DEF Tick, vars
  <1>3. PICK u \in Threads : TickStep(u) \/ AddPushes(u) \/ Client(u) \/ TickReadsClock(u)
    BY <1>2 DEF Next
  <1>4. CASE u = t
    <2>1. ~ AddPushes(t) /\ ~ Client(t) /\ ~ TickReadsClock(t)
      BY DEF AddPushes, Client, AddOnceAt, AddReadsClock, Cancel, UntilBegin, TickReadsClock
    <2>2. ~ TickPops(t) /\ ~ TickReturnsFrom(t) /\ ~ UntilEnd(t) /\ ~ UntilAgain(t)
      BY DEF TickPops, TickReturnsFrom, UntilEnd, UntilAgain
    <2>3. ~ TickReturns(t)
      BY DEF TickReturns, Goto, TypeOK
    <2> QED BY <1>3, <1>4, <2>1, <2>2, <2>3 DEF TickStep
  <1>5. CASE u # t
    <2>1. UNCHANGED pc \/ \E label : pc' = [pc EXCEPT ![u] = label]
      BY <1>3 DEF TickStep, TickPops, TickCalls, TickReturnsFrom, TickReturns, UntilEnd,
         UntilAgain, AddPushes, Client, AddOnceAt, AddReadsClock, Cancel, UntilBegin,
         TickReadsClock, Goto
    <2> QED BY <2>1, <1>1, <1>5 DEF TypeOK
  <1> QED BY <1>4, <1>5

-----------------------------------------------------------------------------
\* The invariant holds in every reachable state.
LEMMA Inductive == Spec => []IndInv
  BY InitInv, NextStep, PTL DEF Spec

\* The variables keep their types, the queue its room and the array of tick()
\* its length, MAX_BATCH.
THEOREM TypeCorrect == Spec => []TypeOK
  <1>1. IndInv => TypeOK
    BY DEF IndInv
  <1> QED BY <1>1, Inductive, PTL

\* Whatever threads add, cancel and drive timers, inside callbacks or outside,
\* each timer is queued once or held by one tick() once.
THEOREM TimersInOnePlace == Spec => []OnePlace
  <1>1. IndInv => OnePlace
    <2> SUFFICES ASSUME IndInv PROVE OnePlace
      OBVIOUS
    <2>1. ASSUME NEW t \in Threads PROVE Cardinality(Held(t)) = Len(fired[t])
      <3>1. Held(t) = IdsOf(fired[t])
        BY DEF Held, IdsOf
      <3> QED BY <3>1, DistinctCount DEF IndInv, TypeOK, Places
    <2> QED BY <2>1 DEF IndInv, Places, OnePlace
  <1> QED BY <1>1, Inductive, PTL

\* The callback of a one-shot timer is called once: when it has been called,
\* the timer is gone.
THEOREM OneShotsFireOnce == Spec => []SpentTimersAreGone
  <1>1. IndInv => SpentTimersAreGone
    BY DEF IndInv, Spent
  <1> QED BY <1>1, Inductive, PTL

\* A timer leaves the manager by firing for good, by cancel(), or at one of
\* the two limits, and in no other way.
THEOREM TimersDoNotVanish == Spec => []NothingVanishes
  <1>1. IndInv => NothingVanishes
    BY DEF IndInv
  <1> QED BY <1>1, Inductive, PTL

\* When cancel() has returned true the callback is not called any more,
\* although ticks run their callbacks without the lock.
THEOREM CancelIsFinal == Spec => CancelledNeverCalled
  <1>1. IndInv /\ [Next]_vars =>
           [\A t \in Threads : pc[t] = "fire" /\ pc'[t] = "callback" =>
               Head(fired[t]).id \notin stopped]_vars
    <2> SUFFICES ASSUME IndInv, [Next]_vars,
                        NEW t \in Threads, pc[t] = "fire", pc'[t] = "callback"
                 PROVE  Head(fired[t]).id \notin stopped
      OBVIOUS
    <2>1. fired[t] # <<>>
      <3>1. TickCalls(t)
        BY CallsCallback DEF IndInv
      <3> QED BY <3>1 DEF TickCalls
    <2>2. Head(fired[t]).id \in Held(t)
      BY <2>1, HeadAndTail DEF IndInv, TypeOK, Places, IdsOf, Held
    <2> QED BY <2>2 DEF IndInv, Stopped
  <1> QED BY <1>1, Inductive, PTL DEF Spec, CancelledNeverCalled
=============================================================================
