----------------------------- MODULE LockGuards -----------------------------
(***************************************************************************)
(* The lock objects of src/threading/sync (mutex, timed_mutex,             *)
(* recursive_mutex, rwlock) and the guards that hold them: lock_guard,     *)
(* unique_lock and scoped_lock (lock_guard.h), shared_lock and write_lock  *)
(* (rwlock.h); swap() is that of the unique_lock of unique_lock.h.         *)
(*                                                                         *)
(* A lock is a thin wrapper of its pthread object: Take and Drop are what  *)
(* the library calls promise.  A mutex is a lock nobody takes shared.  The *)
(* guards only remember, in owns_, whether they are the ones to unlock;    *)
(* every guard is a local variable of one thread.                          *)
(*                                                                         *)
(* The clients are the programs the headers describe: a thread makes a     *)
(* call that may block only while it holds no lock, or none but that very  *)
(* recursive one, and takes two locks at once with a scoped_lock of two    *)
(* different ones (a mutex twice would wait for itself).                   *)
(***************************************************************************)
EXTENDS Integers, FiniteSets

CONSTANTS
    Threads,      \* the threads
    Locks,        \* the addresses of the lock objects
    Recursive,    \* those of them that are a recursive_mutex
    UniqueSlots,  \* the unique_lock variables of a thread
    RefSlots,     \* the shared_lock and write_lock variables of a thread
    PlainSlots,   \* the lock_guard and scoped_lock<Mutex> variables of a thread
    MaxGuards     \* bound: guards of a thread in use at once (not in the code)

Null  == 0                      \* nullptr
Modes == {"exclusive", "shared"}
Slots == UniqueSlots \cup RefSlots \cup PlainSlots
NoSlots == {"raw", "timed", "scoped", "none"}

ASSUME AddressAssumption == Locks \subseteq Nat \ {Null} /\ Recursive \subseteq Locks
ASSUME SlotAssumption ==
    /\ UniqueSlots \cap RefSlots = {}
    /\ PlainSlots \cap (UniqueSlots \cup RefSlots) = {}
    /\ Slots \cap NoSlots = {} /\ IsFiniteSet(Slots)

VARIABLES
    writer,   \* how often each thread holds a lock exclusively
    readers,  \* how often each thread holds a lock shared
    guard,    \* mutex_ and owns_ of each guard, and the mode it locks in
    loose,    \* locks a thread holds through no guard: lock(), release()
    scoped,   \* m1_ and m2_ of the thread's scoped_lock, and which are locked
    want      \* the blocking call a thread is in

vars == <<writer, readers, guard, loose, scoped, want>>

Unused   == [mutex |-> Null, owns |-> FALSE, mode |-> "exclusive"]
NoScope  == [m1 |-> Null, m2 |-> Null, locked |-> {}]
NoCall   == [lock |-> Null, mode |-> "exclusive", slot |-> "none"]

TypeOK ==
    /\ writer \in [Locks -> [Threads -> Nat]]
    /\ readers \in [Locks -> [Threads -> Nat]]
    /\ guard \in [Threads -> [Slots ->
                    [mutex : Locks \cup {Null}, owns : BOOLEAN, mode : Modes]]]
    /\ loose \in [Threads -> SUBSET Locks]
    /\ scoped \in [Threads -> [m1 : Locks \cup {Null}, m2 : Locks \cup {Null},
                               locked : SUBSET Locks]]
    /\ want \in [Threads -> [lock : Locks \cup {Null}, mode : Modes,
                             slot : Slots \cup NoSlots]]

Init ==
    /\ writer = [l \in Locks |-> [t \in Threads |-> 0]]
    /\ readers = [l \in Locks |-> [t \in Threads |-> 0]]
    /\ guard = [t \in Threads |-> [s \in Slots |-> Unused]]
    /\ loose = [t \in Threads |-> {}]
    /\ scoped = [t \in Threads |-> NoScope]
    /\ want = [t \in Threads |-> NoCall]

-----------------------------------------------------------------------------
\* A recursive_mutex that the thread holds already: it takes it once more.
Nested(t, l) == l \in Recursive /\ writer[l][t] > 0

\* pthread_mutex_t, pthread_rwlock_t.
Free(t, l, mode) ==
    \/ Nested(t, l)
    \/ /\ \A u \in Threads : writer[l][u] = 0
       /\ mode = "exclusive" => \A u \in Threads : readers[l][u] = 0

Take(t, l, mode) ==
    IF mode = "exclusive"
    THEN writer' = [writer EXCEPT ![l][t] = @ + 1] /\ UNCHANGED readers
    ELSE readers' = [readers EXCEPT ![l][t] = @ + 1] /\ UNCHANGED writer

Drop(t, l, mode) ==
    IF mode = "exclusive"
    THEN writer' = [writer EXCEPT ![l][t] = @ - 1] /\ UNCHANGED readers
    ELSE readers' = [readers EXCEPT ![l][t] = @ - 1] /\ UNCHANGED writer

\* try_lock(), try_lock_shared(): did says whether the lock was taken.
TryTake(t, l, mode, did) ==
    /\ did <=> Free(t, l, mode)
    /\ IF did THEN Take(t, l, mode) ELSE UNCHANGED <<writer, readers>>

-----------------------------------------------------------------------------
\* Between the two unlocks of ~scoped_lock().
Leaving(t) == want[t] = NoCall /\ Cardinality(scoped[t].locked) = 1

\* The thread runs its own code.
Running(t) == want[t] = NoCall /\ ~Leaving(t)

\* The thread may call what blocks for lock l: it holds no other lock, and l
\* itself only if it is recursive.
MayBlock(t, l) ==
    /\ Running(t)
    /\ loose[t] \cup scoped[t].locked \cup {guard[t][s].mutex : s \in {r \in Slots : guard[t][r].owns}}
          \subseteq {l} \cap Recursive

MaySet(t, s) ==
    /\ guard[t][s] = Unused
    /\ Cardinality({r \in Slots : guard[t][r] # Unused}) < MaxGuards

Set(t, s, l, owns, mode) ==
    guard' = [guard EXCEPT ![t][s] = [mutex |-> l, owns |-> owns, mode |-> mode]]

Call(t, l, mode, s) ==
    want' = [want EXCEPT ![t] = [lock |-> l, mode |-> mode, slot |-> s]]

\* The guard exists, and its constructor is in lock() or lock_shared().
Construct(t, s, l, owns, mode) ==
    /\ MayBlock(t, l) /\ MaySet(t, s)
    /\ Set(t, s, l, owns, mode)
    /\ Call(t, l, mode, s)
    /\ UNCHANGED <<writer, readers, loose, scoped>>

\* unique_lock(m).
ConstructUnique(t, s, l) == s \in UniqueSlots /\ Construct(t, s, l, FALSE, "exclusive")

\* shared_lock(m) and write_lock(m) of an rwlock set owns_ before they lock.
ConstructShared(t, s, l) ==
    s \in RefSlots /\ l \notin Recursive /\ Construct(t, s, l, TRUE, "shared")
ConstructWrite(t, s, l) ==
    s \in RefSlots /\ l \notin Recursive /\ Construct(t, s, l, TRUE, "exclusive")

\* lock_guard(m), which unlocks in its destructor and in no other way.
ConstructPlain(t, s, l) == s \in PlainSlots /\ Construct(t, s, l, TRUE, "exclusive")

\* unique_lock(m, defer_lock).
ConstructDeferred(t, s, l) ==
    /\ Running(t) /\ MaySet(t, s) /\ s \in UniqueSlots
    /\ Set(t, s, l, FALSE, "exclusive")
    /\ UNCHANGED <<writer, readers, loose, scoped, want>>

\* unique_lock(m, try_to_lock).
ConstructTry(t, s, l) ==
    /\ Running(t) /\ MaySet(t, s) /\ s \in UniqueSlots
    /\ \E did \in BOOLEAN :
          TryTake(t, l, "exclusive", did) /\ Set(t, s, l, did, "exclusive")
    /\ UNCHANGED <<loose, scoped, want>>

\* A constructor with adopt_lock: the lock the thread holds is the guard's now.
Adopt(t, s, l) ==
    /\ Running(t) /\ MaySet(t, s)
    /\ l \in loose[t]
    /\ Set(t, s, l, TRUE, "exclusive")
    /\ loose' = [loose EXCEPT ![t] = @ \ {l}]
    /\ UNCHANGED <<writer, readers, scoped, want>>

ConstructAdopt(t, s, l) == s \in UniqueSlots /\ Adopt(t, s, l)
PlainAdopt(t, s, l) == s \in PlainSlots /\ Adopt(t, s, l)

\* What is in slot s is a shared_lock, or a write_lock.
IsShared(t, s) == s \in RefSlots /\ guard[t][s].mode = "shared"
IsWrite(t, s)  == s \in RefSlots /\ guard[t][s].mode = "exclusive"

\* lock() of a guard: without a lock object, or already owning, it returns.
Relock(t, s) ==
    LET g == guard[t][s] IN
    /\ MayBlock(t, g.mutex)
    /\ g.mutex # Null /\ ~g.owns
    /\ Call(t, g.mutex, g.mode, s)
    /\ UNCHANGED <<writer, readers, guard, loose, scoped>>

UniqueLock(t, s) == s \in UniqueSlots /\ Relock(t, s)
SharedLock(t, s) == IsShared(t, s) /\ Relock(t, s)
WriteLock(t, s)  == IsWrite(t, s) /\ Relock(t, s)

\* try_lock() of a guard.
TryRelock(t, s) ==
    LET g == guard[t][s] IN
    /\ Running(t)
    /\ g.mutex # Null /\ ~g.owns
    /\ \E did \in BOOLEAN :
          TryTake(t, g.mutex, g.mode, did) /\ guard' = [guard EXCEPT ![t][s].owns = did]
    /\ UNCHANGED <<loose, scoped, want>>

UniqueTryLock(t, s) == s \in UniqueSlots /\ TryRelock(t, s)
SharedTryLock(t, s) == IsShared(t, s) /\ TryRelock(t, s)
WriteTryLock(t, s)  == IsWrite(t, s) /\ TryRelock(t, s)

\* unlock() of a guard that owns its lock.
Unlock(t, s) ==
    LET g == guard[t][s] IN
    /\ Running(t)
    /\ g.owns
    /\ Drop(t, g.mutex, g.mode)
    /\ guard' = [guard EXCEPT ![t][s].owns = FALSE]
    /\ UNCHANGED <<loose, scoped, want>>

UniqueUnlock(t, s) == s \in UniqueSlots /\ Unlock(t, s)
SharedUnlock(t, s) == IsShared(t, s) /\ Unlock(t, s)
WriteUnlock(t, s)  == IsWrite(t, s) /\ Unlock(t, s)

\* release(): the caller has to unlock from here on.
GuardRelease(t, s) ==
    LET g == guard[t][s] IN
    /\ Running(t) /\ s \in UniqueSlots
    /\ g.mutex # Null
    /\ g.mutex \notin loose[t]
    /\ guard' = [guard EXCEPT ![t][s] = Unused]
    /\ loose' = IF g.owns THEN [loose EXCEPT ![t] = @ \cup {g.mutex}] ELSE loose
    /\ UNCHANGED <<writer, readers, scoped, want>>

\* What a guard that was moved from looks like: a unique_lock forgets its lock
\* object, a shared_lock or write_lock is bound to it by reference.
MovedFrom(s, g) ==
    IF s \in UniqueSlots THEN Unused ELSE [g EXCEPT !.owns = FALSE]

\* The move constructors.
MoveConstruct(t, s, d) ==
    LET g == guard[t][s] IN
    /\ Running(t) /\ MaySet(t, d)
    /\ g.mutex # Null
    /\ guard' = [guard EXCEPT ![t][d] = g, ![t][s] = MovedFrom(s, g)]
    /\ UNCHANGED <<writer, readers, loose, scoped, want>>

MoveUnique(t, s, d) == {s, d} \subseteq UniqueSlots /\ MoveConstruct(t, s, d)
MoveShared(t, s, d) == IsShared(t, s) /\ d \in RefSlots /\ MoveConstruct(t, s, d)
MoveWrite(t, s, d)  == IsWrite(t, s) /\ d \in RefSlots /\ MoveConstruct(t, s, d)

\* swap() of two unique_lock.
SwapGuards(t, s, d) ==
    /\ Running(t) /\ {s, d} \subseteq UniqueSlots /\ s # d
    /\ guard[t][s] # Unused /\ guard[t][d] # Unused
    /\ guard' = [guard EXCEPT ![t][s] = guard[t][d], ![t][d] = guard[t][s]]
    /\ UNCHANGED <<writer, readers, loose, scoped, want>>

\* Fault: the target of the assignment forgets the lock it owns.
MoveAssignForgets(t, s, d) ==
    LET g == guard[t][s]
        h == guard[t][d] IN
    /\ Running(t) /\ {s, d} \subseteq UniqueSlots /\ s # d
    /\ h.mutex # Null
    /\ guard' = [guard EXCEPT ![t][d] = g, ![t][s] = MovedFrom(s, g)]
    /\ UNCHANGED <<writer, readers, loose, scoped, want>>

\* unique_lock::operator=(unique_lock&&): the target unlocks what it owns.
MoveAssign(t, s, d) ==
    LET g == guard[t][s]
        h == guard[t][d] IN
    /\ Running(t) /\ {s, d} \subseteq UniqueSlots /\ s # d
    /\ h.mutex # Null
    /\ IF h.owns THEN Drop(t, h.mutex, h.mode) ELSE UNCHANGED <<writer, readers>>
    /\ guard' = [guard EXCEPT ![t][d] = g, ![t][s] = MovedFrom(s, g)]
    /\ UNCHANGED <<loose, scoped, want>>

\* The destructors.
Destroy(t, s) ==
    LET g == guard[t][s] IN
    /\ Running(t)
    /\ g.mutex # Null
    /\ IF g.owns THEN Drop(t, g.mutex, g.mode) ELSE UNCHANGED <<writer, readers>>
    /\ guard' = [guard EXCEPT ![t][s] = Unused]
    /\ UNCHANGED <<loose, scoped, want>>

\* ~lock_guard() unlocks in any case.
DestroyPlain(t, s) ==
    /\ Running(t) /\ s \in PlainSlots
    /\ guard[t][s] # Unused
    /\ Drop(t, guard[t][s].mutex, "exclusive")
    /\ guard' = [guard EXCEPT ![t][s] = Unused]
    /\ UNCHANGED <<loose, scoped, want>>

\* mutex::lock() and timed_mutex::try_lock_for() without a guard.
RawLock(t, l, how) ==
    /\ MayBlock(t, l)
    /\ l \notin loose[t]
    /\ Call(t, l, "exclusive", how)
    /\ UNCHANGED <<writer, readers, guard, loose, scoped>>

\* try_lock_for(): the time is over and the lock was not taken.
GiveUp(t) ==
    /\ want[t].slot = "timed"
    /\ want' = [want EXCEPT ![t] = NoCall]
    /\ UNCHANGED <<writer, readers, guard, loose, scoped>>

\* mutex::unlock() without a guard.
RawUnlock(t, l) ==
    /\ Running(t)
    /\ l \in loose[t]
    /\ Drop(t, l, "exclusive")
    /\ loose' = [loose EXCEPT ![t] = @ \ {l}]
    /\ UNCHANGED <<guard, scoped, want>>

\* Fault: the locks in the order of the arguments.
FirstOfArguments(m1, m2) == m1

\* scoped_lock(m1, m2) locks the lower address first.
First(m1, m2)  == IF m1 < m2 THEN m1 ELSE m2
Second(m1, m2) == IF First(m1, m2) = m1 THEN m2 ELSE m1

ConstructScoped(t, m1, m2) ==
    /\ MayBlock(t, Null)
    /\ scoped[t] = NoScope
    /\ m1 # m2
    /\ scoped' = [scoped EXCEPT ![t] = [m1 |-> m1, m2 |-> m2, locked |-> {}]]
    /\ Call(t, First(m1, m2), "exclusive", "scoped")
    /\ UNCHANGED <<writer, readers, guard, loose>>

\* ~scoped_lock(): m1_.unlock(), then m2_.unlock().
DestroyScopedFirst(t) ==
    LET c == scoped[t] IN
    /\ Running(t)
    /\ Cardinality(c.locked) = 2
    /\ Drop(t, c.m1, "exclusive")
    /\ scoped' = [scoped EXCEPT ![t].locked = {c.m2}]
    /\ UNCHANGED <<guard, loose, want>>

DestroyScopedSecond(t) ==
    /\ Leaving(t)
    /\ Drop(t, scoped[t].m2, "exclusive")
    /\ scoped' = [scoped EXCEPT ![t] = NoScope]
    /\ UNCHANGED <<guard, loose, want>>

-----------------------------------------------------------------------------
\* The lock a thread waits for is free: the blocking call takes it.
Granted(t) == want[t] # NoCall /\ Free(t, want[t].lock, want[t].mode)
              /\ Take(t, want[t].lock, want[t].mode)

\* lock(), try_lock_for() return to the client.
RawLockReturns(t) ==
    /\ want[t].slot \in {"raw", "timed"}
    /\ Granted(t)
    /\ loose' = [loose EXCEPT ![t] = @ \cup {want[t].lock}]
    /\ want' = [want EXCEPT ![t] = NoCall]
    /\ UNCHANGED <<guard, scoped>>

\* The guard's constructor or lock() sets owns_ and returns.
GuardLockReturns(t) ==
    /\ want[t].slot \in Slots
    /\ Granted(t)
    /\ guard' = [guard EXCEPT ![t][want[t].slot].owns = TRUE]
    /\ want' = [want EXCEPT ![t] = NoCall]
    /\ UNCHANGED <<loose, scoped>>

\* scoped_lock's constructor goes on to its second lock, then returns.
ScopedLockReturns(t) ==
    LET c == scoped[t] IN
    /\ want[t].slot = "scoped"
    /\ Granted(t)
    /\ scoped' = [scoped EXCEPT ![t].locked = @ \cup {want[t].lock}]
    /\ IF c.locked = {} THEN Call(t, Second(c.m1, c.m2), "exclusive", "scoped")
                        ELSE want' = [want EXCEPT ![t] = NoCall]
    /\ UNCHANGED <<guard, loose>>

Step(t) ==
    \/ \E s \in Slots, l \in Locks :
          \/ ConstructUnique(t, s, l) \/ ConstructShared(t, s, l) \/ ConstructWrite(t, s, l)
          \/ ConstructDeferred(t, s, l) \/ ConstructTry(t, s, l) \/ ConstructAdopt(t, s, l)
          \/ ConstructPlain(t, s, l) \/ PlainAdopt(t, s, l)
    \/ \E s \in Slots :
          \/ UniqueLock(t, s) \/ UniqueTryLock(t, s) \/ UniqueUnlock(t, s)
          \/ SharedLock(t, s) \/ SharedTryLock(t, s) \/ SharedUnlock(t, s)
          \/ WriteLock(t, s) \/ WriteTryLock(t, s) \/ WriteUnlock(t, s)
          \/ GuardRelease(t, s) \/ DestroyPlain(t, s)
          \/ s \notin PlainSlots /\ Destroy(t, s)
    \/ \E s, d \in Slots :
          \/ MoveUnique(t, s, d) \/ MoveShared(t, s, d) \/ MoveWrite(t, s, d)
          \/ MoveAssign(t, s, d) \/ SwapGuards(t, s, d)
    \/ \E l \in Locks : RawUnlock(t, l) \/ (\E how \in {"raw", "timed"} : RawLock(t, l, how))
    \/ \E m1, m2 \in Locks : ConstructScoped(t, m1, m2)
    \/ GiveUp(t) \/ DestroyScopedFirst(t) \/ DestroyScopedSecond(t)
    \/ RawLockReturns(t) \/ GuardLockReturns(t) \/ ScopedLockReturns(t)

Next == \E t \in Threads : Step(t)

Spec == Init /\ [][Next]_vars

-----------------------------------------------------------------------------
\* The guards of a thread that will unlock l: owns_ is set and its
\* constructor is over.
Owners(t, l, mode) ==
    {s \in Slots : /\ guard[t][s].mutex = l
                   /\ guard[t][s].mode = mode
                   /\ guard[t][s].owns
                   /\ want[t].slot # s}

\* Who is bound to unlock l, one element for each unlock() still to come.
Holders(l) ==
    {h \in Threads \X Slots : h[2] \in Owners(h[1], l, "exclusive")}
        \cup {<<t, "raw">> : t \in {u \in Threads : l \in loose[u]}}
        \cup {<<t, "scoped">> : t \in {u \in Threads : l \in scoped[u].locked}}

\* Whatever guards are moved, assigned, released, adopted, deferred or
\* destroyed: a lock is held exclusively exactly as often as there are guards
\* or callers bound to unlock it, all in the one thread that holds it, and
\* more than once only if it is recursive; and it is held shared as often as
\* there are guards to unlock it shared.  One too many would unlock twice, one
\* too few would leave it locked for ever.
HeldByOneOwner ==
    \A l \in Locks :
        /\ \A g, h \in Holders(l) : g = h \/ (g[1] = h[1] /\ l \in Recursive)
        /\ \A t \in Threads :
              /\ writer[l][t] = Cardinality({h \in Holders(l) : h[1] = t})
              /\ readers[l][t] = Cardinality(Owners(t, l, "shared"))

\* t waits for a lock that u holds.
WaitsFor(t, u) ==
    LET l == want[t].lock IN
    /\ want[t] # NoCall
    /\ ~Nested(t, l)
    /\ writer[l][u] > 0 \/ (want[t].mode = "exclusive" /\ readers[l][u] > 0)

\* No deadlock among clients that keep the rule: along every chain of threads
\* that wait for one another the addresses grow, so no chain closes.  This is
\* what scoped_lock's sorting by address is for.
WaitsClimb ==
    \A t, u, v \in Threads :
        WaitsFor(t, u) /\ WaitsFor(u, v) => want[t].lock < want[u].lock
=============================================================================
