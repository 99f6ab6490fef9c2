--------------------------- MODULE MCLocks_proofs ---------------------------
(***************************************************************************)
(* Proofs about the locks and what waits on them (MCLocks.tla), for every  *)
(* set of threads, locks, guards, handles and waiters: a lock is held by   *)
(* as many as are bound to unlock it, scoped_lock closes no cycle of       *)
(* waiting threads, and a wait ends for a reason.                          *)
(***************************************************************************)
EXTENDS MCLocks, FiniteSetTheorems, TLAPS

Guards == [mutex : Locks \cup {Null}, owns : BOOLEAN, mode : Modes]
Scopes == [m1 : Locks \cup {Null}, m2 : Locks \cup {Null}, locked : SUBSET Locks]
Requests == [lock : Locks \cup {Null}, mode : Modes, slot : Slots \cup NoSlots]

\* What a thread is bound to unlock: guards that own, lock() without a guard,
\* its scoped_lock.
Tokens == Slots \cup {"raw", "scoped"}
Bound(t, l, mode) ==
    {x \in Tokens : \/ x \in Slots /\ x \in Owners(t, l, mode)
                    \/ x = "raw" /\ mode = "exclusive" /\ l \in loose[t]
                    \/ x = "scoped" /\ mode = "exclusive" /\ l \in scoped[t].locked}

\* A lock is held as often as the thread is bound to unlock it.
Counted ==
    \A l \in Locks, t \in Threads :
        /\ writer[l][t] = Cardinality(Bound(t, l, "exclusive"))
        /\ readers[l][t] = Cardinality(Bound(t, l, "shared"))

\* What the pthread objects promise.
Excluded ==
    \A l \in Locks, t \in Threads :
        /\ writer[l][t] > 0 => \A u \in Threads : readers[l][u] = 0 /\ (u # t => writer[l][u] = 0)
        /\ writer[l][t] > 1 => l \in Recursive

\* A guard owns only a lock it is bound to; shared_lock and write_lock are for
\* an rwlock; a lock_guard that exists owns its lock.
GuardsRight(t) ==
    \A s \in Slots :
        /\ guard[t][s].mutex = Null => guard[t][s] = Unused
        /\ guard[t][s].mode = "shared" => s \in RefSlots
        /\ s \in RefSlots => guard[t][s].mutex \notin Recursive
        /\ s \in PlainSlots => guard[t][s] = Unused \/ guard[t][s].owns

\* A blocking call is for the lock of the guard that makes it.
CallsRight(t) ==
    /\ want[t].lock = Null \/ want[t].slot = "none" => want[t] = NoCall
    /\ want[t].slot \in Slots =>
          guard[t][want[t].slot].mutex = want[t].lock /\ guard[t][want[t].slot].mode = want[t].mode
    /\ want[t].mode = "shared" => want[t].slot \in RefSlots
    /\ want[t].slot \in {"raw", "timed"} => want[t].lock \notin loose[t]

\* How far the constructor or destructor of a scoped_lock is.
ScopesRight(t) ==
    \/ scoped[t] = NoScope /\ want[t].slot # "scoped"
    \/ LET c == scoped[t]
       IN /\ c.m1 \in Locks /\ c.m2 \in Locks /\ c.m1 # c.m2
          /\ \/ want[t].slot = "scoped" /\ c.locked = {} /\ want[t].lock = First(c.m1, c.m2)
             \/ want[t].slot = "scoped" /\ c.locked = {First(c.m1, c.m2)}
                /\ want[t].lock = Second(c.m1, c.m2)
             \/ want[t].slot # "scoped" /\ c.locked = {c.m1, c.m2}
             \/ want[t] = NoCall /\ c.locked = {c.m2}

\* Who is in a blocking call holds nothing else, but the same recursive_mutex
\* or the first lock of its scoped_lock.
WaitsAlone(t) ==
    want[t] # NoCall =>
        /\ \A l \in loose[t] : want[t].slot # "scoped" /\ l = want[t].lock /\ l \in Recursive
        /\ \A s \in Slots : guard[t][s].owns /\ s # want[t].slot =>
              want[t].slot # "scoped" /\ guard[t][s].mutex = want[t].lock /\ want[t].lock \in Recursive
        /\ want[t].slot # "scoped" => scoped[t].locked = {}

Right(t) == GuardsRight(t) /\ CallsRight(t) /\ ScopesRight(t) /\ WaitsAlone(t)

LockInv ==
    /\ TypeOK
    /\ Counted
    /\ Excluded
    /\ \A t \in Threads : Right(t)
-----------------------------------------------------------------------------
\* The types, variable by variable.
LEMMA Types ==
    ASSUME TypeOK
    PROVE  /\ writer \in [Locks -> [Threads -> Nat]] /\ readers \in [Locks -> [Threads -> Nat]]
           /\ guard \in [Threads -> [Slots -> Guards]] /\ loose \in [Threads -> SUBSET Locks]
           /\ scoped \in [Threads -> Scopes] /\ want \in [Threads -> Requests]
  BY DEF TypeOK, Guards, Scopes, Requests

\* What a thread is bound to unlock can be counted.
LEMMA FiniteBound ==
    \A t, l, mode : IsFiniteSet(Bound(t, l, mode)) /\ Cardinality(Bound(t, l, mode)) \in Nat
  <1>1. IsFiniteSet(Tokens)
    <2>1. IsFiniteSet({"raw", "scoped"})
      <3>1. IsFiniteSet({"raw"})
        BY FS_Singleton
      <3>2. IsFiniteSet({"raw"} \cup {"scoped"})
        BY <3>1, FS_AddElement
      <3> QED BY <3>2, {"raw"} \cup {"scoped"} = {"raw", "scoped"}
    <2> QED BY <2>1, SlotAssumption, FS_Union DEF Tokens
  <1> QED BY <1>1, FS_Subset, FS_CardinalityType DEF Bound

\* Two elements change places: the number stays.
LEMMA SameNumber ==
    ASSUME NEW A, NEW B, IsFiniteSet(A), NEW x, NEW y,
           \A z : z # x /\ z # y => (z \in B <=> z \in A),
           x \in B <=> y \in A, y \in B <=> x \in A
    PROVE  Cardinality(B) = Cardinality(A)
  <1>1. CASE x \in A <=> y \in A
    <2>1. A = B
      BY <1>1
    <2> QED BY <2>1
  <1>2. CASE x \in A /\ y \notin A
    <2>1. B = (A \ {x}) \cup {y}
      BY <1>2
    <2>2. Cardinality(A \ {x}) = Cardinality(A) - 1 /\ IsFiniteSet(A \ {x})
      BY <1>2, FS_RemoveElement
    <2>3. Cardinality((A \ {x}) \cup {y}) = Cardinality(A \ {x}) + 1
      BY <1>2, <2>2, FS_AddElement
    <2> QED BY <2>1, <2>2, <2>3, FS_CardinalityType
  <1>3. CASE y \in A /\ x \notin A
    <2>1. B = (A \ {y}) \cup {x}
      BY <1>3
    <2>2. Cardinality(A \ {y}) = Cardinality(A) - 1 /\ IsFiniteSet(A \ {y})
      BY <1>3, FS_RemoveElement
    <2>3. Cardinality((A \ {y}) \cup {x}) = Cardinality(A \ {y}) + 1
      BY <1>3, <2>2, FS_AddElement
    <2> QED BY <2>1, <2>2, <2>3, FS_CardinalityType
  <1> QED BY <1>1, <1>2, <1>3

-----------------------------------------------------------------------------
\* Only thread t does something, and it stays well-typed and Right.
Mine(t) ==
    /\ guard' \in [Threads -> [Slots -> Guards]] /\ loose' \in [Threads -> SUBSET Locks]
    /\ scoped' \in [Threads -> Scopes] /\ want' \in [Threads -> Requests]
    /\ \A u \in Threads : u # t =>
          guard'[u] = guard[u] /\ loose'[u] = loose[u] /\ scoped'[u] = scoped[u] /\ want'[u] = want[u]

\* The number of unlocks that thread t is bound to changes by d for lock l in
\* the mode given, and for no other.
Changes(t, l, mode, d) ==
    \A k \in Locks, m \in Modes :
        Cardinality(Bound(t, k, m)') = Cardinality(Bound(t, k, m)) + IF k = l /\ m = mode THEN d ELSE 0

\* A call of one thread leaves the guards and the calls of every other as they are.
LEMMA Others ==
    ASSUME LockInv, NEW t \in Threads, Mine(t), NEW u \in Threads, u # t
    PROVE  Right(u)' /\ \A l, mode : Bound(u, l, mode)' = Bound(u, l, mode)
  <1>1. guard'[u] = guard[u] /\ loose'[u] = loose[u] /\ scoped'[u] = scoped[u] /\ want'[u] = want[u]
    BY DEF Mine
  <1>2. Right(u)'
    <2>1. GuardsRight(u)' /\ CallsRight(u)'
      BY <1>1 DEF LockInv, Right, GuardsRight, CallsRight
    <2>2. ScopesRight(u)'
      BY <1>1 DEF LockInv, Right, ScopesRight
    <2>3. WaitsAlone(u)'
      BY <1>1 DEF LockInv, Right, WaitsAlone
    <2> QED BY <2>1, <2>2, <2>3 DEF Right
  <1> QED BY <1>1, <1>2 DEF Bound, Owners

\* No lock changes hands.
LEMMA KeepsLocks ==
    ASSUME LockInv, NEW t \in Threads, Mine(t), Right(t)', UNCHANGED <<writer, readers>>,
           \A k \in Locks, m \in Modes : Cardinality(Bound(t, k, m)') = Cardinality(Bound(t, k, m))
    PROVE  LockInv'
  <1>1. TypeOK'
    BY DEF LockInv, TypeOK, Mine, Guards, Scopes, Requests
  <1>2. Counted'
    <2> SUFFICES ASSUME NEW l \in Locks, NEW u \in Threads
                 PROVE  /\ writer'[l][u] = Cardinality(Bound(u, l, "exclusive")')
                        /\ readers'[l][u] = Cardinality(Bound(u, l, "shared")')
      BY DEF Counted
    <2>1. CASE u = t
      BY <2>1 DEF LockInv, Counted, Modes
    <2>2. CASE u # t
      BY <2>2, Others DEF LockInv, Counted
    <2> QED BY <2>1, <2>2
  <1>3. Excluded'
    BY DEF LockInv, Excluded
  <1> QED BY <1>1, <1>2, <1>3, Others DEF LockInv

\* A free lock is taken.
LEMMA TakesLock ==
    ASSUME LockInv, NEW t \in Threads, Mine(t), Right(t)', NEW l \in Locks, NEW mode \in Modes,
           Free(t, l, mode), Take(t, l, mode), mode = "shared" => l \notin Recursive,
           Changes(t, l, mode, 1)
    PROVE  LockInv'
  <1>1. \A k \in Locks, u \in Threads :
           /\ writer'[k][u] = IF k = l /\ u = t /\ mode = "exclusive" THEN writer[k][u] + 1 ELSE writer[k][u]
           /\ readers'[k][u] = IF k = l /\ u = t /\ mode = "shared" THEN readers[k][u] + 1 ELSE readers[k][u]
    BY Types DEF LockInv, Take, Modes
  <1>2. writer' \in [Locks -> [Threads -> Nat]] /\ readers' \in [Locks -> [Threads -> Nat]]
    <2>1. CASE mode = "exclusive"
      <3>1. [writer[l] EXCEPT ![t] = @ + 1] \in [Threads -> Nat]
        BY Types DEF LockInv
      <3>2. writer' = [writer EXCEPT ![l] = [writer[l] EXCEPT ![t] = @ + 1]] /\ readers' = readers
        BY <2>1 DEF Take
      <3> QED BY <3>1, <3>2, Types DEF LockInv
    <2>2. CASE mode = "shared"
      <3>1. [readers[l] EXCEPT ![t] = @ + 1] \in [Threads -> Nat]
        BY Types DEF LockInv
      <3>2. readers' = [readers EXCEPT ![l] = [readers[l] EXCEPT ![t] = @ + 1]] /\ writer' = writer
        BY <2>2 DEF Take
      <3> QED BY <3>1, <3>2, Types DEF LockInv
    <2> QED BY <2>1, <2>2 DEF Modes
  <1>3. TypeOK'
    BY <1>2 DEF TypeOK, Mine, Guards, Scopes, Requests
  <1>4. Counted'
    <2> SUFFICES ASSUME NEW k \in Locks, NEW u \in Threads
                 PROVE  /\ writer'[k][u] = Cardinality(Bound(u, k, "exclusive")')
                        /\ readers'[k][u] = Cardinality(Bound(u, k, "shared")')
      BY DEF Counted
    <2>1. CASE u = t
      BY <2>1, <1>1, FiniteBound DEF LockInv, Counted, Modes, Changes
    <2>2. CASE u # t
      BY <2>2, <1>1, Others DEF LockInv, Counted
    <2> QED BY <2>1, <2>2
  <1>5. Excluded'
    <2>1. CASE mode = "exclusive"
      BY <2>1, <1>1, Types DEF LockInv, Excluded, Free, Nested
    <2>2. CASE mode = "shared"
      BY <2>2, <1>1, Types DEF LockInv, Excluded, Free, Nested
    <2> QED BY <2>1, <2>2 DEF Modes
  <1> QED BY <1>3, <1>4, <1>5, Others DEF LockInv

\* A lock that the thread holds is given back.
LEMMA DropsLock ==
    ASSUME LockInv, NEW t \in Threads, Mine(t), Right(t)', NEW l \in Locks, NEW mode \in Modes,
           Bound(t, l, mode) # {}, Drop(t, l, mode), Changes(t, l, mode, -1)
    PROVE  LockInv'
  <1>1. \A k \in Locks, u \in Threads :
           /\ writer'[k][u] = IF k = l /\ u = t /\ mode = "exclusive" THEN writer[k][u] - 1 ELSE writer[k][u]
           /\ readers'[k][u] = IF k = l /\ u = t /\ mode = "shared" THEN readers[k][u] - 1 ELSE readers[k][u]
    BY Types DEF LockInv, Drop, Modes
  <1>2. Cardinality(Bound(t, l, mode)) \in Nat \ {0}
    BY FiniteBound, FS_EmptySet
  <1>3. writer' \in [Locks -> [Threads -> Nat]] /\ readers' \in [Locks -> [Threads -> Nat]]
    <2>1. CASE mode = "exclusive"
      <3>1. writer[l][t] - 1 \in Nat
        BY <2>1, <1>2 DEF LockInv, Counted
      <3>2. [writer[l] EXCEPT ![t] = @ - 1] \in [Threads -> Nat]
        BY <3>1, Types DEF LockInv
      <3>3. writer' = [writer EXCEPT ![l] = [writer[l] EXCEPT ![t] = @ - 1]] /\ readers' = readers
        BY <2>1 DEF Drop
      <3> QED BY <3>2, <3>3, Types DEF LockInv
    <2>2. CASE mode = "shared"
      <3>1. readers[l][t] - 1 \in Nat
        BY <2>2, <1>2 DEF LockInv, Counted
      <3>2. [readers[l] EXCEPT ![t] = @ - 1] \in [Threads -> Nat]
        BY <3>1, Types DEF LockInv
      <3>3. readers' = [readers EXCEPT ![l] = [readers[l] EXCEPT ![t] = @ - 1]] /\ writer' = writer
        BY <2>2 DEF Drop
      <3> QED BY <3>2, <3>3, Types DEF LockInv
    <2> QED BY <2>1, <2>2 DEF Modes
  <1>4. TypeOK'
    BY <1>3 DEF TypeOK, Mine, Guards, Scopes, Requests
  <1>5. Counted'
    <2> SUFFICES ASSUME NEW k \in Locks, NEW u \in Threads
                 PROVE  /\ writer'[k][u] = Cardinality(Bound(u, k, "exclusive")')
                        /\ readers'[k][u] = Cardinality(Bound(u, k, "shared")')
      BY DEF Counted
    <2>1. CASE u = t
      BY <2>1, <1>1, FiniteBound DEF LockInv, Counted, Modes, Changes
    <2>2. CASE u # t
      BY <2>2, <1>1, Others DEF LockInv, Counted
    <2> QED BY <2>1, <2>2
  <1>6. Excluded'
    <2>1. \A k \in Locks, u \in Threads : writer'[k][u] <= writer[k][u] /\ readers'[k][u] <= readers[k][u]
      BY <1>1, Types DEF LockInv
    <2>2. \A k \in Locks, u \in Threads : /\ writer'[k][u] \in Nat /\ readers'[k][u] \in Nat
                                          /\ writer[k][u] \in Nat /\ readers[k][u] \in Nat
      BY <1>3, Types DEF LockInv
    <2> QED BY <2>1, <2>2 DEF LockInv, Excluded
  <1> QED BY <1>4, <1>5, <1>6, Others DEF LockInv
-----------------------------------------------------------------------------
\* What a thread is bound to unlock, one by one, before and after a step.
LEMMA BoundOf ==
    ASSUME NEW t, NEW k, NEW m
    PROVE  /\ \A s \in Slots : s \in Bound(t, k, m) <=>
                 guard[t][s].mutex = k /\ guard[t][s].mode = m /\ guard[t][s].owns /\ want[t].slot # s
           /\ "raw" \in Bound(t, k, m) <=> m = "exclusive" /\ k \in loose[t]
           /\ "scoped" \in Bound(t, k, m) <=> m = "exclusive" /\ k \in scoped[t].locked
           /\ \A s \in Slots : s \in Bound(t, k, m)' <=>
                 guard'[t][s].mutex = k /\ guard'[t][s].mode = m /\ guard'[t][s].owns /\ want'[t].slot # s
           /\ "raw" \in Bound(t, k, m)' <=> m = "exclusive" /\ k \in loose'[t]
           /\ "scoped" \in Bound(t, k, m)' <=> m = "exclusive" /\ k \in scoped'[t].locked
  <1>1. "raw" \notin Slots /\ "scoped" \notin Slots /\ "raw" # "scoped"
    BY SlotAssumption DEF NoSlots
  <1> QED BY <1>1 DEF Bound, Owners, Tokens

\* The thread is bound to unlock the same locks, through the same guards.
LEMMA SameBound ==
    ASSUME NEW t, \A k \in Locks, m \in Modes, z \in Tokens : z \in Bound(t, k, m)' <=> z \in Bound(t, k, m)
    PROVE  \A k \in Locks, m \in Modes : Cardinality(Bound(t, k, m)') = Cardinality(Bound(t, k, m))
  <1> SUFFICES ASSUME NEW k \in Locks, NEW m \in Modes PROVE Bound(t, k, m)' = Bound(t, k, m)
    OBVIOUS
  <1>1. Bound(t, k, m) \subseteq Tokens /\ Bound(t, k, m)' \subseteq Tokens
    BY DEF Bound, Tokens
  <1> QED BY <1>1

\* It is bound to unlock one more, or one less.
LEMMA Gains ==
    ASSUME NEW t, NEW l \in Locks, NEW mode \in Modes, NEW x \in Tokens,
           x \notin Bound(t, l, mode), x \in Bound(t, l, mode)',
           \A k \in Locks, m \in Modes, z \in Tokens :
               z # x \/ k # l \/ m # mode => (z \in Bound(t, k, m)' <=> z \in Bound(t, k, m))
    PROVE  Changes(t, l, mode, 1)
  <1> SUFFICES ASSUME NEW k \in Locks, NEW m \in Modes
               PROVE  Cardinality(Bound(t, k, m)') = Cardinality(Bound(t, k, m))
                                                      + IF k = l /\ m = mode THEN 1 ELSE 0
    BY DEF Changes
  <1>1. Bound(t, k, m) \subseteq Tokens /\ Bound(t, k, m)' \subseteq Tokens
    BY DEF Bound, Tokens
  <1>2. CASE k = l /\ m = mode
    <2>1. Bound(t, k, m)' = Bound(t, k, m) \cup {x}
      BY <1>1, <1>2
    <2> QED BY <2>1, <1>2, FiniteBound, FS_AddElement
  <1>3. CASE ~(k = l /\ m = mode)
    <2>1. Bound(t, k, m)' = Bound(t, k, m)
      BY <1>1, <1>3
    <2> QED BY <2>1, <1>3, FiniteBound
  <1> QED BY <1>2, <1>3

\* A thread that gives up one token of a lock changes the count of that lock by one.
LEMMA Loses ==
    ASSUME NEW t, NEW l \in Locks, NEW mode \in Modes, NEW x \in Tokens,
           x \in Bound(t, l, mode), x \notin Bound(t, l, mode)',
           \A k \in Locks, m \in Modes, z \in Tokens :
               z # x \/ k # l \/ m # mode => (z \in Bound(t, k, m)' <=> z \in Bound(t, k, m))
    PROVE  Changes(t, l, mode, -1)
  <1> SUFFICES ASSUME NEW k \in Locks, NEW m \in Modes
               PROVE  Cardinality(Bound(t, k, m)') = Cardinality(Bound(t, k, m))
                                                      + IF k = l /\ m = mode THEN -1 ELSE 0
    BY DEF Changes
  <1>1. Bound(t, k, m) \subseteq Tokens /\ Bound(t, k, m)' \subseteq Tokens
    BY DEF Bound, Tokens
  <1>2. CASE k = l /\ m = mode
    <2>1. Bound(t, k, m)' = Bound(t, k, m) \ {x}
      BY <1>1, <1>2
    <2> QED BY <2>1, <1>2, FiniteBound, FS_RemoveElement
  <1>3. CASE ~(k = l /\ m = mode)
    <2>1. Bound(t, k, m)' = Bound(t, k, m)
      BY <1>1, <1>3
    <2> QED BY <2>1, <1>3, FiniteBound
  <1> QED BY <1>2, <1>3

\* An assignment to one guard.
LEMMA OneGuard ==
    ASSUME LockInv, NEW t \in Threads, NEW s \in Slots, NEW g \in Guards,
           guard' = [guard EXCEPT ![t][s] = g]
    PROVE  /\ guard' \in [Threads -> [Slots -> Guards]]
           /\ guard'[t][s] = g /\ \A r \in Slots : r # s => guard'[t][r] = guard[t][r]
           /\ \A u \in Threads : u # t => guard'[u] = guard[u]
  <1>1. [guard[t] EXCEPT ![s] = g] \in [Slots -> Guards]
    BY Types DEF LockInv
  <1>2. guard' = [guard EXCEPT ![t] = [guard[t] EXCEPT ![s] = g]]
    OBVIOUS
  <1> QED BY <1>1, <1>2, Types DEF LockInv

\* A set of two different things has two members.
LEMMA PairSize ==
    ASSUME NEW a, NEW b, a # b
    PROVE  Cardinality({a, b}) = 2
  <1>1. IsFiniteSet({a}) /\ Cardinality({a}) = 1
    BY FS_Singleton
  <1>2. Cardinality({a} \cup {b}) = Cardinality({a}) + 1
    BY <1>1, FS_AddElement
  <1>3. {a} \cup {b} = {a, b}
    OBVIOUS
  <1> QED BY <1>1, <1>2, <1>3

\* The scoped_lock of a thread that runs its own code.
LEMMA ScopeAtRest ==
    ASSUME LockInv, NEW t \in Threads, want[t] = NoCall
    PROVE  LET c == scoped[t] IN
           /\ want[t].slot = "none" /\ want[t].slot \notin Slots
           /\ \/ c = NoScope /\ c.locked = {} /\ Cardinality(c.locked) = 0
              \/ /\ c.m1 \in Locks /\ c.m2 \in Locks /\ c.m1 # c.m2
                 /\ \/ c.locked = {c.m1, c.m2} /\ Cardinality(c.locked) = 2
                    \/ c.locked = {c.m2} /\ Cardinality(c.locked) = 1
  <1>1. want[t].slot = "none" /\ want[t].slot \notin Slots
    BY SlotAssumption DEF NoCall, NoSlots
  <1>2. CASE scoped[t] = NoScope
    BY <1>1, <1>2, FS_EmptySet DEF NoScope
  <1>3. CASE scoped[t] # NoScope
    <2> DEFINE c == scoped[t]
    <2>1. /\ c.m1 \in Locks /\ c.m2 \in Locks /\ c.m1 # c.m2
          /\ c.locked = {c.m1, c.m2} \/ c.locked = {c.m2}
      BY <1>1, <1>3 DEF LockInv, Right, ScopesRight
    <2>2. Cardinality({c.m2}) = 1
      BY FS_Singleton
    <2>3. Cardinality({c.m1, c.m2}) = 2
      BY <2>1, PairSize
    <2> QED BY <1>1, <2>1, <2>2, <2>3
  <1> QED BY <1>2, <1>3

\* Who may call what blocks for lock l holds nothing else.
LEMMA BlocksAlone ==
    ASSUME LockInv, NEW t \in Threads, NEW l, MayBlock(t, l)
    PROVE  /\ want[t] = NoCall /\ scoped[t] = NoScope
           /\ \A k \in loose[t] : k = l /\ l \in Recursive
           /\ \A s \in Slots : guard[t][s].owns => guard[t][s].mutex = l /\ l \in Recursive
  <1>1. want[t] = NoCall /\ Cardinality(scoped[t].locked) # 1
    BY DEF MayBlock, Running, Leaving
  <1>2. scoped[t].locked \subseteq {l}
    BY DEF MayBlock
  <1>3. scoped[t] = NoScope
    BY <1>1, <1>2, ScopeAtRest
  <1> QED BY <1>1, <1>3 DEF MayBlock
-----------------------------------------------------------------------------
\* The guards' constructors, and lock().
LEMMA ConstructKeeps ==
    ASSUME LockInv, NEW t \in Threads, NEW s \in Slots, NEW l \in Locks, NEW owns \in BOOLEAN,
           NEW mode \in Modes, Construct(t, s, l, owns, mode),
           s \in PlainSlots => owns, mode = "shared" => s \in RefSlots, s \in RefSlots => l \notin Recursive
    PROVE  LockInv'
  <1> DEFINE g == [mutex |-> l, owns |-> owns, mode |-> mode]
  <1>1. g \in Guards /\ guard' = [guard EXCEPT ![t][s] = g]
    BY DEF Construct, Set, Guards
  <1>2. /\ guard' \in [Threads -> [Slots -> Guards]] /\ guard'[t][s] = g
        /\ \A r \in Slots : r # s => guard'[t][r] = guard[t][r]
        /\ \A u \in Threads : u # t => guard'[u] = guard[u]
    BY <1>1, OneGuard
  <1>3. /\ want' \in [Threads -> Requests]
        /\ want'[t] = [lock |-> l, mode |-> mode, slot |-> s]
        /\ \A u \in Threads : u # t => want'[u] = want[u]
    <2>1. [lock |-> l, mode |-> mode, slot |-> s] \in Requests
      BY DEF Requests
    <2> QED BY <2>1, Types DEF LockInv, Construct, Call
  <1>4. UNCHANGED <<writer, readers, loose, scoped>>
    BY DEF Construct
  <1>5. Mine(t)
    BY <1>2, <1>3, <1>4, Types DEF LockInv, Mine
  <1>6. guard[t][s] = Unused /\ ~guard[t][s].owns /\ l # Null
    BY AddressAssumption DEF Construct, MaySet, Unused
  <1>7. /\ want[t] = NoCall /\ scoped[t] = NoScope
        /\ \A k \in loose[t] : k = l /\ l \in Recursive
        /\ \A r \in Slots : guard[t][r].owns => guard[t][r].mutex = l /\ l \in Recursive
    BY BlocksAlone DEF Construct
  <1>8. s \notin NoSlots /\ s # "scoped" /\ s # "none" /\ s # "raw" /\ s # "timed"
    BY SlotAssumption DEF NoSlots
  <1>9. Right(t)'
    <2>1. GuardsRight(t)'
      BY <1>2, <1>6 DEF LockInv, Right, GuardsRight
    <2>2. CallsRight(t)'
      BY <1>2, <1>3, <1>6, <1>8 DEF CallsRight
    <2>3. ScopesRight(t)'
      BY <1>3, <1>4, <1>7, <1>8 DEF ScopesRight
    <2>4. WaitsAlone(t)'
      BY <1>2, <1>3, <1>4, <1>7, <1>8 DEF WaitsAlone, NoScope
    <2> QED BY <2>1, <2>2, <2>3, <2>4 DEF Right
  <1>10. want[t].slot \notin Slots
    BY <1>7, ScopeAtRest
  <1>11. \A k \in Locks, m \in Modes, z \in Tokens : z \in Bound(t, k, m)' <=> z \in Bound(t, k, m)
    BY <1>2, <1>3, <1>4, <1>6, <1>10, BoundOf DEF Tokens
  <1> QED BY <1>4, <1>5, <1>9, <1>11, SameBound, KeepsLocks

\* lock() of a guard that does not own: the guard waits for its lock.
LEMMA RelockKeeps ==
    ASSUME LockInv, NEW t \in Threads, NEW s \in Slots, Relock(t, s)
    PROVE  LockInv'
  <1> DEFINE g == guard[t][s]
  <1>1. g \in Guards /\ g.mutex # Null /\ ~g.owns
    BY Types DEF LockInv, Relock
  <1>2. UNCHANGED <<writer, readers, guard, loose, scoped>>
    BY DEF Relock
  <1>3. /\ want' \in [Threads -> Requests]
        /\ want'[t] = [lock |-> g.mutex, mode |-> g.mode, slot |-> s]
        /\ \A u \in Threads : u # t => want'[u] = want[u]
    <2>1. [lock |-> g.mutex, mode |-> g.mode, slot |-> s] \in Requests
      BY <1>1 DEF Requests, Guards
    <2> QED BY <2>1, Types DEF LockInv, Relock, Call
  <1>4. Mine(t)
    BY <1>2, <1>3, Types DEF LockInv, Mine
  <1>5. /\ want[t] = NoCall /\ scoped[t] = NoScope
        /\ \A k \in loose[t] : k = g.mutex /\ g.mutex \in Recursive
        /\ \A r \in Slots : guard[t][r].owns => guard[t][r].mutex = g.mutex /\ g.mutex \in Recursive
    BY BlocksAlone DEF Relock
  <1>6. s \notin NoSlots /\ s # "scoped" /\ s # "none" /\ s # "raw" /\ s # "timed"
    BY SlotAssumption DEF NoSlots
  <1>7. Right(t)'
    <2>1. GuardsRight(t)'
      BY <1>2 DEF LockInv, Right, GuardsRight
    <2>2. CallsRight(t)'
      BY <1>1, <1>2, <1>3, <1>6 DEF CallsRight, LockInv, Right, GuardsRight
    <2>3. ScopesRight(t)'
      BY <1>2, <1>3, <1>5, <1>6 DEF ScopesRight
    <2>4. WaitsAlone(t)'
      BY <1>2, <1>3, <1>5, <1>6 DEF WaitsAlone, NoScope
    <2> QED BY <2>1, <2>2, <2>3, <2>4 DEF Right
  <1>8. want[t].slot \notin Slots
    BY <1>5, ScopeAtRest
  <1>9. \A k \in Locks, m \in Modes, z \in Tokens : z \in Bound(t, k, m)' <=> z \in Bound(t, k, m)
    BY <1>1, <1>2, <1>3, <1>8, BoundOf DEF Tokens
  <1> QED BY <1>2, <1>4, <1>7, <1>9, SameBound, KeepsLocks

\* lock() of a lock itself, or its timed form: the thread waits for it.
LEMMA RawLockKeeps ==
    ASSUME LockInv, NEW t \in Threads, NEW l \in Locks, NEW how \in {"raw", "timed"}, RawLock(t, l, how)
    PROVE  LockInv'
  <1>1. UNCHANGED <<writer, readers, guard, loose, scoped>> /\ l # Null
    BY AddressAssumption DEF RawLock
  <1>2. /\ want' \in [Threads -> Requests]
        /\ want'[t] = [lock |-> l, mode |-> "exclusive", slot |-> how]
        /\ \A u \in Threads : u # t => want'[u] = want[u]
    <2>1. [lock |-> l, mode |-> "exclusive", slot |-> how] \in Requests
      BY DEF Requests, Modes, NoSlots
    <2> QED BY <2>1, Types DEF LockInv, RawLock, Call
  <1>3. Mine(t)
    BY <1>1, <1>2, Types DEF LockInv, Mine
  <1>4. /\ want[t] = NoCall /\ scoped[t] = NoScope
        /\ \A k \in loose[t] : k = l /\ l \in Recursive
        /\ \A r \in Slots : guard[t][r].owns => guard[t][r].mutex = l /\ l \in Recursive
    BY BlocksAlone DEF RawLock
  <1>5. how \notin Slots /\ how # "scoped" /\ how # "none" /\ want[t].slot \notin Slots
    BY <1>4, ScopeAtRest, SlotAssumption DEF NoSlots
  <1>6. Right(t)'
    <2>1. GuardsRight(t)'
      BY <1>1 DEF LockInv, Right, GuardsRight
    <2>2. CallsRight(t)'
      BY <1>1, <1>2, <1>5 DEF CallsRight, RawLock
    <2>3. ScopesRight(t)'
      BY <1>1, <1>2, <1>4, <1>5 DEF ScopesRight
    <2>4. WaitsAlone(t)'
      BY <1>1, <1>2, <1>4, <1>5 DEF WaitsAlone, NoScope
    <2> QED BY <2>1, <2>2, <2>3, <2>4 DEF Right
  <1>7. \A k \in Locks, m \in Modes, z \in Tokens : z \in Bound(t, k, m)' <=> z \in Bound(t, k, m)
    BY <1>1, <1>2, <1>5, BoundOf DEF Tokens
  <1> QED BY <1>1, <1>3, <1>6, <1>7, SameBound, KeepsLocks

\* try_lock_for() gives up.
LEMMA GiveUpKeeps ==
    ASSUME LockInv, NEW t \in Threads, GiveUp(t)
    PROVE  LockInv'
  <1>1. UNCHANGED <<writer, readers, guard, loose, scoped>>
    BY DEF GiveUp
  <1>2. NoCall \in Requests /\ NoCall.slot = "none" /\ NoCall.mode = "exclusive" /\ "none" \notin Slots
    BY SlotAssumption DEF NoCall, Requests, Modes, NoSlots
  <1>3. /\ want' \in [Threads -> Requests] /\ want'[t] = NoCall
        /\ \A u \in Threads : u # t => want'[u] = want[u]
    BY <1>2, Types DEF LockInv, GiveUp
  <1>4. Mine(t)
    BY <1>1, <1>3, Types DEF LockInv, Mine
  <1>5. want[t].slot = "timed" /\ "timed" \notin Slots
    BY SlotAssumption DEF NoSlots, GiveUp
  <1>6. Right(t)'
    <2>1. GuardsRight(t)'
      BY <1>1 DEF LockInv, Right, GuardsRight
    <2>2. CallsRight(t)'
      BY <1>2, <1>3 DEF CallsRight
    <2>3. ScopesRight(t)'
      <3>1. want[t] # NoCall
        BY <1>2, <1>5
      <3>2. scoped[t].locked = {}
        BY <1>5, <3>1 DEF LockInv, Right, WaitsAlone
      <3>3. scoped[t] = NoScope
        BY <1>5, <3>1, <3>2 DEF LockInv, Right, ScopesRight
      <3> QED BY <1>1, <1>2, <1>3, <3>3 DEF ScopesRight
    <2>4. WaitsAlone(t)'
      BY <1>3 DEF WaitsAlone
    <2> QED BY <2>1, <2>2, <2>3, <2>4 DEF Right
  <1>7. \A k \in Locks, m \in Modes, z \in Tokens : z \in Bound(t, k, m)' <=> z \in Bound(t, k, m)
    BY <1>1, <1>2, <1>3, <1>5, BoundOf DEF Tokens
  <1> QED BY <1>1, <1>4, <1>6, <1>7, SameBound, KeepsLocks

-----------------------------------------------------------------------------
\* What may stand in slot s.
Fits(s, g) ==
    /\ g \in Guards
    /\ g.mutex = Null => g = Unused
    /\ g.mode = "shared" => s \in RefSlots
    /\ s \in RefSlots => g.mutex \notin Recursive
    /\ s \in PlainSlots => g = Unused \/ g.owns

\* Guards and loose locks of a thread that runs its own code.
LEMMA OwnCode ==
    ASSUME LockInv, NEW t \in Threads, want[t] = NoCall, UNCHANGED <<scoped, want>>,
           guard' \in [Threads -> [Slots -> Guards]], loose' \in [Threads -> SUBSET Locks],
           \A u \in Threads : u # t => guard'[u] = guard[u] /\ loose'[u] = loose[u],
           \A s \in Slots : Fits(s, guard'[t][s])
    PROVE  Mine(t) /\ Right(t)'
  <1>1. Mine(t)
    BY Types DEF LockInv, Mine
  <1>2. GuardsRight(t)'
    BY DEF Fits, GuardsRight
  <1>3. want'[t] = NoCall
    OBVIOUS
  <1>4. CallsRight(t)'
    BY <1>3, SlotAssumption DEF CallsRight, NoCall, NoSlots
  <1>5. ScopesRight(t)'
    BY DEF LockInv, Right, ScopesRight
  <1>6. WaitsAlone(t)'
    BY <1>3 DEF WaitsAlone
  <1> QED BY <1>1, <1>2, <1>4, <1>5, <1>6 DEF Right

\* Each guard fits its class.
LEMMA FitsNow ==
    ASSUME LockInv, NEW t \in Threads, NEW s \in Slots
    PROVE  Fits(s, guard[t][s])
  BY Types DEF LockInv, Right, GuardsRight, Fits

\* A guard that was not constructed fits every class and owns nothing.
LEMMA UnusedFits == \A s \in Slots : Fits(s, Unused) /\ ~Unused.owns
  BY AddressAssumption DEF Fits, Guards, Unused, Modes, Null

\* What it is bound to unlock, when slot s gets the value g.
Sets(t, s, g) ==
    \A k \in Locks, m \in Modes :
        /\ s \in Bound(t, k, m)' <=> g.mutex = k /\ g.mode = m /\ g.owns
        /\ s \in Bound(t, k, m) <=> guard[t][s].mutex = k /\ guard[t][s].mode = m /\ guard[t][s].owns
        /\ "raw" \in Bound(t, k, m)' <=> m = "exclusive" /\ k \in loose'[t]
        /\ "raw" \in Bound(t, k, m) <=> m = "exclusive" /\ k \in loose[t]
        /\ \A z \in Tokens : z # s /\ z # "raw" => (z \in Bound(t, k, m)' <=> z \in Bound(t, k, m))

\* A call that assigns one guard of the thread.
LEMMA SetsGuard ==
    ASSUME LockInv, NEW t \in Threads, want[t] = NoCall, UNCHANGED <<scoped, want>>,
           NEW s \in Slots, NEW g, Fits(s, g), guard' = [guard EXCEPT ![t][s] = g],
           loose' \in [Threads -> SUBSET Locks], \A u \in Threads : u # t => loose'[u] = loose[u]
    PROVE  Mine(t) /\ Right(t)' /\ Sets(t, s, g) /\ s \in Tokens /\ "raw" \in Tokens /\ s # "raw"
  <1>1. /\ guard' \in [Threads -> [Slots -> Guards]] /\ guard'[t][s] = g
        /\ \A r \in Slots : r # s => guard'[t][r] = guard[t][r]
        /\ \A u \in Threads : u # t => guard'[u] = guard[u]
    <2>1. g \in Guards
      BY DEF Fits
    <2> QED BY <2>1, OneGuard
  <1>2. \A r \in Slots : Fits(r, guard'[t][r])
    BY <1>1, FitsNow
  <1>3. Mine(t) /\ Right(t)'
    BY <1>1, <1>2, OwnCode
  <1>4. want[t].slot \notin Slots /\ want'[t].slot \notin Slots
    BY ScopeAtRest
  <1>5. s # "raw" /\ "raw" \in Tokens /\ s \in Tokens /\ s # "scoped"
    BY SlotAssumption DEF NoSlots, Tokens
  <1>6. Sets(t, s, g)
    BY <1>1, <1>4, <1>5, BoundOf DEF Tokens, Sets
  <1> QED BY <1>3, <1>5, <1>6

\* The guard that did not own its lock owns it: try_lock() took it.
LEMMA TakesGuard ==
    ASSUME LockInv, NEW t \in Threads, want[t] = NoCall, UNCHANGED <<loose, scoped, want>>,
           NEW s \in Slots, NEW g, Fits(s, g), g.owns, g.mutex # Null, ~guard[t][s].owns,
           guard' = [guard EXCEPT ![t][s] = g],
           Free(t, g.mutex, g.mode), Take(t, g.mutex, g.mode)
    PROVE  LockInv'
  <1>1. g.mutex \in Locks /\ g.mode \in Modes /\ (g.mode = "shared" => g.mutex \notin Recursive)
    BY DEF Fits, Guards
  <1>2. loose' \in [Threads -> SUBSET Locks] /\ \A u \in Threads : u # t => loose'[u] = loose[u]
    BY Types DEF LockInv
  <1>3. Mine(t) /\ Right(t)' /\ Sets(t, s, g) /\ s \in Tokens
    BY <1>2, SetsGuard
  <1>4. /\ s \notin Bound(t, g.mutex, g.mode) /\ s \in Bound(t, g.mutex, g.mode)'
        /\ \A k \in Locks, m \in Modes, z \in Tokens :
              z # s \/ k # g.mutex \/ m # g.mode => (z \in Bound(t, k, m)' <=> z \in Bound(t, k, m))
    BY <1>1, <1>3 DEF Sets
  <1>5. Changes(t, g.mutex, g.mode, 1)
    BY <1>1, <1>3, <1>4, Gains
  <1> QED BY <1>1, <1>3, <1>5, TakesLock

\* Nothing changes but a guard that owned no lock and owns none.
LEMMA KeepsGuard ==
    ASSUME LockInv, NEW t \in Threads, want[t] = NoCall, UNCHANGED <<writer, readers, loose, scoped, want>>,
           NEW s \in Slots, NEW g, Fits(s, g), ~g.owns, ~guard[t][s].owns,
           guard' = [guard EXCEPT ![t][s] = g]
    PROVE  LockInv'
  <1>1. loose' \in [Threads -> SUBSET Locks] /\ \A u \in Threads : u # t => loose'[u] = loose[u]
    BY Types DEF LockInv
  <1>2. Mine(t) /\ Right(t)' /\ Sets(t, s, g)
    BY <1>1, SetsGuard
  <1>3. \A k \in Locks, m \in Modes, z \in Tokens : z \in Bound(t, k, m)' <=> z \in Bound(t, k, m)
    BY <1>2 DEF Sets
  <1> QED BY <1>2, <1>3, SameBound, KeepsLocks

\* The guard that owned its lock has given it back.
LEMMA DropsGuard ==
    ASSUME LockInv, NEW t \in Threads, want[t] = NoCall, UNCHANGED <<loose, scoped, want>>,
           NEW s \in Slots, NEW g, Fits(s, g), ~g.owns, guard[t][s].owns,
           guard' = [guard EXCEPT ![t][s] = g],
           Drop(t, guard[t][s].mutex, guard[t][s].mode)
    PROVE  LockInv'
  <1> DEFINE h == guard[t][s]
  <1>1. PICK l \in Locks, mode \in Modes : l = h.mutex /\ mode = h.mode
    <2>1. Fits(s, h)
      BY FitsNow
    <2> QED BY <2>1 DEF Fits, Guards, Unused
  <1>2. loose' \in [Threads -> SUBSET Locks] /\ \A u \in Threads : u # t => loose'[u] = loose[u]
    BY Types DEF LockInv
  <1>3. Mine(t) /\ Right(t)' /\ Sets(t, s, g) /\ s \in Tokens
    BY <1>2, SetsGuard
  <1>4. /\ s \in Bound(t, l, mode) /\ s \notin Bound(t, l, mode)'
        /\ \A k \in Locks, m \in Modes, z \in Tokens :
              z # s \/ k # l \/ m # mode => (z \in Bound(t, k, m)' <=> z \in Bound(t, k, m))
    BY <1>1, <1>3 DEF Sets
  <1>5. Changes(t, l, mode, -1)
    BY <1>1, <1>3, <1>4, Loses
  <1> QED BY <1>1, <1>3, <1>4, <1>5, DropsLock

\* unique_lock(m, defer_lock).
LEMMA DeferredKeeps ==
    ASSUME LockInv, NEW t \in Threads, NEW s \in Slots, NEW l \in Locks, ConstructDeferred(t, s, l)
    PROVE  LockInv'
  <1> DEFINE g == [mutex |-> l, owns |-> FALSE, mode |-> "exclusive"]
  <1>1. want[t] = NoCall /\ ~guard[t][s].owns /\ s \in UniqueSlots
    BY DEF ConstructDeferred, MaySet, Running, Unused
  <1>2. Fits(s, g) /\ ~g.owns
    BY <1>1, AddressAssumption, SlotAssumption DEF Fits, Guards, Modes
  <1>3. guard' = [guard EXCEPT ![t][s] = g] /\ UNCHANGED <<writer, readers, loose, scoped, want>>
    BY DEF ConstructDeferred, Set
  <1> HIDE DEF g
  <1> QED BY <1>1, <1>2, <1>3, KeepsGuard

\* Construction with try_to_lock.
LEMMA TryKeeps ==
    ASSUME LockInv, NEW t \in Threads, NEW s \in Slots, NEW l \in Locks, ConstructTry(t, s, l)
    PROVE  LockInv'
  <1>1. want[t] = NoCall /\ ~guard[t][s].owns /\ s \in UniqueSlots /\ UNCHANGED <<loose, scoped, want>>
    BY DEF ConstructTry, MaySet, Running, Unused
  <1>2. PICK did \in BOOLEAN : TryTake(t, l, "exclusive", did) /\ Set(t, s, l, did, "exclusive")
    BY DEF ConstructTry
  <1> DEFINE g == [mutex |-> l, owns |-> did, mode |-> "exclusive"]
  <1>3. Fits(s, g) /\ g.mutex # Null /\ g.mutex = l /\ g.mode = "exclusive" /\ g.owns = did
    BY <1>1, AddressAssumption, SlotAssumption DEF Fits, Guards, Modes
  <1>4. guard' = [guard EXCEPT ![t][s] = g]
    BY <1>2 DEF Set
  <1> HIDE DEF g
  <1>5. CASE did
    <2>1. Free(t, l, "exclusive") /\ Take(t, l, "exclusive")
      BY <1>2, <1>5 DEF TryTake
    <2> QED BY <2>1, <1>1, <1>3, <1>4, <1>5, TakesGuard
  <1>6. CASE ~did
    <2>1. UNCHANGED <<writer, readers>>
      BY <1>2, <1>6 DEF TryTake
    <2> QED BY <2>1, <1>1, <1>3, <1>4, <1>6, KeepsGuard
  <1> QED BY <1>5, <1>6

\* try_lock() of a guard.
LEMMA TryRelockKeeps ==
    ASSUME LockInv, NEW t \in Threads, NEW s \in Slots, TryRelock(t, s)
    PROVE  LockInv'
  <1> DEFINE h == guard[t][s]
  <1>1. want[t] = NoCall /\ ~h.owns /\ h.mutex # Null /\ UNCHANGED <<loose, scoped, want>>
    BY DEF TryRelock, Running
  <1>2. PICK did \in BOOLEAN : /\ TryTake(t, h.mutex, h.mode, did)
                               /\ guard' = [guard EXCEPT ![t][s].owns = did]
    BY DEF TryRelock
  <1> DEFINE g == [h EXCEPT !.owns = did]
  <1>3. Fits(s, h)
    BY FitsNow
  <1>4. Fits(s, g) /\ g.mutex = h.mutex /\ g.mode = h.mode /\ g.owns = did
    <2>1. s \notin PlainSlots
      BY <1>1, <1>3 DEF Fits, Unused
    <2>2. h \in Guards
      BY <1>3 DEF Fits
    <2> QED BY <1>1, <1>3, <2>1, <2>2 DEF Fits, Guards
  <1>5. guard' = [guard EXCEPT ![t][s] = g]
    BY <1>2
  <1> HIDE DEF g
  <1>6. CASE did
    <2>1. Free(t, h.mutex, h.mode) /\ Take(t, h.mutex, h.mode)
      BY <1>2, <1>6 DEF TryTake
    <2> QED BY <2>1, <1>1, <1>4, <1>5, <1>6, TakesGuard
  <1>7. CASE ~did
    <2>1. UNCHANGED <<writer, readers>>
      BY <1>2, <1>7 DEF TryTake
    <2> QED BY <2>1, <1>1, <1>4, <1>5, <1>7, KeepsGuard
  <1> QED BY <1>6, <1>7

\* unlock() of a guard.
LEMMA UnlockKeeps ==
    ASSUME LockInv, NEW t \in Threads, NEW s \in Slots \ PlainSlots, Unlock(t, s)
    PROVE  LockInv'
  <1> DEFINE h == guard[t][s]
             g == [h EXCEPT !.owns = FALSE]
  <1>1. /\ want[t] = NoCall /\ h.owns /\ UNCHANGED <<loose, scoped, want>>
        /\ Drop(t, h.mutex, h.mode)
    BY DEF Unlock, Running
  <1>2. Fits(s, h)
    BY FitsNow
  <1>3. Fits(s, g) /\ ~g.owns
    <2>1. h \in Guards /\ h.mutex # Null
      BY <1>1, <1>2 DEF Fits, Unused
    <2> QED BY <1>2, <2>1 DEF Fits, Guards
  <1>4. guard' = [guard EXCEPT ![t][s] = g]
    BY DEF Unlock
  <1> HIDE DEF g
  <1> QED BY <1>1, <1>3, <1>4, DropsGuard

\* The destructors.
LEMMA DestroyKeeps ==
    ASSUME LockInv, NEW t \in Threads, NEW s \in Slots, Destroy(t, s)
    PROVE  LockInv'
  <1>1. want[t] = NoCall /\ UNCHANGED <<loose, scoped, want>> /\ guard' = [guard EXCEPT ![t][s] = Unused]
    BY DEF Destroy, Running
  <1>2. Fits(s, Unused) /\ ~Unused.owns
    BY UnusedFits
  <1>3. CASE guard[t][s].owns
    BY <1>1, <1>2, <1>3, DropsGuard DEF Destroy
  <1>4. CASE ~guard[t][s].owns
    BY <1>1, <1>2, <1>4, KeepsGuard DEF Destroy
  <1> QED BY <1>3, <1>4

\* The destructor of a guard.
LEMMA DestroyPlainKeeps ==
    ASSUME LockInv, NEW t \in Threads, NEW s \in Slots, DestroyPlain(t, s)
    PROVE  LockInv'
  <1>1. want[t] = NoCall /\ UNCHANGED <<loose, scoped, want>> /\ guard' = [guard EXCEPT ![t][s] = Unused]
    BY DEF DestroyPlain, Running
  <1>2. Fits(s, Unused) /\ ~Unused.owns
    BY UnusedFits
  <1>3. Fits(s, guard[t][s])
    BY FitsNow
  <1>4. guard[t][s].owns /\ guard[t][s].mode = "exclusive"
    BY <1>3, SlotAssumption DEF DestroyPlain, Fits, Guards, Modes
  <1> QED BY <1>1, <1>2, <1>4, DropsGuard DEF DestroyPlain

-----------------------------------------------------------------------------
\* The right to unlock passes from one to another, or stays where it is.
LEMMA Trades ==
    ASSUME NEW t, NEW x \in Tokens, NEW y \in Tokens,
           \A k \in Locks, m \in Modes :
               /\ \A z \in Tokens : z # x /\ z # y => (z \in Bound(t, k, m)' <=> z \in Bound(t, k, m))
               /\ \/ /\ x \in Bound(t, k, m)' <=> x \in Bound(t, k, m)
                     /\ y \in Bound(t, k, m)' <=> y \in Bound(t, k, m)
                  \/ /\ x \in Bound(t, k, m)' <=> y \in Bound(t, k, m)
                     /\ y \in Bound(t, k, m)' <=> x \in Bound(t, k, m)
    PROVE  \A k \in Locks, m \in Modes : Cardinality(Bound(t, k, m)') = Cardinality(Bound(t, k, m))
  <1> SUFFICES ASSUME NEW k \in Locks, NEW m \in Modes
               PROVE  Cardinality(Bound(t, k, m)') = Cardinality(Bound(t, k, m))
    OBVIOUS
  <1> DEFINE B == Bound(t, k, m)'
             A == Bound(t, k, m)
  <1>1. B \subseteq Tokens /\ A \subseteq Tokens
    BY DEF Bound, Tokens
  <1>2. IsFiniteSet(A)
    BY FiniteBound
  <1>3. \A z : z # x /\ z # y => (z \in B <=> z \in A)
    BY <1>1
  <1>4. CASE (x \in B <=> x \in A) /\ (y \in B <=> y \in A)
    <2>1. B = A
      BY <1>1, <1>3, <1>4
    <2> QED BY <2>1
  <1>5. CASE (x \in B <=> y \in A) /\ (y \in B <=> x \in A)
    <2> HIDE DEF A, B
    <2>1. Cardinality(B) = Cardinality(A)
      BY <1>2, <1>3, <1>5, SameNumber
    <2> QED BY <2>1 DEF A, B
  <1> QED BY <1>4, <1>5

\* A constructor with adopt_lock.
LEMMA AdoptKeeps ==
    ASSUME LockInv, NEW t \in Threads, NEW s \in Slots \ RefSlots, NEW l \in Locks, Adopt(t, s, l)
    PROVE  LockInv'
  <1> DEFINE g == [mutex |-> l, owns |-> TRUE, mode |-> "exclusive"]
  <1>1. /\ want[t] = NoCall /\ ~guard[t][s].owns /\ l \in loose[t]
        /\ UNCHANGED <<writer, readers, scoped, want>>
    BY DEF Adopt, MaySet, Running, Unused
  <1>2. Fits(s, g) /\ g.owns /\ g.mutex = l /\ g.mode = "exclusive"
    BY AddressAssumption DEF Fits, Guards, Modes
  <1>3. guard' = [guard EXCEPT ![t][s] = g]
    BY DEF Adopt, Set
  <1>4. /\ loose' \in [Threads -> SUBSET Locks] /\ loose'[t] = loose[t] \ {l}
        /\ \A u \in Threads : u # t => loose'[u] = loose[u]
    BY Types DEF LockInv, Adopt
  <1> HIDE DEF g
  <1>5. Mine(t) /\ Right(t)' /\ Sets(t, s, g) /\ s \in Tokens /\ "raw" \in Tokens
    BY <1>1, <1>2, <1>3, <1>4, SetsGuard
  <1>6. \A k \in Locks, m \in Modes :
            /\ \A z \in Tokens : z # s /\ z # "raw" => (z \in Bound(t, k, m)' <=> z \in Bound(t, k, m))
            /\ \/ /\ s \in Bound(t, k, m)' <=> s \in Bound(t, k, m)
                  /\ "raw" \in Bound(t, k, m)' <=> "raw" \in Bound(t, k, m)
               \/ /\ s \in Bound(t, k, m)' <=> "raw" \in Bound(t, k, m)
                  /\ "raw" \in Bound(t, k, m)' <=> s \in Bound(t, k, m)
    BY <1>1, <1>2, <1>4, <1>5 DEF Sets
  <1>7. \A k \in Locks, m \in Modes : Cardinality(Bound(t, k, m)') = Cardinality(Bound(t, k, m))
    BY <1>5, <1>6, Trades
  <1> QED BY <1>1, <1>5, <1>7, KeepsLocks

\* release().
LEMMA ReleaseKeeps ==
    ASSUME LockInv, NEW t \in Threads, NEW s \in Slots, GuardRelease(t, s)
    PROVE  LockInv'
  <1>1. want[t] = NoCall /\ UNCHANGED <<writer, readers, scoped, want>> /\ s \notin RefSlots
    BY SlotAssumption DEF GuardRelease, Running
  <1>2. PICK l \in Locks : l = guard[t][s].mutex
    BY Types DEF LockInv, GuardRelease, Guards
  <1>3. guard[t][s].mode = "exclusive" /\ l \notin loose[t]
    BY <1>1, <1>2, FitsNow DEF Fits, Guards, Modes, GuardRelease
  <1>4. Fits(s, Unused) /\ ~Unused.owns /\ guard' = [guard EXCEPT ![t][s] = Unused]
    BY UnusedFits DEF GuardRelease
  <1>5. /\ loose' \in [Threads -> SUBSET Locks]
        /\ loose'[t] = IF guard[t][s].owns THEN loose[t] \cup {l} ELSE loose[t]
        /\ \A u \in Threads : u # t => loose'[u] = loose[u]
    BY <1>2, Types DEF LockInv, GuardRelease
  <1>6. Mine(t) /\ Right(t)' /\ Sets(t, s, Unused) /\ s \in Tokens /\ "raw" \in Tokens
    BY <1>1, <1>4, <1>5, SetsGuard
  <1>7. \A k \in Locks, m \in Modes :
            /\ \A z \in Tokens : z # s /\ z # "raw" => (z \in Bound(t, k, m)' <=> z \in Bound(t, k, m))
            /\ \/ /\ s \in Bound(t, k, m)' <=> s \in Bound(t, k, m)
                  /\ "raw" \in Bound(t, k, m)' <=> "raw" \in Bound(t, k, m)
               \/ /\ s \in Bound(t, k, m)' <=> "raw" \in Bound(t, k, m)
                  /\ "raw" \in Bound(t, k, m)' <=> s \in Bound(t, k, m)
    BY <1>2, <1>3, <1>4, <1>5, <1>6 DEF Sets
  <1>8. \A k \in Locks, m \in Modes : Cardinality(Bound(t, k, m)') = Cardinality(Bound(t, k, m))
    BY <1>6, <1>7, Trades
  <1> QED BY <1>1, <1>6, <1>8, KeepsLocks

\* Two guards get new values: h for the one that was moved from, g for the other.
SetsTwo(t, s, d, g, h) ==
    \A k \in Locks, m \in Modes :
        /\ d \in Bound(t, k, m)' <=> g.mutex = k /\ g.mode = m /\ g.owns
        /\ s \in Bound(t, k, m)' <=> h.mutex = k /\ h.mode = m /\ h.owns
        /\ d \in Bound(t, k, m) <=> guard[t][d].mutex = k /\ guard[t][d].mode = m /\ guard[t][d].owns
        /\ s \in Bound(t, k, m) <=> guard[t][s].mutex = k /\ guard[t][s].mode = m /\ guard[t][s].owns
        /\ \A z \in Tokens : z # s /\ z # d => (z \in Bound(t, k, m)' <=> z \in Bound(t, k, m))

\* A call that assigns two guards of the thread.
LEMMA SetsBoth ==
    ASSUME LockInv, NEW t \in Threads, want[t] = NoCall, UNCHANGED <<loose, scoped, want>>,
           NEW s \in Slots, NEW d \in Slots, s # d, NEW g, NEW h, Fits(d, g), Fits(s, h),
           guard' = [guard EXCEPT ![t][d] = g, ![t][s] = h]
    PROVE  Mine(t) /\ Right(t)' /\ SetsTwo(t, s, d, g, h) /\ s \in Tokens /\ d \in Tokens
  <1>1. /\ guard' \in [Threads -> [Slots -> Guards]] /\ guard'[t][d] = g /\ guard'[t][s] = h
        /\ \A r \in Slots : r # s /\ r # d => guard'[t][r] = guard[t][r]
        /\ \A u \in Threads : u # t => guard'[u] = guard[u]
    <2>1. g \in Guards /\ h \in Guards
      BY DEF Fits
    <2>2. [[guard[t] EXCEPT ![d] = g] EXCEPT ![s] = h] \in [Slots -> Guards]
      BY <2>1, Types DEF LockInv
    <2>3. guard' = [guard EXCEPT ![t] = [[guard[t] EXCEPT ![d] = g] EXCEPT ![s] = h]]
      BY Types DEF LockInv
    <2> QED BY <2>1, <2>2, <2>3, Types DEF LockInv
  <1>2. \A r \in Slots : Fits(r, guard'[t][r])
    BY <1>1, FitsNow
  <1>3. loose' \in [Threads -> SUBSET Locks] /\ \A u \in Threads : u # t => loose'[u] = loose[u]
    BY Types DEF LockInv
  <1>4. Mine(t) /\ Right(t)'
    BY <1>1, <1>2, <1>3, OwnCode
  <1>5. want[t].slot \notin Slots /\ want'[t].slot \notin Slots
    BY ScopeAtRest
  <1>6. SetsTwo(t, s, d, g, h)
    BY <1>1, <1>5, BoundOf DEF Tokens, SetsTwo
  <1> QED BY <1>4, <1>6 DEF Tokens

\* A guard that was moved from unlocks nothing.
LEMMA MovedFromFits ==
    ASSUME LockInv, NEW t \in Threads, NEW s \in Slots \ PlainSlots, NEW g, Fits(s, g), g.mutex # Null
    PROVE  Fits(s, MovedFrom(s, g)) /\ ~MovedFrom(s, g).owns
  <1>1. CASE s \in UniqueSlots
    BY <1>1, UnusedFits DEF MovedFrom
  <1>2. CASE s \notin UniqueSlots
    <2>1. MovedFrom(s, g) = [g EXCEPT !.owns = FALSE] /\ g \in Guards
      BY <1>2 DEF MovedFrom, Fits
    <2>2. /\ MovedFrom(s, g) \in Guards /\ ~MovedFrom(s, g).owns
          /\ MovedFrom(s, g).mutex = g.mutex /\ MovedFrom(s, g).mode = g.mode
      BY <2>1 DEF Guards
    <2> QED BY <2>2 DEF Fits
  <1> QED BY <1>1, <1>2

\* The move constructors.
LEMMA MoveKeeps ==
    ASSUME LockInv, NEW t \in Threads, NEW s \in Slots, NEW d \in Slots, MoveConstruct(t, s, d),
           {s, d} \subseteq UniqueSlots \/ {s, d} \subseteq RefSlots
    PROVE  LockInv'
  <1> DEFINE g == guard[t][s]
             h == MovedFrom(s, g)
  <1>1. /\ want[t] = NoCall /\ UNCHANGED <<writer, readers, loose, scoped, want>>
        /\ guard[t][d] = Unused /\ ~guard[t][d].owns /\ g.mutex # Null /\ s # d
        /\ guard' = [guard EXCEPT ![t][d] = g, ![t][s] = h]
    BY DEF MoveConstruct, MaySet, Running, Unused
  <1>2. s \notin PlainSlots /\ d \notin PlainSlots
    BY SlotAssumption
  <1>3. Fits(s, g)
    BY FitsNow
  <1>4. Fits(d, g)
    BY <1>1, <1>2, <1>3, SlotAssumption DEF Fits
  <1>5. Fits(s, h) /\ ~h.owns
    BY <1>1, <1>2, <1>3, MovedFromFits
  <1> HIDE DEF h
  <1>6. Mine(t) /\ Right(t)' /\ SetsTwo(t, s, d, g, h) /\ s \in Tokens /\ d \in Tokens
    BY <1>1, <1>4, <1>5, SetsBoth
  <1>7. \A k \in Locks, m \in Modes :
            /\ \A z \in Tokens : z # s /\ z # d => (z \in Bound(t, k, m)' <=> z \in Bound(t, k, m))
            /\ s \in Bound(t, k, m)' <=> d \in Bound(t, k, m)
            /\ d \in Bound(t, k, m)' <=> s \in Bound(t, k, m)
    BY <1>1, <1>5, <1>6 DEF SetsTwo
  <1>8. \A k \in Locks, m \in Modes : Cardinality(Bound(t, k, m)') = Cardinality(Bound(t, k, m))
    BY <1>6, <1>7, Trades
  <1> QED BY <1>1, <1>6, <1>8, KeepsLocks

\* swap of two guards of one class.
LEMMA SwapKeeps ==
    ASSUME LockInv, NEW t \in Threads, NEW s \in Slots, NEW d \in Slots, SwapGuards(t, s, d)
    PROVE  LockInv'
  <1> DEFINE g == guard[t][s]
             h == guard[t][d]
  <1>1. /\ want[t] = NoCall /\ UNCHANGED <<writer, readers, loose, scoped, want>>
        /\ s # d /\ s \in UniqueSlots /\ d \in UniqueSlots
        /\ guard' = [guard EXCEPT ![t][d] = g, ![t][s] = h]
    BY Types DEF LockInv, SwapGuards, Running
  <1>2. Fits(s, g) /\ Fits(d, h)
    BY FitsNow
  <1>3. Fits(d, g) /\ Fits(s, h)
    BY <1>1, <1>2, SlotAssumption DEF Fits
  <1>4. Mine(t) /\ Right(t)' /\ SetsTwo(t, s, d, g, h) /\ s \in Tokens /\ d \in Tokens
    BY <1>1, <1>3, SetsBoth
  <1>5. \A k \in Locks, m \in Modes :
            /\ \A z \in Tokens : z # s /\ z # d => (z \in Bound(t, k, m)' <=> z \in Bound(t, k, m))
            /\ s \in Bound(t, k, m)' <=> d \in Bound(t, k, m)
            /\ d \in Bound(t, k, m)' <=> s \in Bound(t, k, m)
    BY <1>1, <1>4 DEF SetsTwo
  <1>6. \A k \in Locks, m \in Modes : Cardinality(Bound(t, k, m)') = Cardinality(Bound(t, k, m))
    BY <1>4, <1>5, Trades
  <1> QED BY <1>1, <1>4, <1>6, KeepsLocks

\* unique_lock::operator=(unique_lock&&).
LEMMA MoveAssignKeeps ==
    ASSUME LockInv, NEW t \in Threads, NEW s \in Slots, NEW d \in Slots, MoveAssign(t, s, d)
    PROVE  LockInv'
  <1> DEFINE g == guard[t][s]
             h == MovedFrom(s, g)
  <1>1. /\ want[t] = NoCall /\ UNCHANGED <<loose, scoped, want>>
        /\ s # d /\ s \in UniqueSlots /\ d \in UniqueSlots /\ guard[t][d].mutex # Null
        /\ guard' = [guard EXCEPT ![t][d] = g, ![t][s] = h]
    BY DEF MoveAssign, Running
  <1>2. Fits(s, g) /\ Fits(d, guard[t][d])
    BY FitsNow
  <1>3. Fits(d, g) /\ s \notin PlainSlots
    BY <1>1, <1>2, SlotAssumption DEF Fits
  <1>4. Fits(s, h) /\ ~h.owns
    BY <1>1, <1>2, UnusedFits DEF MovedFrom
  <1>5. PICK l \in Locks, mode \in Modes : l = guard[t][d].mutex /\ mode = guard[t][d].mode
    BY <1>1, <1>2 DEF Fits, Guards
  <1> HIDE DEF h
  <1>6. Mine(t) /\ Right(t)' /\ SetsTwo(t, s, d, g, h) /\ s \in Tokens /\ d \in Tokens
    BY <1>1, <1>3, <1>4, SetsBoth
  <1>7. CASE guard[t][d].owns
    <2>1. d \in Bound(t, l, mode)
      BY <1>5, <1>6, <1>7 DEF SetsTwo
    <2>2. Changes(t, l, mode, -1)
      <3> SUFFICES ASSUME NEW k \in Locks, NEW m \in Modes
                   PROVE  Cardinality(Bound(t, k, m)') = Cardinality(Bound(t, k, m))
                                                          + IF k = l /\ m = mode THEN -1 ELSE 0
        BY DEF Changes
      <3> DEFINE B == Bound(t, k, m)'
                 A == Bound(t, k, m)
                 D == A \ {d}
      <3>1. B \subseteq Tokens /\ A \subseteq Tokens /\ IsFiniteSet(A) /\ Cardinality(A) \in Nat
        BY FiniteBound DEF Bound, Tokens
      <3>2. /\ \A z : z # s /\ z # d => (z \in B <=> z \in D)
            /\ s \in B <=> d \in D
            /\ d \in B <=> s \in D
            /\ d \in A <=> k = l /\ m = mode
        BY <3>1, <1>1, <1>4, <1>5, <1>6, <1>7 DEF SetsTwo
      <3>3. Cardinality(D) = Cardinality(A) + (IF k = l /\ m = mode THEN -1 ELSE 0) /\ IsFiniteSet(D)
        <4>1. CASE d \in A
          <5>1. Cardinality(D) = Cardinality(A) - 1 /\ IsFiniteSet(D)
            BY <4>1, <3>1, FS_RemoveElement
          <5> QED BY <5>1, <4>1, <3>1, <3>2
        <4>2. CASE d \notin A
          <5>1. D = A
            BY <4>2
          <5>2. ~(k = l /\ m = mode)
            BY <4>2, <3>2
          <5> HIDE DEF D
          <5> QED BY <5>1, <5>2, <3>1
        <4> QED BY <4>1, <4>2
      <3>4. Cardinality(B) = Cardinality(D)
        <4> HIDE DEF B, D
        <4> QED BY <3>2, <3>3, SameNumber
      <3> QED BY <3>3, <3>4
    <2>3. Drop(t, l, mode)
      BY <1>5, <1>7 DEF MoveAssign
    <2> QED BY <2>1, <2>2, <2>3, <1>6, DropsLock
  <1>8. CASE ~guard[t][d].owns
    <2>1. \A k \in Locks, m \in Modes :
              /\ \A z \in Tokens : z # s /\ z # d => (z \in Bound(t, k, m)' <=> z \in Bound(t, k, m))
              /\ s \in Bound(t, k, m)' <=> d \in Bound(t, k, m)
              /\ d \in Bound(t, k, m)' <=> s \in Bound(t, k, m)
      BY <1>1, <1>4, <1>6, <1>8 DEF SetsTwo
    <2>2. \A k \in Locks, m \in Modes : Cardinality(Bound(t, k, m)') = Cardinality(Bound(t, k, m))
      BY <1>6, <2>1, Trades
    <2>3. UNCHANGED <<writer, readers>>
      BY <1>8 DEF MoveAssign
    <2> QED BY <2>2, <2>3, <1>6, KeepsLocks
  <1> QED BY <1>7, <1>8

-----------------------------------------------------------------------------
\* unlock() without a guard.
LEMMA RawUnlockKeeps ==
    ASSUME LockInv, NEW t \in Threads, NEW l \in Locks, RawUnlock(t, l)
    PROVE  LockInv'
  <1>1. want[t] = NoCall /\ UNCHANGED <<guard, scoped, want>> /\ l \in loose[t] /\ Drop(t, l, "exclusive")
    BY DEF RawUnlock, Running
  <1>2. /\ loose' \in [Threads -> SUBSET Locks] /\ loose'[t] = loose[t] \ {l}
        /\ \A u \in Threads : u # t => loose'[u] = loose[u]
    BY Types DEF LockInv, RawUnlock
  <1>3. \A s \in Slots : Fits(s, guard'[t][s])
    BY <1>1, FitsNow
  <1>4. Mine(t) /\ Right(t)'
    BY <1>1, <1>2, <1>3, Types, OwnCode DEF LockInv
  <1>5. "raw" \in Tokens /\ "exclusive" \in Modes /\ "raw" # "scoped"
    BY DEF Tokens, Modes
  <1>6. "raw" \in Bound(t, l, "exclusive") /\ "raw" \notin Bound(t, l, "exclusive")'
    BY <1>1, <1>2, BoundOf
  <1>7. \A k \in Locks, m \in Modes, z \in Tokens :
            z # "raw" \/ k # l \/ m # "exclusive" => (z \in Bound(t, k, m)' <=> z \in Bound(t, k, m))
    BY <1>1, <1>2, BoundOf DEF Tokens
  <1>8. Changes(t, l, "exclusive", -1)
    BY <1>5, <1>6, <1>7, Loses
  <1> QED BY <1>1, <1>4, <1>5, <1>6, <1>8, DropsLock

\* ~scoped_lock() unlocks the first lock, then the second.
LEMMA DestroyFirstKeeps ==
    ASSUME LockInv, NEW t \in Threads, DestroyScopedFirst(t)
    PROVE  LockInv'
  <1> DEFINE c == scoped[t]
  <1>1. want[t] = NoCall /\ UNCHANGED <<guard, loose, want>>
    BY DEF DestroyScopedFirst, Running
  <1>2. c.m1 \in Locks /\ c.m2 \in Locks /\ c.m1 # c.m2 /\ c.locked = {c.m1, c.m2}
    BY <1>1, ScopeAtRest DEF DestroyScopedFirst
  <1>3. PICK l \in Locks, k2 \in Locks : l = c.m1 /\ k2 = c.m2
    BY <1>2
  <1>4. Drop(t, l, "exclusive")
    BY <1>3 DEF DestroyScopedFirst
  <1>5. /\ scoped' \in [Threads -> Scopes]
        /\ scoped'[t].m1 = l /\ scoped'[t].m2 = k2 /\ scoped'[t].locked = {k2}
        /\ \A u \in Threads : u # t => scoped'[u] = scoped[u]
    <2>1. c \in Scopes
      BY Types DEF LockInv
    <2>2. [c EXCEPT !.locked = {k2}] \in Scopes
      BY <2>1 DEF Scopes
    <2>3. scoped' = [scoped EXCEPT ![t] = [c EXCEPT !.locked = {k2}]]
      BY <1>3 DEF DestroyScopedFirst
    <2> QED BY <1>3, <2>1, <2>2, <2>3, Types DEF LockInv, Scopes
  <1>6. Mine(t)
    BY <1>1, <1>5, Types DEF LockInv, Mine
  <1>7. Right(t)'
    <2>1. GuardsRight(t)' /\ CallsRight(t)'
      BY <1>1 DEF LockInv, Right, GuardsRight, CallsRight
    <2>2. ScopesRight(t)'
      BY <1>1, <1>2, <1>3, <1>5 DEF ScopesRight
    <2>3. WaitsAlone(t)'
      BY <1>1 DEF WaitsAlone
    <2> QED BY <2>1, <2>2, <2>3 DEF Right
  <1>8. "scoped" \in Tokens /\ "exclusive" \in Modes /\ "raw" # "scoped"
    BY DEF Tokens, Modes
  <1>9. "scoped" \in Bound(t, l, "exclusive") /\ "scoped" \notin Bound(t, l, "exclusive")'
    BY <1>2, <1>3, <1>5, BoundOf
  <1>10. \A k \in Locks, m \in Modes, z \in Tokens :
            z # "scoped" \/ k # l \/ m # "exclusive" => (z \in Bound(t, k, m)' <=> z \in Bound(t, k, m))
    BY <1>1, <1>2, <1>3, <1>5, BoundOf DEF Tokens
  <1>11. Changes(t, l, "exclusive", -1)
    BY <1>8, <1>9, <1>10, Loses
  <1> QED BY <1>4, <1>6, <1>7, <1>8, <1>9, <1>11, DropsLock

\* The destructor of a scoped_lock, at its second lock.
LEMMA DestroySecondKeeps ==
    ASSUME LockInv, NEW t \in Threads, DestroyScopedSecond(t)
    PROVE  LockInv'
  <1> DEFINE c == scoped[t]
  <1>1. want[t] = NoCall /\ UNCHANGED <<guard, loose, want>>
    BY DEF DestroyScopedSecond, Leaving
  <1>2. c.m2 \in Locks /\ c.locked = {c.m2}
    BY <1>1, ScopeAtRest DEF DestroyScopedSecond, Leaving
  <1>3. PICK l \in Locks : l = c.m2
    BY <1>2
  <1>4. Drop(t, l, "exclusive")
    BY <1>3 DEF DestroyScopedSecond
  <1>5. /\ scoped' \in [Threads -> Scopes] /\ scoped'[t] = NoScope /\ scoped'[t].locked = {}
        /\ \A u \in Threads : u # t => scoped'[u] = scoped[u]
    <2>1. NoScope \in Scopes
      BY DEF Scopes, NoScope
    <2> QED BY <2>1, Types DEF LockInv, DestroyScopedSecond, NoScope
  <1>6. Mine(t)
    BY <1>1, <1>5, Types DEF LockInv, Mine
  <1>7. Right(t)'
    <2>1. GuardsRight(t)' /\ CallsRight(t)'
      BY <1>1 DEF LockInv, Right, GuardsRight, CallsRight
    <2>2. ScopesRight(t)'
      BY <1>1, <1>5, ScopeAtRest DEF ScopesRight
    <2>3. WaitsAlone(t)'
      BY <1>1 DEF WaitsAlone
    <2> QED BY <2>1, <2>2, <2>3 DEF Right
  <1>8. "scoped" \in Tokens /\ "exclusive" \in Modes /\ "raw" # "scoped"
    BY DEF Tokens, Modes
  <1>9. "scoped" \in Bound(t, l, "exclusive") /\ "scoped" \notin Bound(t, l, "exclusive")'
    BY <1>2, <1>3, <1>5, BoundOf
  <1>10. \A k \in Locks, m \in Modes, z \in Tokens :
            z # "scoped" \/ k # l \/ m # "exclusive" => (z \in Bound(t, k, m)' <=> z \in Bound(t, k, m))
    BY <1>1, <1>2, <1>3, <1>5, BoundOf DEF Tokens
  <1>11. Changes(t, l, "exclusive", -1)
    BY <1>8, <1>9, <1>10, Loses
  <1> QED BY <1>4, <1>6, <1>7, <1>8, <1>9, <1>11, DropsLock

\* scoped_lock(m1, m2) begins with the lower address, holding nothing.
LEMMA ConstructScopedKeeps ==
    ASSUME LockInv, NEW t \in Threads, NEW m1 \in Locks, NEW m2 \in Locks, ConstructScoped(t, m1, m2)
    PROVE  LockInv'
  <1> DEFINE l == First(m1, m2)
  <1>1. UNCHANGED <<writer, readers, guard, loose>> /\ m1 # m2 /\ l \in Locks /\ l # Null
    BY AddressAssumption DEF ConstructScoped, First
  <1>2. /\ want' \in [Threads -> Requests]
        /\ want'[t] = [lock |-> l, mode |-> "exclusive", slot |-> "scoped"]
        /\ \A u \in Threads : u # t => want'[u] = want[u]
    <2>1. [lock |-> l, mode |-> "exclusive", slot |-> "scoped"] \in Requests
      BY <1>1 DEF Requests, Modes, NoSlots
    <2> QED BY <2>1, Types DEF LockInv, ConstructScoped, Call
  <1>3. /\ scoped' \in [Threads -> Scopes]
        /\ scoped'[t] = [m1 |-> m1, m2 |-> m2, locked |-> {}]
        /\ \A u \in Threads : u # t => scoped'[u] = scoped[u]
    <2>1. [m1 |-> m1, m2 |-> m2, locked |-> {}] \in Scopes
      BY DEF Scopes
    <2> QED BY <2>1, Types DEF LockInv, ConstructScoped
  <1>4. Mine(t)
    BY <1>1, <1>2, <1>3, Types DEF LockInv, Mine
  <1>5. /\ want[t] = NoCall /\ scoped[t] = NoScope /\ scoped[t].locked = {}
        /\ loose[t] = {} /\ \A s \in Slots : ~guard[t][s].owns
    <2>1. MayBlock(t, Null) /\ Null \notin Recursive
      BY AddressAssumption DEF ConstructScoped
    <2>2. /\ want[t] = NoCall /\ scoped[t] = NoScope
          /\ \A k \in loose[t] : k = Null /\ Null \in Recursive
          /\ \A s \in Slots : guard[t][s].owns => guard[t][s].mutex = Null /\ Null \in Recursive
      BY <2>1, BlocksAlone
    <2> QED BY <2>1, <2>2, Types DEF LockInv, NoScope, Guards
  <1>6. "scoped" \notin Slots /\ "raw" # "scoped" /\ want[t].slot \notin Slots
    BY <1>5, ScopeAtRest, SlotAssumption DEF NoSlots
  <1>7. Right(t)'
    <2>1. GuardsRight(t)'
      BY <1>1 DEF LockInv, Right, GuardsRight
    <2>2. CallsRight(t)'
      BY <1>1, <1>2, <1>6 DEF CallsRight
    <2>3. ScopesRight(t)'
      BY <1>1, <1>2, <1>3 DEF ScopesRight
    <2>4. WaitsAlone(t)'
      BY <1>1, <1>2, <1>3, <1>5, <1>6 DEF WaitsAlone
    <2> QED BY <2>1, <2>2, <2>3, <2>4 DEF Right
  <1>8. \A k \in Locks, m \in Modes, z \in Tokens : z \in Bound(t, k, m)' <=> z \in Bound(t, k, m)
    BY <1>1, <1>2, <1>3, <1>5, <1>6, BoundOf DEF Tokens
  <1> QED BY <1>1, <1>4, <1>7, <1>8, SameBound, KeepsLocks

-----------------------------------------------------------------------------
\* The lock of a blocking call.
LEMMA CallTypes ==
    ASSUME LockInv, NEW t \in Threads, want[t] # NoCall
    PROVE  want[t].lock \in Locks /\ want[t].mode \in Modes /\ want[t].lock # Null
  BY Types DEF LockInv, Right, CallsRight, Requests

\* The call is over.
LEMMA Returned ==
    ASSUME LockInv, NEW t \in Threads, want' = [want EXCEPT ![t] = NoCall]
    PROVE  /\ want' \in [Threads -> Requests] /\ want'[t] = NoCall
           /\ \A u \in Threads : u # t => want'[u] = want[u]
           /\ NoCall.slot = "none" /\ NoCall.mode = "exclusive" /\ "none" \notin Slots
           /\ CallsRight(t)' /\ WaitsAlone(t)'
  <1>1. NoCall \in Requests /\ NoCall.slot = "none" /\ NoCall.mode = "exclusive" /\ "none" \notin Slots
    BY SlotAssumption DEF NoCall, Requests, Modes, NoSlots
  <1>2. want'[t] = NoCall
    BY Types DEF LockInv
  <1> QED BY <1>1, <1>2, Types DEF LockInv, CallsRight, WaitsAlone

\* No scoped_lock, when the call that returns was not that of its constructor.
LEMMA NoScopeThen ==
    ASSUME LockInv, NEW t \in Threads, want[t] # NoCall, want[t].slot # "scoped"
    PROVE  scoped[t] = NoScope
  BY DEF LockInv, Right, WaitsAlone, ScopesRight

\* lock() of a lock returns: the thread holds it.
LEMMA RawReturnKeeps ==
    ASSUME LockInv, NEW t \in Threads, RawLockReturns(t)
    PROVE  LockInv'
  <1>1. want[t] # NoCall /\ UNCHANGED <<guard, scoped>> /\ want[t].slot \in {"raw", "timed"}
    BY DEF RawLockReturns, Granted
  <1>2. PICK l \in Locks : l = want[t].lock
    BY <1>1, CallTypes
  <1>3. want[t].slot \notin Slots /\ want[t].mode = "exclusive" /\ l \notin loose[t] /\ want[t].slot # "scoped"
    BY <1>1, <1>2, CallTypes, SlotAssumption DEF LockInv, Right, CallsRight, Modes, NoSlots, Slots
  <1>4. Free(t, l, "exclusive") /\ Take(t, l, "exclusive")
    BY <1>2, <1>3 DEF RawLockReturns, Granted
  <1>5. /\ loose' \in [Threads -> SUBSET Locks] /\ loose'[t] = loose[t] \cup {l}
        /\ \A u \in Threads : u # t => loose'[u] = loose[u]
    BY <1>2, Types DEF LockInv, RawLockReturns
  <1>6. want' = [want EXCEPT ![t] = NoCall]
    BY DEF RawLockReturns
  <1>7. /\ want' \in [Threads -> Requests] /\ want'[t] = NoCall
        /\ \A u \in Threads : u # t => want'[u] = want[u]
        /\ NoCall.slot = "none" /\ NoCall.mode = "exclusive" /\ "none" \notin Slots
        /\ CallsRight(t)' /\ WaitsAlone(t)'
    BY <1>6, Returned
  <1>8. Mine(t)
    BY <1>1, <1>5, <1>7, Types DEF LockInv, Mine
  <1>9. Right(t)'
    <2>1. GuardsRight(t)'
      BY <1>1 DEF LockInv, Right, GuardsRight
    <2>2. ScopesRight(t)'
      BY <1>1, <1>3, <1>7, NoScopeThen DEF ScopesRight
    <2> QED BY <2>1, <2>2, <1>7 DEF Right
  <1>10. "raw" \in Tokens /\ "exclusive" \in Modes /\ "raw" # "scoped"
    BY DEF Tokens, Modes
  <1>11. "raw" \notin Bound(t, l, "exclusive") /\ "raw" \in Bound(t, l, "exclusive")'
    BY <1>3, <1>5, BoundOf
  <1>12. \A k \in Locks, m \in Modes, z \in Tokens :
            z # "raw" \/ k # l \/ m # "exclusive" => (z \in Bound(t, k, m)' <=> z \in Bound(t, k, m))
    BY <1>1, <1>3, <1>5, <1>7, BoundOf DEF Tokens
  <1>13. Changes(t, l, "exclusive", 1)
    BY <1>10, <1>11, <1>12, Gains
  <1> QED BY <1>4, <1>8, <1>9, <1>10, <1>13, TakesLock

\* lock() of a guard returns: the guard owns its lock.
LEMMA GuardReturnKeeps ==
    ASSUME LockInv, NEW t \in Threads, GuardLockReturns(t)
    PROVE  LockInv'
  <1>1. want[t] # NoCall /\ UNCHANGED <<loose, scoped>> /\ want[t].slot \in Slots
    BY DEF GuardLockReturns, Granted
  <1>2. PICK l \in Locks, mode \in Modes, s \in Slots : l = want[t].lock /\ mode = want[t].mode /\ s = want[t].slot
    BY <1>1, CallTypes
  <1>3. /\ guard[t][s].mutex = l /\ guard[t][s].mode = mode /\ l # Null
        /\ s # "scoped" /\ s # "raw" /\ s # "none"
    BY <1>1, <1>2, CallTypes, SlotAssumption DEF LockInv, Right, CallsRight, NoSlots
  <1>4. Free(t, l, mode) /\ Take(t, l, mode)
    BY <1>2 DEF GuardLockReturns, Granted
  <1> DEFINE g == [guard[t][s] EXCEPT !.owns = TRUE]
  <1>5. Fits(s, g) /\ g.mutex = l /\ g.mode = mode /\ g.owns
    <2>1. Fits(s, guard[t][s])
      BY FitsNow
    <2>2. guard[t][s] \in Guards
      BY <2>1 DEF Fits
    <2> QED BY <1>3, <2>1, <2>2 DEF Fits, Guards
  <1>6. guard' = [guard EXCEPT ![t][s] = g]
    BY <1>2 DEF GuardLockReturns
  <1> HIDE DEF g
  <1>7. /\ guard' \in [Threads -> [Slots -> Guards]] /\ guard'[t][s] = g
        /\ \A r \in Slots : r # s => guard'[t][r] = guard[t][r]
        /\ \A u \in Threads : u # t => guard'[u] = guard[u]
    <2>1. g \in Guards
      BY <1>5 DEF Fits
    <2> QED BY <2>1, <1>6, OneGuard
  <1>8. want' = [want EXCEPT ![t] = NoCall]
    BY DEF GuardLockReturns
  <1>9. /\ want' \in [Threads -> Requests] /\ want'[t] = NoCall
        /\ \A u \in Threads : u # t => want'[u] = want[u]
        /\ NoCall.slot = "none" /\ NoCall.mode = "exclusive" /\ "none" \notin Slots
        /\ CallsRight(t)' /\ WaitsAlone(t)'
    BY <1>8, Returned
  <1>10. Mine(t)
    BY <1>1, <1>7, <1>9, Types DEF LockInv, Mine
  <1>11. Right(t)'
    <2>1. GuardsRight(t)'
      BY <1>5, <1>7 DEF LockInv, Right, GuardsRight, Fits
    <2>2. ScopesRight(t)'
      BY <1>1, <1>2, <1>3, <1>9, NoScopeThen DEF ScopesRight
    <2> QED BY <2>1, <2>2, <1>9 DEF Right
  <1>12. s \in Tokens /\ mode = "shared" => l \notin Recursive
    BY <1>3, FitsNow DEF Fits, Tokens
  <1>13. s \notin Bound(t, l, mode) /\ s \in Bound(t, l, mode)'
    BY <1>2, <1>5, <1>7, <1>9, BoundOf
  <1>14. \A k \in Locks, m \in Modes, z \in Tokens :
            z # s \/ k # l \/ m # mode => (z \in Bound(t, k, m)' <=> z \in Bound(t, k, m))
    BY <1>1, <1>2, <1>3, <1>5, <1>7, <1>9, BoundOf DEF Tokens
  <1>15. Changes(t, l, mode, 1)
    BY <1>12, <1>13, <1>14, Gains DEF Tokens
  <1> QED BY <1>4, <1>10, <1>11, <1>12, <1>15, TakesLock DEF Tokens

\* scoped_lock's constructor goes on to the second lock.
LEMMA ScopedReturnKeeps ==
    ASSUME LockInv, NEW t \in Threads, ScopedLockReturns(t)
    PROVE  LockInv'
  <1> DEFINE c == scoped[t]
  <1>1. want[t] # NoCall /\ UNCHANGED <<guard, loose>> /\ want[t].slot = "scoped"
    BY DEF ScopedLockReturns, Granted
  <1>2. PICK l \in Locks : l = want[t].lock
    BY <1>1, CallTypes
  <1>3. "scoped" \notin Slots /\ "raw" # "scoped" /\ "scoped" \in Tokens /\ "exclusive" \in Modes
    BY SlotAssumption DEF NoSlots, Tokens, Modes
  <1>4. want[t].mode = "exclusive" /\ c \in Scopes
    BY <1>1, <1>3, CallTypes, Types DEF LockInv, Right, CallsRight, Modes, Slots
  <1>5. Free(t, l, "exclusive") /\ Take(t, l, "exclusive")
    BY <1>2, <1>4 DEF ScopedLockReturns, Granted
  <1>6. loose[t] = {} /\ \A s \in Slots : ~guard[t][s].owns
    BY <1>1, <1>3, Types DEF LockInv, Right, WaitsAlone, Guards
  <1>7. /\ c.m1 \in Locks /\ c.m2 \in Locks /\ c.m1 # c.m2
        /\ First(c.m1, c.m2) \in Locks /\ Second(c.m1, c.m2) \in Locks
        /\ First(c.m1, c.m2) # Second(c.m1, c.m2)
        /\ {First(c.m1, c.m2), Second(c.m1, c.m2)} = {c.m1, c.m2}
        /\ \/ c.locked = {} /\ l = First(c.m1, c.m2)
           \/ c.locked = {First(c.m1, c.m2)} /\ l = Second(c.m1, c.m2)
    BY <1>1, <1>2, <1>3 DEF LockInv, Right, ScopesRight, NoCall, First, Second
  <1>8. PICK k1 \in Locks, k2 \in Locks : k1 = c.m1 /\ k2 = c.m2
    BY <1>7
  <1>9. /\ scoped' \in [Threads -> Scopes]
        /\ scoped'[t].m1 = k1 /\ scoped'[t].m2 = k2 /\ scoped'[t].locked = c.locked \cup {l}
        /\ \A u \in Threads : u # t => scoped'[u] = scoped[u]
    <2>1. [c EXCEPT !.locked = @ \cup {l}] \in Scopes
      BY <1>4 DEF Scopes
    <2>2. scoped' = [scoped EXCEPT ![t] = [c EXCEPT !.locked = @ \cup {l}]]
      BY <1>2 DEF ScopedLockReturns
    <2> QED BY <1>4, <1>8, <2>1, <2>2, Types DEF LockInv, Scopes
  <1>10. /\ want' \in [Threads -> Requests]
         /\ \/ /\ c.locked = {} /\ l = First(k1, k2)
               /\ want'[t] = [lock |-> Second(k1, k2), mode |-> "exclusive", slot |-> "scoped"]
            \/ c.locked = {First(k1, k2)} /\ l = Second(k1, k2) /\ want'[t] = NoCall
         /\ \A u \in Threads : u # t => want'[u] = want[u]
    <2>1. CASE c.locked = {}
      <3>1. [lock |-> Second(k1, k2), mode |-> "exclusive", slot |-> "scoped"] \in Requests
        BY <1>7, <1>8 DEF Requests, Modes, NoSlots
      <3>2. want' = [want EXCEPT ![t] = [lock |-> Second(k1, k2), mode |-> "exclusive", slot |-> "scoped"]]
        BY <1>8, <2>1 DEF ScopedLockReturns, Call
      <3> QED BY <3>1, <3>2, <2>1, <1>7, <1>8, Types DEF LockInv
    <2>2. CASE c.locked # {}
      <3>1. want' = [want EXCEPT ![t] = NoCall]
        BY <2>2 DEF ScopedLockReturns
      <3> QED BY <3>1, <2>2, <1>7, <1>8, Returned
    <2> QED BY <2>1, <2>2
  <1>11. Mine(t)
    BY <1>1, <1>9, <1>10, Types DEF LockInv, Mine
  <1>12. Right(t)'
    <2>1. GuardsRight(t)'
      BY <1>1 DEF LockInv, Right, GuardsRight
    <2>2. CallsRight(t)'
      <3>1. Second(k1, k2) # Null
        BY <1>7, <1>8, AddressAssumption
      <3> QED BY <1>3, <1>10, <3>1, SlotAssumption DEF CallsRight, NoCall, NoSlots
    <2>3. ScopesRight(t)'
      <3>1. First(k1, k2) # Second(k1, k2) /\ {First(k1, k2), Second(k1, k2)} = {k1, k2} /\ k1 # k2
        BY <1>7, <1>8
      <3> QED BY <1>9, <1>10, <3>1 DEF ScopesRight, NoCall
    <2>4. WaitsAlone(t)'
      BY <1>1, <1>6, <1>10 DEF WaitsAlone
    <2> QED BY <2>1, <2>2, <2>3, <2>4 DEF Right
  <1>13. l \notin c.locked
    BY <1>7
  <1>14. "scoped" \notin Bound(t, l, "exclusive") /\ "scoped" \in Bound(t, l, "exclusive")'
    BY <1>9, <1>13, BoundOf
  <1>15. \A k \in Locks, m \in Modes, z \in Tokens :
            z # "scoped" \/ k # l \/ m # "exclusive" => (z \in Bound(t, k, m)' <=> z \in Bound(t, k, m))
    BY <1>1, <1>3, <1>6, <1>9, BoundOf DEF Tokens
  <1>16. Changes(t, l, "exclusive", 1)
    BY <1>3, <1>14, <1>15, Gains
  <1> QED BY <1>3, <1>5, <1>11, <1>12, <1>16, TakesLock

-----------------------------------------------------------------------------
\* Initially nothing is locked.
LEMMA LockInit == Init => LockInv
  <1> SUFFICES ASSUME Init PROVE LockInv
    OBVIOUS
  <1>1. /\ NoCall \in Requests /\ NoCall.slot = "none" /\ NoCall.mode = "exclusive" /\ NoScope \in Scopes
        /\ "none" \notin Slots /\ NoScope.locked = {} /\ Unused \in Guards /\ ~Unused.owns
        /\ Unused.mutex = Null /\ Unused.mode = "exclusive" /\ NoCall.lock = Null /\ Null \notin Recursive
    BY SlotAssumption, AddressAssumption DEF NoCall, NoScope, Unused, Requests, Scopes, Guards, Modes, NoSlots
  <1>2. \A t \in Threads : /\ want[t] = NoCall /\ scoped[t] = NoScope /\ loose[t] = {}
                           /\ \A s \in Slots : guard[t][s] = Unused
                           /\ \A l \in Locks : writer[l][t] = 0 /\ readers[l][t] = 0
    BY DEF Init
  <1>3. TypeOK
    <2>1. writer \in [Locks -> [Threads -> Nat]] /\ readers \in [Locks -> [Threads -> Nat]]
      BY DEF Init
    <2>2. guard \in [Threads -> [Slots -> Guards]] /\ loose \in [Threads -> SUBSET Locks]
          /\ scoped \in [Threads -> Scopes] /\ want \in [Threads -> Requests]
      BY <1>1 DEF Init
    <2> QED BY <2>1, <2>2 DEF TypeOK, Guards, Scopes, Requests
  <1>4. Counted
    <2> SUFFICES ASSUME NEW l \in Locks, NEW t \in Threads, NEW m \in Modes
                 PROVE  Cardinality(Bound(t, l, m)) = 0
      BY <1>2 DEF Counted, Modes
    <2>1. Bound(t, l, m) \subseteq Tokens
      BY DEF Bound
    <2>2. Bound(t, l, m) = {}
      BY <1>1, <1>2, <2>1, BoundOf DEF Tokens
    <2> QED BY <2>2, FS_EmptySet
  <1>5. Excluded
    BY <1>2 DEF Excluded
  <1>6. \A t \in Threads : Right(t)
    BY <1>1, <1>2 DEF Right, GuardsRight, CallsRight, ScopesRight, WaitsAlone
  <1> QED BY <1>3, <1>4, <1>5, <1>6 DEF LockInv

\* Each call keeps the relation of locks and what was given out.
LEMMA LockStep == LockInv /\ Next => LockInv'
  <1> SUFFICES ASSUME LockInv, NEW t \in Threads, Step(t) PROVE LockInv'
    BY DEF Next
  <1>1. CASE \E s \in Slots, l \in Locks :
                \/ ConstructUnique(t, s, l) \/ ConstructShared(t, s, l) \/ ConstructWrite(t, s, l)
                \/ ConstructPlain(t, s, l)
    <2>1. PICK s \in Slots, l \in Locks :
                \/ ConstructUnique(t, s, l) \/ ConstructShared(t, s, l) \/ ConstructWrite(t, s, l)
                \/ ConstructPlain(t, s, l)
      BY <1>1
    <2>2. PICK owns \in BOOLEAN, mode \in Modes :
             /\ Construct(t, s, l, owns, mode)
             /\ s \in PlainSlots => owns
             /\ mode = "shared" => s \in RefSlots
             /\ s \in RefSlots => l \notin Recursive
      BY <2>1, SlotAssumption DEF ConstructUnique, ConstructShared, ConstructWrite, ConstructPlain, Modes
    <2> QED BY <2>2, ConstructKeeps
  <1>2. CASE \E s \in Slots, l \in Locks :
                \/ ConstructDeferred(t, s, l) \/ ConstructTry(t, s, l) \/ ConstructAdopt(t, s, l)
                \/ PlainAdopt(t, s, l)
    BY <1>2, DeferredKeeps, TryKeeps, AdoptKeeps, SlotAssumption DEF ConstructAdopt, PlainAdopt
  <1>3. CASE \E s \in Slots : UniqueLock(t, s) \/ SharedLock(t, s) \/ WriteLock(t, s)
    BY <1>3, RelockKeeps DEF UniqueLock, SharedLock, WriteLock
  <1>4. CASE \E s \in Slots : UniqueTryLock(t, s) \/ SharedTryLock(t, s) \/ WriteTryLock(t, s)
    BY <1>4, TryRelockKeeps DEF UniqueTryLock, SharedTryLock, WriteTryLock
  <1>5. CASE \E s \in Slots : UniqueUnlock(t, s) \/ SharedUnlock(t, s) \/ WriteUnlock(t, s)
    BY <1>5, UnlockKeeps, SlotAssumption DEF UniqueUnlock, SharedUnlock, WriteUnlock, IsShared, IsWrite
  <1>6. CASE \E s \in Slots : GuardRelease(t, s) \/ DestroyPlain(t, s) \/ Destroy(t, s)
    BY <1>6, ReleaseKeeps, DestroyPlainKeeps, DestroyKeeps
  <1>7. CASE \E s, d \in Slots : MoveUnique(t, s, d) \/ MoveShared(t, s, d) \/ MoveWrite(t, s, d)
    BY <1>7, MoveKeeps DEF MoveUnique, MoveShared, MoveWrite, IsShared, IsWrite
  <1>8. CASE \E s, d \in Slots : MoveAssign(t, s, d) \/ SwapGuards(t, s, d)
    BY <1>8, MoveAssignKeeps, SwapKeeps
  <1>9. CASE \E l \in Locks : RawUnlock(t, l) \/ \E how \in {"raw", "timed"} : RawLock(t, l, how)
    BY <1>9, RawUnlockKeeps, RawLockKeeps
  <1>10. CASE \E m1, m2 \in Locks : ConstructScoped(t, m1, m2)
    BY <1>10, ConstructScopedKeeps
  <1>11. CASE GiveUp(t) \/ DestroyScopedFirst(t) \/ DestroyScopedSecond(t)
    BY <1>11, GiveUpKeeps, DestroyFirstKeeps, DestroySecondKeeps
  <1>12. CASE RawLockReturns(t) \/ GuardLockReturns(t) \/ ScopedLockReturns(t)
    BY <1>12, RawReturnKeeps, GuardReturnKeeps, ScopedReturnKeeps
  <1> QED BY <1>1, <1>2, <1>3, <1>4, <1>5, <1>6, <1>7, <1>8, <1>9, <1>10, <1>11, <1>12 DEF Step

-----------------------------------------------------------------------------
\* What the invariant says of the locks.
LEMMA LocksHeldByOne == LockInv => HeldByOneOwner
  <1> SUFFICES ASSUME LockInv, NEW l \in Locks
               PROVE  /\ \A g, h \in Holders(l) : g = h \/ (g[1] = h[1] /\ l \in Recursive)
                      /\ \A t \in Threads :
                            /\ writer[l][t] = Cardinality({h \in Holders(l) : h[1] = t})
                            /\ readers[l][t] = Cardinality(Owners(t, l, "shared"))
    BY DEF HeldByOneOwner
  <1> DEFINE B(t) == Bound(t, l, "exclusive")
  <1>1. \A h : h \in Holders(l) <=> \E t \in Threads : \E x \in B(t) : h = <<t, x>>
    <2>1. \A t, x : x \in B(t) => x \in Slots \cup {"raw", "scoped"}
      BY DEF Bound, Tokens
    <2>2. \A t : /\ \A x \in Slots : x \in B(t) <=> x \in Owners(t, l, "exclusive")
                 /\ "raw" \in B(t) <=> l \in loose[t]
                 /\ "scoped" \in B(t) <=> l \in scoped[t].locked
                 /\ \A x : x \in Owners(t, l, "exclusive") => x \in Slots
      BY SlotAssumption DEF Bound, Tokens, NoSlots, Owners
    <2> HIDE DEF B
    <2> QED BY <2>1, <2>2 DEF Holders
  <1>2. ASSUME NEW g \in Holders(l), NEW h \in Holders(l)
        PROVE  g = h \/ (g[1] = h[1] /\ l \in Recursive)
    <2>1. PICK t \in Threads, x \in Tokens : x \in B(t) /\ g = <<t, x>>
      BY <1>1 DEF Bound
    <2>2. PICK u \in Threads, y \in Tokens : y \in B(u) /\ h = <<u, y>>
      BY <1>1 DEF Bound
    <2>3. \A v \in Threads : B(v) # {} => writer[l][v] > 0
      <3> SUFFICES ASSUME NEW v \in Threads, B(v) # {} PROVE Cardinality(B(v)) \in Nat \ {0}
        BY DEF LockInv, Counted
      <3> QED BY FiniteBound, FS_EmptySet
    <2>4. t = u
      BY <2>1, <2>2, <2>3 DEF LockInv, Excluded
    <2>5. CASE x # y
      <3>1. {x, y} \subseteq B(t)
        BY <2>1, <2>2, <2>4
      <3>2. 2 <= Cardinality(B(t))
        <4>1. Cardinality({x, y}) = 2
          BY <2>5, PairSize
        <4>2. Cardinality({x, y}) <= Cardinality(B(t))
          BY <3>1, FiniteBound, FS_Subset
        <4> QED BY <4>1, <4>2
      <3>3. writer[l][t] > 1
        BY <3>2, FiniteBound DEF LockInv, Counted
      <3> QED BY <3>3, <2>1, <2>2, <2>4 DEF LockInv, Excluded
    <2> QED BY <2>1, <2>2, <2>4, <2>5
  <1>3. ASSUME NEW t \in Threads
        PROVE  writer[l][t] = Cardinality({h \in Holders(l) : h[1] = t})
    <2> DEFINE H == {h \in Holders(l) : h[1] = t}
               f == [x \in B(t) |-> <<t, x>>]
    <2>1. \A h : h \in H <=> \E x \in B(t) : h = <<t, x>>
      BY <1>1
    <2>2. f \in Bijection(B(t), H)
      <3> HIDE DEF H, B
      <3>1. f \in [B(t) -> H] /\ \A h \in H : \E x \in B(t) : f[x] = h
        BY <2>1
      <3>2. \A x, y \in B(t) : f[x] = f[y] => x = y
        OBVIOUS
      <3> QED BY <3>1, <3>2 DEF Bijection, Injection, Surjection, IsInjective
    <2>3. Cardinality(H) = Cardinality(B(t))
      BY <2>2, FiniteBound, FS_Bijection DEF ExistsBijection
    <2> QED BY <2>3 DEF LockInv, Counted
  <1>4. ASSUME NEW t \in Threads
        PROVE  readers[l][t] = Cardinality(Owners(t, l, "shared"))
    <2>1. Bound(t, l, "shared") = Owners(t, l, "shared")
      BY SlotAssumption DEF Bound, Tokens, NoSlots, Owners
    <2> QED BY <2>1 DEF LockInv, Counted
  <1> QED BY <1>2, <1>3, <1>4

\* Each thread waits for a lock above those that it holds.
LEMMA ChainsClimb == LockInv => WaitsClimb
  <1> SUFFICES ASSUME LockInv, NEW t \in Threads, NEW u \in Threads, NEW v \in Threads,
                      WaitsFor(t, u), WaitsFor(u, v)
               PROVE  want[t].lock < want[u].lock
    BY DEF WaitsClimb
  <1> DEFINE l == want[t].lock
             k == want[u].lock
             c == scoped[u]
  <1>1. want[t] # NoCall /\ want[u] # NoCall /\ ~Nested(u, k) /\ l \in Locks /\ k \in Locks
    BY CallTypes DEF WaitsFor
  <1>2. PICK m \in Modes : Bound(u, l, m) # {}
    <2>1. writer[l][u] # 0 \/ readers[l][u] # 0
      BY DEF WaitsFor
    <2>2. \A m \in Modes : Bound(u, l, m) = {} => Cardinality(Bound(u, l, m)) = 0
      BY FS_EmptySet
    <2> QED BY <1>1, <2>1, <2>2 DEF LockInv, Counted, Modes
  <1>3. PICK x \in Bound(u, l, m) : TRUE
    BY <1>2
  <1>4. m = "exclusive" => writer[l][u] > 0
    <2>1. Cardinality(Bound(u, l, m)) \in Nat \ {0}
      BY <1>3, FiniteBound, FS_EmptySet
    <2> QED BY <1>1, <2>1 DEF LockInv, Counted
  <1>5. CASE x \in Slots
    <2>1. guard[u][x].owns /\ x # want[u].slot /\ guard[u][x].mutex = l /\ guard[u][x].mode = m
      BY <1>3, <1>5, BoundOf
    <2>2. l = k /\ l \in Recursive
      BY <1>1, <1>5, <2>1 DEF LockInv, Right, WaitsAlone
    <2>3. m = "exclusive"
      BY <1>5, <2>1, <2>2 DEF LockInv, Right, GuardsRight, Modes
    <2> QED BY <1>1, <1>4, <2>2, <2>3 DEF Nested
  <1>6. CASE x = "raw" /\ x \notin Slots
    <2>1. m = "exclusive" /\ l \in loose[u]
      BY <1>3, <1>6, BoundOf
    <2>2. l = k /\ l \in Recursive
      BY <1>1, <2>1 DEF LockInv, Right, WaitsAlone
    <2> QED BY <1>1, <1>4, <2>1, <2>2 DEF Nested
  <1>7. CASE x = "scoped" /\ x \notin Slots
    <2>1. l \in c.locked
      BY <1>3, <1>7, BoundOf
    <2>2. want[u].slot = "scoped"
      BY <1>1, <2>1 DEF LockInv, Right, WaitsAlone
    <2>3. /\ c.m1 \in Locks /\ c.m2 \in Locks /\ c.m1 # c.m2
          /\ c.locked = {First(c.m1, c.m2)} /\ k = Second(c.m1, c.m2)
      BY <1>1, <2>1, <2>2 DEF LockInv, Right, ScopesRight, NoScope
    <2>4. c.m1 \in Nat /\ c.m2 \in Nat /\ want[t].lock = First(c.m1, c.m2)
      BY <2>1, <2>3, AddressAssumption
    <2>5. First(c.m1, c.m2) < Second(c.m1, c.m2)
      BY <2>3, <2>4 DEF First, Second
    <2> QED BY <2>3, <2>4, <2>5
  <1> QED BY <1>3, <1>5, <1>6, <1>7 DEF Bound, Tokens

-----------------------------------------------------------------------------
(***************************************************************************)
(* The spinlock.                                                           *)
(***************************************************************************)
\* The word is set exactly while one thread is past its compare-and-swap.
SpinInv ==
    /\ at \in [Spinners -> {"idle", "look", "spin", "cas", "tryLook", "tryCas", "critical"}]
    /\ locked \in {0, 1}
    /\ locked = 1 <=> \E t \in Spinners : at[t] = "critical"
    /\ \A t, u \in Spinners : at[t] = "critical" /\ at[u] = "critical" => t = u

\* Cardinality is one operator in the four modules.
LEMMA SameCardinality ==
    \A A : /\ S!Cardinality(A) = Cardinality(A)
           /\ K!Cardinality(A) = Cardinality(A)
           /\ T!Cardinality(A) = Cardinality(A)
  BY DEF S!Cardinality, K!Cardinality, T!Cardinality, Cardinality,
         S!IsFiniteSet, K!IsFiniteSet, T!IsFiniteSet, IsFiniteSet

\* Initially no thread is in the spinlock.
LEMMA SpinInit == S!Init => SpinInv
  BY DEF S!Init, SpinInv

\* Each step keeps the spinlock's invariant.
LEMMA SpinStays == SpinInv /\ S!Next => SpinInv'
  <1> SUFFICES ASSUME SpinInv, NEW t \in Spinners, S!Step(t) PROVE SpinInv'
    BY DEF S!Next
  <1>1. CASE S!Call(t) \/ S!Look(t) \/ S!SpinEnds(t) \/ S!TryLook(t)
    <2>1. PICK label \in {"idle", "look", "spin", "cas", "tryLook", "tryCas"} :
             at' = [at EXCEPT ![t] = label] /\ locked' = locked /\ at[t] # "critical"
      BY <1>1 DEF S!Call, S!Look, S!SpinEnds, S!TryLook, S!Goto
    <2> QED BY <2>1 DEF SpinInv
  <1>2. CASE S!Cas(t) \/ S!TryCas(t)
    <2>1. /\ at[t] # "critical" /\ locked' = 1
          /\ \/ locked = 0 /\ at' = [at EXCEPT ![t] = "critical"]
             \/ locked # 0 /\ \E label \in {"spin", "idle"} : at' = [at EXCEPT ![t] = label]
      BY <1>2 DEF S!Cas, S!TryCas, S!Goto
    <2>2. CASE locked = 0
      BY <2>1, <2>2 DEF SpinInv
    <2>3. CASE locked # 0
      <3>1. PICK label \in {"spin", "idle"} : at' = [at EXCEPT ![t] = label]
        BY <2>1, <2>3
      <3> QED BY <2>1, <2>3, <3>1 DEF SpinInv
    <2> QED BY <2>2, <2>3
  <1>3. CASE S!Unlock(t)
    BY <1>3 DEF S!Unlock, S!Goto, SpinInv
  <1> QED BY <1>1, <1>2, <1>3 DEF S!Step

\* The invariant says that one thread holds the spinlock.
LEMMA SpinHeldByOne == SpinInv => S!HeldByOneSpinner
  <1> SUFFICES ASSUME SpinInv PROVE S!HeldByOneSpinner
    OBVIOUS
  <1> DEFINE holders == {t \in Spinners : at[t] = "critical"}
  <1>1. CASE locked = 1
    <2>1. PICK t \in Spinners : at[t] = "critical"
      BY <1>1 DEF SpinInv
    <2>2. holders = {t}
      BY <2>1 DEF SpinInv
    <2>3. Cardinality(holders) = 1
      BY <2>2, FS_Singleton
    <2> QED BY <1>1, <2>3, SameCardinality DEF S!HeldByOneSpinner, S!IsLocked
  <1>2. CASE locked = 0
    <2>1. holders = {}
      BY <1>2 DEF SpinInv
    <2>2. Cardinality(holders) = 0
      BY <2>1, FS_EmptySet
    <2> QED BY <1>2, <2>2, SameCardinality DEF S!HeldByOneSpinner, S!IsLocked
  <1> QED BY <1>1, <1>2 DEF SpinInv

-----------------------------------------------------------------------------
(***************************************************************************)
(* The threads and their handles.                                          *)
(***************************************************************************)
\* Variable h may join thread i.
MayJoin(h, i) == handle[h].joinable /\ handle[h].id = i

\* A thread that was started belongs to one variable, until it is joined or
\* detached, once; only a thread that has ended was joined; its task is alive
\* until it has run.
ThreadRight(i) ==
    /\ \A g, h \in Handles : MayJoin(g, i) /\ MayJoin(h, i) => g = h
    /\ thread[i] = "none" => reaped[i].joined = 0 /\ reaped[i].detached = 0 /\ task[i] \in {"none", "deleted"}
    /\ thread[i] # "none" =>
          \/ reaped[i].joined = 0 /\ reaped[i].detached = 0 /\ \E h \in Handles : MayJoin(h, i)
          \/ /\ reaped[i].joined + reaped[i].detached = 1
             /\ \A h \in Handles : ~MayJoin(h, i)
    /\ reaped[i].joined > 0 => thread[i] = "ended"
    /\ thread[i] = "ended" => task[i] = "deleted"
    /\ thread[i] \in {"running", "ran"} => task[i] = "alive"

HandleInv ==
    /\ handle \in [Handles -> [id : Ids \cup {NoId}, joinable : BOOLEAN]]
    /\ thread \in [Ids -> {"none", "running", "ran", "ended"}]
    /\ task \in [Ids -> {"none", "alive", "deleted", "misused"}]
    /\ reaped \in [Ids -> [joined : Nat, detached : Nat]]
    /\ joining \in Handles \cup {NoId}
    /\ joining \in Handles => handle[joining].joinable
    /\ \A h \in Handles : IF handle[h].joinable THEN /\ handle[h].id \in Ids
                                                     /\ thread[handle[h].id] # "none"
                                                ELSE handle[h] = T!Empty
    /\ \A i \in Ids : ThreadRight(i)

\* Initially no thread was started.
LEMMA HandleInit == T!Init => HandleInv
  <1> SUFFICES ASSUME T!Init PROVE HandleInv
    OBVIOUS
  <1>1. \A h \in Handles : handle[h] = T!Empty
    BY DEF T!Init
  <1>2. T!Empty = [id |-> NoId, joinable |-> FALSE] /\ NoId \notin Handles
    BY ThreadsAssumption DEF T!Empty, T!ConstantsAssumption
  <1>3. \A i \in Ids : ThreadRight(i)
    BY <1>1, <1>2 DEF T!Init, ThreadRight, MayJoin
  <1> QED BY <1>1, <1>2, <1>3 DEF T!Init, HandleInv

\* A step that does not concern thread k, one that joins or detaches it, one
\* that moves it from a variable to another.
LEMMA NotConcerned ==
    ASSUME HandleInv, NEW k \in Ids, \A g \in Handles : MayJoin(g, k)' <=> MayJoin(g, k),
           thread'[k] = thread[k], task'[k] = task[k], reaped'[k] = reaped[k]
    PROVE  ThreadRight(k)'
  BY DEF HandleInv, ThreadRight

\* A thread whose one handle joins or detaches it was reaped once.
LEMMA LetGo ==
    ASSUME HandleInv, NEW k \in Ids, NEW h \in Handles, MayJoin(h, k), \A g \in Handles : ~MayJoin(g, k)',
           thread'[k] = thread[k], task'[k] = task[k],
           \/ reaped'[k] = [reaped[k] EXCEPT !.detached = @ + 1]
           \/ reaped'[k] = [reaped[k] EXCEPT !.joined = @ + 1] /\ thread[k] = "ended"
    PROVE  ThreadRight(k)' /\ reaped'[k] \in [joined : Nat, detached : Nat]
  <1>1. thread[k] # "none" /\ reaped[k].joined = 0 /\ reaped[k].detached = 0
        /\ reaped[k] \in [joined : Nat, detached : Nat]
    BY DEF HandleInv, ThreadRight, MayJoin
  <1>2. /\ reaped'[k] \in [joined : Nat, detached : Nat] /\ reaped'[k].joined + reaped'[k].detached = 1
        /\ reaped'[k].joined > 0 => thread[k] = "ended"
    BY <1>1
  <1> QED BY <1>1, <1>2 DEF HandleInv, ThreadRight

\* A handle that is moved takes the thread along.
LEMMA Moved ==
    ASSUME HandleInv, NEW k \in Ids, NEW g \in Handles, NEW h \in Handles, ~MayJoin(h, k),
           MayJoin(h, k)' <=> MayJoin(g, k), ~MayJoin(g, k)',
           \A f \in Handles : f # g /\ f # h => (MayJoin(f, k)' <=> MayJoin(f, k)),
           thread'[k] = thread[k], task'[k] = task[k], reaped'[k] = reaped[k]
    PROVE  ThreadRight(k)'
  <1>1. ThreadRight(k)
    BY DEF HandleInv
  <1>2. \A e, f \in Handles : MayJoin(e, k)' /\ MayJoin(f, k)' => e = f
    BY <1>1 DEF ThreadRight
  <1>3. (\E f \in Handles : MayJoin(f, k)) <=> \E f \in Handles : MayJoin(f, k)'
    OBVIOUS
  <1> QED BY <1>1, <1>2, <1>3 DEF ThreadRight

\* Each call on a handle keeps the relation of threads and handles.
LEMMA HandleStays == HandleInv /\ T!Next => HandleInv'
  <1> SUFFICES ASSUME HandleInv, T!Next PROVE HandleInv'
    OBVIOUS
  <1> USE DEF MayJoin
  <1>1. T!Empty = [id |-> NoId, joinable |-> FALSE] /\ NoId \notin Handles /\ NoId \notin Ids
    BY ThreadsAssumption DEF T!Empty, T!ConstantsAssumption
  <1>2. ASSUME NEW h \in Handles, NEW i \in Ids, T!Start(h, i) PROVE HandleInv'
    <2>1. /\ handle' \in [Handles -> [id : Ids \cup {NoId}, joinable : BOOLEAN]]
          /\ thread' \in [Ids -> {"none", "running", "ran", "ended"}]
          /\ task' \in [Ids -> {"none", "alive", "deleted", "misused"}]
      BY <1>2 DEF HandleInv, T!Start
    <2>2. /\ \A g \in Handles : handle'[g] = IF g = h THEN [id |-> i, joinable |-> TRUE] ELSE handle[g]
          /\ \A k \in Ids : /\ thread'[k] = IF k = i THEN "running" ELSE thread[k]
                            /\ task'[k] = IF k = i THEN "alive" ELSE task[k]
          /\ reaped' = reaped /\ joining' = joining /\ joining = NoId /\ ~handle[h].joinable
          /\ thread[i] = "none"
      BY <1>1, <1>2 DEF HandleInv, T!Start
    <2>3. \A k \in Ids : k # i => ThreadRight(k)'
      BY <2>2, NotConcerned
    <2>4. ThreadRight(i)'
      BY <2>2 DEF HandleInv, ThreadRight
    <2> QED BY <1>1, <2>1, <2>2, <2>3, <2>4 DEF HandleInv
  <1>3. ASSUME NEW h \in Handles, NEW i \in Ids, T!StartFails(h, i) PROVE HandleInv'
    BY <1>1, <1>3 DEF HandleInv, ThreadRight, T!StartFails
  <1>4. ASSUME NEW i \in Ids, T!TaskReturns(i) PROVE HandleInv'
    BY <1>1, <1>4 DEF HandleInv, ThreadRight, T!TaskReturns
  <1>5. ASSUME NEW i \in Ids, T!ThreadEnds(i) PROVE HandleInv'
    BY <1>1, <1>5 DEF HandleInv, ThreadRight, T!ThreadEnds, T!Deletes
  <1>6. ASSUME NEW h \in Handles, T!JoinCall(h) PROVE HandleInv'
    BY <1>1, <1>6 DEF HandleInv, ThreadRight, T!JoinCall
  <1>7. ASSUME NEW h \in Handles, handle[h].joinable, NEW i \in Ids, i = handle[h].id,
               handle' = [handle EXCEPT ![h] = T!Empty], joining' = NoId, UNCHANGED <<thread, task>>,
               \/ reaped' = [reaped EXCEPT ![i].detached = @ + 1]
               \/ reaped' = [reaped EXCEPT ![i].joined = @ + 1] /\ thread[i] = "ended"
        PROVE HandleInv'
    <2>1. /\ handle' \in [Handles -> [id : Ids \cup {NoId}, joinable : BOOLEAN]]
          /\ \A g \in Handles : handle'[g] = IF g = h THEN T!Empty ELSE handle[g]
      BY <1>1, <1>7 DEF HandleInv
    <2>2. /\ \A k \in Ids : k # i => reaped'[k] = reaped[k]
          /\ \/ reaped'[i] = [reaped[i] EXCEPT !.detached = @ + 1]
             \/ reaped'[i] = [reaped[i] EXCEPT !.joined = @ + 1] /\ thread[i] = "ended"
          /\ reaped' = [reaped EXCEPT ![i] = reaped'[i]]
      BY <1>7 DEF HandleInv
    <2>3. \A g \in Handles : MayJoin(g, i) => g = h
      BY <1>7 DEF HandleInv, ThreadRight
    <2>4. \A g \in Handles : ~MayJoin(g, i)'
      BY <1>1, <2>1, <2>3
    <2>5. ThreadRight(i)' /\ reaped'[i] \in [joined : Nat, detached : Nat]
      BY <1>7, <2>2, <2>4, LetGo
    <2>6. \A k \in Ids, g \in Handles : k # i => (MayJoin(g, k)' <=> MayJoin(g, k))
      BY <1>1, <1>7, <2>1
    <2>7. \A k \in Ids : k # i => ThreadRight(k)'
      BY <1>7, <2>2, <2>6, NotConcerned
    <2>8. reaped' \in [Ids -> [joined : Nat, detached : Nat]]
      BY <2>2, <2>5 DEF HandleInv
    <2> QED BY <1>1, <1>7, <2>1, <2>5, <2>7, <2>8 DEF HandleInv
  <1>8. ASSUME NEW h \in Handles, T!Detach(h) PROVE HandleInv'
    <2>1. PICK i \in Ids : i = handle[h].id
      BY <1>8 DEF HandleInv, T!Detach
    <2> QED BY <1>7, <1>8, <2>1 DEF T!Detach, T!Detached
  <1>9. CASE T!JoinReturns
    <2>1. PICK h \in Handles : h = joining
      BY <1>9 DEF HandleInv, T!JoinReturns
    <2>2. PICK i \in Ids : i = handle[h].id
      BY <2>1 DEF HandleInv
    <2>3. /\ handle[h].joinable /\ handle' = [handle EXCEPT ![h] = T!Empty] /\ joining' = NoId
          /\ UNCHANGED <<thread, task>>
          /\ reaped' = [reaped EXCEPT ![i].joined = @ + 1] /\ thread[i] = "ended"
      BY <1>9, <2>1, <2>2 DEF HandleInv, T!JoinReturns
    <2> QED BY <1>7, <2>2, <2>3
  <1>10. ASSUME NEW g \in Handles, NEW h \in Handles, g # h, joining = NoId, joining' = NoId,
                UNCHANGED <<thread, task>>,
                handle' = [handle EXCEPT ![h] = handle[g], ![g] = T!Empty],
                \/ handle[h] = T!Empty /\ reaped' = reaped
                \/ reaped' = T!Detached(handle[h])
         PROVE  HandleInv'
    <2>1. /\ handle' \in [Handles -> [id : Ids \cup {NoId}, joinable : BOOLEAN]]
          /\ \A f \in Handles : handle'[f] = IF f = g THEN T!Empty ELSE IF f = h THEN handle[g] ELSE handle[f]
      BY <1>1, <1>10 DEF HandleInv
    <2>2. CASE ~handle[h].joinable
      <3>1. reaped' = reaped
        BY <1>10, <2>2 DEF T!Detached
      <3>2. \A k \in Ids : /\ ~MayJoin(h, k) /\ (MayJoin(h, k)' <=> MayJoin(g, k)) /\ ~MayJoin(g, k)'
                           /\ \A f \in Handles : f # g /\ f # h => (MayJoin(f, k)' <=> MayJoin(f, k))
        BY <1>1, <1>10, <2>1, <2>2
      <3>3. \A k \in Ids : ThreadRight(k)'
        <4> SUFFICES ASSUME NEW k \in Ids PROVE ThreadRight(k)'
          OBVIOUS
        <4>1. reaped'[k] = reaped[k] /\ thread'[k] = thread[k] /\ task'[k] = task[k]
          BY <1>10, <3>1
        <4> QED BY <3>2, <4>1, Moved
      <3> QED BY <1>1, <1>10, <2>1, <3>1, <3>3 DEF HandleInv
    <2>3. CASE handle[h].joinable
      <3>1. PICK i \in Ids : i = handle[h].id
        BY <2>3 DEF HandleInv
      <3>2. reaped' = [reaped EXCEPT ![i].detached = @ + 1]
        BY <1>1, <1>10, <2>3, <3>1 DEF T!Detached
      <3>3. /\ \A k \in Ids : k # i => reaped'[k] = reaped[k]
            /\ reaped'[i] = [reaped[i] EXCEPT !.detached = @ + 1]
            /\ reaped' = [reaped EXCEPT ![i] = reaped'[i]]
        BY <3>2 DEF HandleInv
      <3>4. \A f \in Handles : MayJoin(f, i) => f = h
        BY <2>3, <3>1 DEF HandleInv, ThreadRight
      <3>5. \A f \in Handles : ~MayJoin(f, i)'
        BY <1>1, <1>10, <2>1, <3>4
      <3>6. ThreadRight(i)' /\ reaped'[i] \in [joined : Nat, detached : Nat]
        BY <1>10, <2>3, <3>1, <3>3, <3>5, LetGo
      <3>7. \A k \in Ids : k # i =>
                /\ ~MayJoin(h, k) /\ (MayJoin(h, k)' <=> MayJoin(g, k)) /\ ~MayJoin(g, k)'
                /\ \A f \in Handles : f # g /\ f # h => (MayJoin(f, k)' <=> MayJoin(f, k))
        BY <1>1, <1>10, <2>1, <3>1
      <3>8. \A k \in Ids : k # i => ThreadRight(k)'
        <4> SUFFICES ASSUME NEW k \in Ids, k # i PROVE ThreadRight(k)'
          OBVIOUS
        <4>1. reaped'[k] = reaped[k] /\ thread'[k] = thread[k] /\ task'[k] = task[k]
          BY <1>10, <3>3
        <4> QED BY <3>7, <4>1, Moved
      <3>9. reaped' \in [Ids -> [joined : Nat, detached : Nat]]
        BY <3>3, <3>6 DEF HandleInv
      <3> QED BY <1>1, <1>10, <2>1, <3>6, <3>8, <3>9 DEF HandleInv
    <2> QED BY <2>2, <2>3
  <1>11. ASSUME NEW g \in Handles, NEW h \in Handles, T!MoveConstruct(g, h) \/ T!MoveAssign(g, h)
         PROVE  HandleInv'
    BY <1>10, <1>11 DEF T!MoveConstruct, T!MoveAssign
  <1> QED BY <1>2, <1>3, <1>4, <1>5, <1>6, <1>8, <1>9, <1>11 DEF T!Next

\* The relation says that each thread is reaped once.
LEMMA HandlesReap == HandleInv => T!ThreadsReaped
  <1> SUFFICES ASSUME HandleInv, NEW i \in Ids
               PROVE  /\ Cardinality(T!Holders(i)) + reaped[i].joined + reaped[i].detached =
                            IF thread[i] = "none" THEN 0 ELSE 1
                      /\ reaped[i].joined > 0 => thread[i] = "ended"
                      /\ task[i] # "misused"
                      /\ thread[i] = "ended" => task[i] = "deleted"
                      /\ thread[i] \in {"running", "ran"} => task[i] = "alive"
    BY SameCardinality DEF T!ThreadsReaped
  <1>1. CASE T!Holders(i) = {}
    <2>1. Cardinality(T!Holders(i)) = 0 /\ \A h \in Handles : ~MayJoin(h, i)
      BY <1>1, FS_EmptySet DEF T!Holders, MayJoin
    <2> QED BY <2>1 DEF HandleInv, ThreadRight
  <1>2. CASE T!Holders(i) # {}
    <2>1. PICK h \in Handles : MayJoin(h, i)
      BY <1>2 DEF T!Holders, MayJoin
    <2>2. T!Holders(i) = {h}
      BY <2>1 DEF T!Holders, MayJoin, HandleInv, ThreadRight
    <2>3. Cardinality(T!Holders(i)) = 1
      BY <2>2, FS_Singleton
    <2> QED BY <2>1, <2>3 DEF HandleInv, ThreadRight, MayJoin
  <1> QED BY <1>1, <1>2

-----------------------------------------------------------------------------
(***************************************************************************)
(* Waiting on a condition.                                                 *)
(***************************************************************************)
Places == {"outside", "check", "asleep", "woken", "timedOut", "checkLast", "returned"}

\* A waiter is in its critical section exactly while it holds the mutex; the
\* sleep of a wait_for() ends no sooner than the call may; what it answered
\* is what the flag says while it has the mutex.
WaitRight(w) ==
    /\ wait[w].at \in {"check", "checkLast", "returned"} <=> mutex = w
    /\ wait[w].at = "outside" => wait[w] = C!Outside
    /\ wait[w].at # "outside" => asked[w] <= now + Timeout
    /\ wait[w].at = "asleep" => asked[w] <= deadline[w]
    /\ wait[w].at \in {"timedOut", "checkLast"} => wait[w].timed /\ asked[w] <= now
    /\ wait[w].at = "returned" =>
          /\ wait[w].answer = flag
          /\ ~wait[w].answer => wait[w].timed /\ asked[w] <= now

Awake(w) == wait[w].at \in {"check", "woken", "timedOut", "checkLast", "returned"}

WaitInv ==
    /\ flag \in BOOLEAN /\ notifying \in BOOLEAN /\ mutex \in Waiters \cup {Nobody}
    /\ wait \in [Waiters -> [at : Places, timed : BOOLEAN, answer : BOOLEAN]]
    /\ deadline \in [Waiters -> Nat] /\ asked \in [Waiters -> Nat] /\ now \in Nat
    /\ \A w \in Waiters : WaitRight(w)
    /\ flag /\ ~notifying /\ (\E w \in Waiters : wait[w].at = "asleep") => \E w \in Waiters : Awake(w)

\* Initially nobody waits.
LEMMA WaitInit == C!Init => WaitInv
  <1> SUFFICES ASSUME C!Init PROVE WaitInv
    OBVIOUS
  <1>1. Nobody \notin Waiters /\ Timeout \in Nat
    BY ConditionAssumption DEF C!ConstantsAssumption
  <1>2. wait \in [Waiters -> [at : Places, timed : BOOLEAN, answer : BOOLEAN]]
    BY DEF C!Init, C!Outside, Places
  <1> QED BY <1>1, <1>2 DEF C!Init, C!Outside, WaitInv, WaitRight

\* Each step keeps the invariant of waits.
LEMMA WaitStays == WaitInv /\ C!Next => WaitInv'
  <1> SUFFICES ASSUME WaitInv, C!Next PROVE WaitInv'
    OBVIOUS
  <1> USE DEF Awake
  <1>1. Nobody \notin Waiters /\ Timeout \in Nat
    BY ConditionAssumption DEF C!ConstantsAssumption
  <1>2. ASSUME NEW w \in Waiters, NEW x \in [at : Places, timed : BOOLEAN, answer : BOOLEAN],
               wait' = [wait EXCEPT ![w] = x]
        PROVE  /\ wait' \in [Waiters -> [at : Places, timed : BOOLEAN, answer : BOOLEAN]]
               /\ \A v \in Waiters : wait'[v] = IF v = w THEN x ELSE wait[v]
    BY <1>2 DEF WaitInv
  <1>3. ASSUME NEW w \in Waiters, NEW timed \in BOOLEAN, C!Enter(w, timed) PROVE WaitInv'
    <2> DEFINE x == [at |-> "check", timed |-> timed, answer |-> FALSE]
    <2>1. x \in [at : Places, timed : BOOLEAN, answer : BOOLEAN] /\ wait' = [wait EXCEPT ![w] = x]
      BY <1>3 DEF C!Enter, Places
    <2>2. /\ wait' \in [Waiters -> [at : Places, timed : BOOLEAN, answer : BOOLEAN]]
          /\ \A v \in Waiters : wait'[v] = IF v = w THEN x ELSE wait[v]
      BY <1>2, <2>1
    <2>3. asked' \in [Waiters -> Nat] /\ \A v \in Waiters : asked'[v] = IF v = w THEN now + Timeout ELSE asked[v]
      BY <1>1, <1>3 DEF WaitInv, C!Enter
    <2>4. /\ mutex = Nobody /\ mutex' = w /\ UNCHANGED <<flag, notifying, deadline, now>>
          /\ wait[w].at = "outside"
      BY <1>3 DEF C!Enter, C!Outside
    <2>5. \A v \in Waiters : WaitRight(v)'
      BY <1>1, <2>2, <2>3, <2>4 DEF WaitInv, WaitRight
    <2>6. (\E v \in Waiters : wait'[v].at = "asleep") => \E v \in Waiters : Awake(v)'
      BY <2>2
    <2> QED BY <2>2, <2>3, <2>4, <2>5, <2>6 DEF WaitInv
  <1>4. ASSUME NEW w \in Waiters, C!Check(w) PROVE WaitInv'
    <2>1. wait[w] \in [at : Places, timed : BOOLEAN, answer : BOOLEAN] /\ mutex = w /\ wait[w].at = "check"
      BY <1>4 DEF WaitInv, WaitRight, C!Check
    <2>2. CASE flag
      <3> DEFINE x == [wait[w] EXCEPT !.at = "returned", !.answer = TRUE]
      <3>1. /\ x \in [at : Places, timed : BOOLEAN, answer : BOOLEAN] /\ wait' = [wait EXCEPT ![w] = x]
            /\ x.at = "returned" /\ x.answer = TRUE /\ x.timed = wait[w].timed
        BY <1>4, <2>1, <2>2 DEF C!Check, C!Return, Places, WaitInv
      <3> HIDE DEF x
      <3>2. /\ wait' \in [Waiters -> [at : Places, timed : BOOLEAN, answer : BOOLEAN]]
            /\ \A v \in Waiters : wait'[v] = IF v = w THEN x ELSE wait[v]
        BY <1>2, <3>1
      <3>3. UNCHANGED <<flag, notifying, mutex, deadline, asked, now>>
        BY <1>4, <2>2 DEF C!Check
      <3>4. \A v \in Waiters : WaitRight(v)'
        BY <2>1, <2>2, <3>1, <3>2, <3>3 DEF WaitInv, WaitRight
      <3>5. \E v \in Waiters : Awake(v)'
        BY <3>1, <3>2
      <3> QED BY <3>2, <3>3, <3>4, <3>5 DEF WaitInv
    <2>3. CASE ~flag
      <3> DEFINE x == [wait[w] EXCEPT !.at = "asleep"]
      <3>1. /\ x \in [at : Places, timed : BOOLEAN, answer : BOOLEAN] /\ wait' = [wait EXCEPT ![w] = x]
            /\ x.at = "asleep" /\ x.timed = wait[w].timed
        BY <1>4, <2>1, <2>3 DEF C!Check, C!Goto, Places, WaitInv
      <3> HIDE DEF x
      <3>2. /\ wait' \in [Waiters -> [at : Places, timed : BOOLEAN, answer : BOOLEAN]]
            /\ \A v \in Waiters : wait'[v] = IF v = w THEN x ELSE wait[v]
        BY <1>2, <3>1
      <3>3. /\ mutex' = Nobody /\ UNCHANGED <<flag, notifying, asked, now>>
            /\ deadline' \in [Waiters -> Nat]
            /\ \A v \in Waiters : deadline'[v] = IF v = w THEN now + Timeout ELSE deadline[v]
        BY <1>1, <1>4, <2>3 DEF C!Check, WaitInv
      <3>4. \A v \in Waiters : WaitRight(v)'
        BY <1>1, <2>1, <3>1, <3>2, <3>3 DEF WaitInv, WaitRight
      <3> QED BY <2>3, <3>2, <3>3, <3>4 DEF WaitInv
    <2> QED BY <2>2, <2>3 DEF WaitInv
  <1>5. ASSUME NEW w \in Waiters, NEW label \in {"woken", "timedOut", "check", "checkLast"},
               C!Goto(w, label), UNCHANGED <<flag, notifying, deadline, asked, now>>,
               \/ wait[w].at = "asleep" /\ mutex' = mutex
                  /\ (label = "woken" \/ (label = "timedOut" /\ wait[w].timed /\ now >= deadline[w]))
               \/ wait[w].at = "woken" /\ mutex = Nobody /\ mutex' = w /\ label = "check"
               \/ wait[w].at = "timedOut" /\ mutex = Nobody /\ mutex' = w /\ label = "checkLast"
        PROVE  WaitInv'
    <2> DEFINE x == [wait[w] EXCEPT !.at = label]
    <2>1. wait[w] \in [at : Places, timed : BOOLEAN, answer : BOOLEAN]
      BY DEF WaitInv
    <2>2. /\ x \in [at : Places, timed : BOOLEAN, answer : BOOLEAN] /\ wait' = [wait EXCEPT ![w] = x]
          /\ x.at = label /\ x.timed = wait[w].timed
      BY <1>5, <2>1 DEF C!Goto, Places, WaitInv
    <2> HIDE DEF x
    <2>3. /\ wait' \in [Waiters -> [at : Places, timed : BOOLEAN, answer : BOOLEAN]]
          /\ \A v \in Waiters : wait'[v] = IF v = w THEN x ELSE wait[v]
      BY <1>2, <2>2
    <2>4. asked[w] <= now + Timeout /\ deadline[w] \in Nat /\ asked[w] \in Nat /\ now \in Nat
          /\ (wait[w].at = "asleep" => asked[w] <= deadline[w])
          /\ (wait[w].at = "timedOut" => wait[w].timed /\ asked[w] <= now)
          /\ (mutex = Nobody \/ mutex # w)
      BY <1>1, <1>5 DEF WaitInv, WaitRight
    <2>5. WaitRight(w)'
      BY <1>1, <1>5, <2>2, <2>3, <2>4 DEF WaitRight
    <2>6. \A v \in Waiters : v # w => WaitRight(v)'
      BY <1>1, <1>5, <2>3 DEF WaitInv, WaitRight
    <2>7. \E v \in Waiters : Awake(v)'
      BY <1>5, <2>2, <2>3
    <2> QED BY <1>5, <2>3, <2>5, <2>6, <2>7 DEF WaitInv
  <1>6. ASSUME NEW w \in Waiters, C!WakeSpuriously(w) \/ C!SleepEnds(w) \/ C!Relock(w) PROVE WaitInv'
    <2>1. CASE C!WakeSpuriously(w)
      <3>1. /\ wait[w].at = "asleep" /\ mutex' = mutex /\ C!Goto(w, "woken")
            /\ UNCHANGED <<flag, notifying, deadline, asked, now>>
        BY <2>1 DEF C!WakeSpuriously
      <3> QED BY <1>5, <3>1
    <2>2. CASE C!SleepEnds(w)
      BY <1>5, <2>2 DEF C!SleepEnds
    <2>3. CASE C!Relock(w)
      BY <1>5, <2>3 DEF C!Relock
    <2> QED BY <1>6, <2>1, <2>2, <2>3
  <1>7. ASSUME NEW w \in Waiters, C!CheckLast(w) PROVE WaitInv'
    <2> DEFINE x == [wait[w] EXCEPT !.at = "returned", !.answer = flag]
    <2>1. wait[w] \in [at : Places, timed : BOOLEAN, answer : BOOLEAN]
      BY DEF WaitInv
    <2>2. /\ x \in [at : Places, timed : BOOLEAN, answer : BOOLEAN] /\ wait' = [wait EXCEPT ![w] = x]
          /\ x.at = "returned" /\ x.answer = flag /\ x.timed = wait[w].timed
      BY <1>7, <2>1 DEF C!CheckLast, C!Return, Places, WaitInv
    <2> HIDE DEF x
    <2>3. /\ wait' \in [Waiters -> [at : Places, timed : BOOLEAN, answer : BOOLEAN]]
          /\ \A v \in Waiters : wait'[v] = IF v = w THEN x ELSE wait[v]
      BY <1>2, <2>2
    <2>4. UNCHANGED <<flag, notifying, mutex, deadline, asked, now>> /\ wait[w].at = "checkLast"
      BY <1>7 DEF C!CheckLast
    <2>5. \A v \in Waiters : WaitRight(v)'
      BY <2>2, <2>3, <2>4 DEF WaitInv, WaitRight
    <2>6. \E v \in Waiters : Awake(v)'
      BY <2>2, <2>3
    <2> QED BY <2>3, <2>4, <2>5, <2>6 DEF WaitInv
  <1>8. ASSUME NEW w \in Waiters, C!Leave(w) PROVE WaitInv'
    <2>1. C!Outside \in [at : Places, timed : BOOLEAN, answer : BOOLEAN] /\ C!Outside.at = "outside"
      BY DEF C!Outside, Places
    <2>2. /\ wait' \in [Waiters -> [at : Places, timed : BOOLEAN, answer : BOOLEAN]]
          /\ \A v \in Waiters : wait'[v] = IF v = w THEN C!Outside ELSE wait[v]
      BY <1>2, <1>8, <2>1 DEF C!Leave
    <2>3. /\ mutex = w /\ wait[w].answer = flag /\ ~flag' /\ flag' \in BOOLEAN
          /\ mutex' = Nobody /\ UNCHANGED <<notifying, deadline, asked, now>>
      BY <1>8 DEF C!Leave, WaitInv, WaitRight
    <2>4. \A v \in Waiters : WaitRight(v)'
      BY <1>1, <2>1, <2>2, <2>3 DEF WaitInv, WaitRight
    <2> QED BY <2>2, <2>3, <2>4 DEF WaitInv
  <1>9. CASE C!SetFlag
    <2>1. mutex = Nobody /\ flag' = TRUE /\ notifying' = TRUE /\ UNCHANGED <<mutex, wait, deadline, asked, now>>
      BY <1>9 DEF C!SetFlag
    <2>2. \A v \in Waiters : WaitRight(v)'
      BY <1>1, <2>1 DEF WaitInv, WaitRight
    <2> QED BY <2>1, <2>2 DEF WaitInv
  <1>10. ASSUME UNCHANGED <<flag, mutex, deadline, asked, now>>, notifying' = FALSE,
                wait' \in [Waiters -> [at : Places, timed : BOOLEAN, answer : BOOLEAN]],
                \A v \in Waiters : wait'[v] = wait[v] \/ (wait[v].at = "asleep" /\ wait'[v].at = "woken"),
                (\E v \in Waiters : wait'[v].at = "asleep") => \E v \in Waiters : Awake(v)'
         PROVE  WaitInv'
    <2>1. \A v \in Waiters : WaitRight(v)'
      BY <1>10 DEF WaitInv, WaitRight
    <2> QED BY <1>10, <2>1 DEF WaitInv
  <1>11. CASE C!NotifyOne
    <2> DEFINE sleepers == {v \in Waiters : wait[v].at = "asleep"}
    <2>1. UNCHANGED <<flag, mutex, deadline, asked, now>> /\ notifying' = FALSE
      BY <1>11 DEF C!NotifyOne
    <2>2. CASE sleepers = {}
      <3>1. wait' = wait
        BY <1>11, <2>2 DEF C!NotifyOne
      <3>2. /\ wait' \in [Waiters -> [at : Places, timed : BOOLEAN, answer : BOOLEAN]]
            /\ \A v \in Waiters : wait'[v] = wait[v] /\ wait'[v].at # "asleep"
        BY <2>2, <3>1 DEF WaitInv
      <3> QED BY <1>10, <2>1, <3>2
    <2>3. CASE sleepers # {}
      <3>1. PICK w \in Waiters : wait[w].at = "asleep" /\ C!Goto(w, "woken")
        BY <1>11, <2>3 DEF C!NotifyOne
      <3> DEFINE x == [wait[w] EXCEPT !.at = "woken"]
      <3>2. wait[w] \in [at : Places, timed : BOOLEAN, answer : BOOLEAN]
        BY DEF WaitInv
      <3>3. /\ x \in [at : Places, timed : BOOLEAN, answer : BOOLEAN] /\ wait' = [wait EXCEPT ![w] = x]
            /\ x.at = "woken"
        BY <3>1, <3>2 DEF C!Goto, Places, WaitInv
      <3> HIDE DEF x
      <3>4. /\ wait' \in [Waiters -> [at : Places, timed : BOOLEAN, answer : BOOLEAN]]
            /\ \A v \in Waiters : wait'[v] = IF v = w THEN x ELSE wait[v]
        BY <1>2, <3>3
      <3>5. \E v \in Waiters : Awake(v)'
        BY <3>3, <3>4
      <3>6. \A v \in Waiters : wait'[v] = wait[v] \/ (wait[v].at = "asleep" /\ wait'[v].at = "woken")
        BY <3>1, <3>3, <3>4
      <3> QED BY <1>10, <2>1, <3>4, <3>5, <3>6
    <2> QED BY <2>2, <2>3
  <1>12. CASE C!NotifyAll
    <2>1. UNCHANGED <<flag, mutex, deadline, asked, now>> /\ notifying' = FALSE
      BY <1>12 DEF C!NotifyAll
    <2>2. wait' = [w \in Waiters |-> IF wait[w].at = "asleep" THEN [wait[w] EXCEPT !.at = "woken"] ELSE wait[w]]
      BY <1>12 DEF C!NotifyAll
    <2>3. \A w \in Waiters : /\ wait[w] \in [at : Places, timed : BOOLEAN, answer : BOOLEAN]
                             /\ [wait[w] EXCEPT !.at = "woken"] \in [at : Places, timed : BOOLEAN, answer : BOOLEAN]
                             /\ [wait[w] EXCEPT !.at = "woken"].at = "woken"
      BY DEF WaitInv, Places
    <2>4. wait' \in [Waiters -> [at : Places, timed : BOOLEAN, answer : BOOLEAN]]
      BY <2>2, <2>3
    <2>5. \A v \in Waiters : wait'[v] = IF wait[v].at = "asleep" THEN [wait[v] EXCEPT !.at = "woken"] ELSE wait[v]
      BY <2>2
    <2>6. \A v \in Waiters : /\ wait'[v] = wait[v] \/ (wait[v].at = "asleep" /\ wait'[v].at = "woken")
                             /\ wait'[v].at # "asleep"
      <3> SUFFICES ASSUME NEW v \in Waiters
                   PROVE  /\ wait'[v] = wait[v] \/ (wait[v].at = "asleep" /\ wait'[v].at = "woken")
                          /\ wait'[v].at # "asleep"
        OBVIOUS
      <3> QED BY <2>3, <2>5
    <2> QED BY <1>10, <2>1, <2>4, <2>6
  <1>13. CASE C!Tick
    <2>1. now' = now + 1 /\ UNCHANGED <<flag, notifying, mutex, wait, deadline, asked>>
      BY <1>13 DEF C!Tick
    <2>2. \A v \in Waiters : WaitRight(v)'
      BY <1>1, <2>1 DEF WaitInv, WaitRight
    <2> QED BY <2>1, <2>2 DEF WaitInv
  <1> QED BY <1>3, <1>4, <1>6, <1>7, <1>8, <1>9, <1>11, <1>12, <1>13 DEF C!Next

\* The invariant says that a wait gives the right answer.
LEMMA WaitsEnd == WaitInv => C!WaitsAnswerRight
  BY DEF WaitInv, WaitRight, Awake, Places, C!WaitsAnswerRight

-----------------------------------------------------------------------------
(***************************************************************************)
(* zen::ticket_lock.  Succ and Ahead are arithmetic modulo TicketMod.  One *)
(* lemma per step of lock(), try_lock() and unlock() shows that it         *)
(* preserves K!IndInv.                                                     *)
(***************************************************************************)
\* A counter has at least one value, since there are fewer threads than values.
LEMMA ModPositive == TicketMod \in Nat /\ TicketMod > 0
  <1>1. Cardinality(Spinners) \in Nat
    BY TicketsAssumption, FS_CardinalityType
  <1> QED
    BY <1>1, TicketsAssumption

\* The wrapping increment of next_ticket_ and serving_ without the modulus: back
\* to 0 from the last value, one more from any other.
LEMMA SuccValue ==
    ASSUME NEW x \in K!Tickets
    PROVE  K!Succ(x) = IF x = TicketMod - 1 THEN 0 ELSE x + 1
  <1> USE ModPositive DEF K!Tickets
  <1>1. CASE x = TicketMod - 1
    <2>1. (x + 1) = TicketMod
      BY <1>1
    <2>2. TicketMod % TicketMod = 0
      BY SMT
    <2> QED BY <2>1, <2>2, <1>1 DEF K!Succ
  <1>2. CASE x # TicketMod - 1
    <2>1. x + 1 \in 0 .. TicketMod - 1
      BY <1>2
    <2>2. \A y \in 0 .. TicketMod - 1 : y % TicketMod = y
      BY SMT
    <2> QED BY <2>1, <2>2, <1>2 DEF K!Succ
  <1> QED BY <1>1, <1>2

\* Ahead counts from one word to another inside one turn of the counters.
LEMMA AheadType ==
    ASSUME NEW a \in K!Tickets, NEW b \in K!Tickets
    PROVE  /\ K!Ahead(a, b) \in K!Tickets
           /\ K!Ahead(a, b) \in Nat
           /\ K!Ahead(a, b) = 0 <=> a = b
  BY ModPositive DEF K!Ahead, K!Tickets

\* A draw moves next_ticket_ one further from every word, unless it was
\* TicketMod - 1 ahead already.
LEMMA AheadDraw ==
    ASSUME NEW a \in K!Tickets, NEW b \in K!Tickets, K!Ahead(a, b) < TicketMod - 1
    PROVE  /\ K!Succ(b) \in K!Tickets
           /\ K!Ahead(a, K!Succ(b)) = K!Ahead(a, b) + 1
  BY ModPositive, SuccValue DEF K!Ahead, K!Tickets

\* An unlock brings serving_ one closer to every word it has not reached.
LEMMA AheadServe ==
    ASSUME NEW a \in K!Tickets, NEW b \in K!Tickets, a # b
    PROVE  /\ K!Succ(a) \in K!Tickets
           /\ K!Ahead(K!Succ(a), b) = K!Ahead(a, b) - 1
  BY ModPositive, SuccValue DEF K!Ahead, K!Tickets

\* Two words equally far from a third are the same word.
LEMMA AheadInjective ==
    ASSUME NEW a \in K!Tickets, NEW b \in K!Tickets, NEW c \in K!Tickets,
           K!Ahead(a, b) = K!Ahead(a, c)
    PROVE  b = c
  BY ModPositive DEF K!Ahead, K!Tickets

\* The threads with an unserved ticket are finitely many, and as long as one
\* thread is not among them they are fewer than the ticket values less one.
LEMMA ActiveBound ==
    ASSUME NEW A \in SUBSET Spinners
    PROVE  /\ IsFiniteSet(A)
           /\ Cardinality(A) \in Nat
           /\ A # Spinners => Cardinality(A) < TicketMod - 1
  <1>1. IsFiniteSet(A) /\ Cardinality(A) <= Cardinality(Spinners)
        /\ (Cardinality(Spinners) = Cardinality(A) => A = Spinners)
    BY TicketsAssumption, FS_Subset
  <1>2. Cardinality(A) \in Nat /\ Cardinality(Spinners) \in Nat
    BY <1>1, TicketsAssumption, FS_CardinalityType
  <1> QED
    BY <1>1, <1>2, TicketsAssumption

\* The constructor: both words are 0 and no thread owns a ticket.
LEMMA TicketInit == K!Init => K!IndInv
  <1> SUFFICES ASSUME K!Init PROVE K!IndInv
    OBVIOUS
  <1> USE DEF K!Init
  <1>1. K!TypeOK
    BY ModPositive, TicketsAssumption DEF K!TypeOK, K!Tickets, K!Labels
  <1>2. K!Active = {}
    BY DEF K!Active
  <1>3. K!TicketsAccounted
    BY <1>2, FS_EmptySet, SameCardinality DEF K!TicketsAccounted, K!Ahead
  <1> QED
    BY <1>1, <1>2, <1>3
    DEF K!IndInv, K!Owned, K!Distinct, K!HolderServed, K!StaleCounted, K!FreshCasServed, K!Trying

\* What a draw does to the other threads: lock() and a successful try_lock()
\* both append the caller at next_ticket_.
LEMMA DrawStep ==
    ASSUME K!IndInv, NEW t \in Spinners, t \notin K!Active,
           ticket' \in [Spinners -> K!Tickets], ticket'[t] = next_ticket,
           \A u \in Spinners \ {t} : ticket'[u] = ticket[u],
           next_ticket' = K!Succ(next_ticket),
           \/ pc' = [pc EXCEPT ![t] = "spin"]
           \/ (pc' = [pc EXCEPT ![t] = "critical"] /\ next_ticket = serving),
           K!NoteDraw(t),
           UNCHANGED serving
    PROVE  K!IndInv'
  <1> USE DEF K!IndInv, K!TypeOK
  <1>1. K!Active' = K!Active \cup {t}
    BY DEF K!Active
  <1>2. Cardinality(K!Active) < TicketMod - 1 /\ IsFiniteSet(K!Active)
    BY ActiveBound DEF K!Active
  <1>3. K!Ahead(serving, next_ticket) < TicketMod - 1
    BY <1>2, SameCardinality DEF K!TicketsAccounted
  <1>4. next_ticket' \in K!Tickets /\ K!Ahead(serving, next_ticket') = K!Ahead(serving, next_ticket) + 1
    BY <1>3, AheadDraw
  <1>5. stale' \in [Spinners -> 0 .. MaxStale]
    BY TicketsAssumption DEF K!NoteDraw
  <1>6. K!TypeOK'
    <2>1. pc' \in [Spinners -> K!Labels]
      BY DEF K!Labels
    <2> QED BY <1>4, <1>5, <2>1
  <1>7. K!TicketsAccounted'
    <2>1. Cardinality(K!Active \cup {t}) = Cardinality(K!Active) + 1
      BY <1>2, FS_AddElement
    <2> QED BY <1>1, <1>4, <2>1, SameCardinality DEF K!TicketsAccounted
  <1>8. K!Owned'
    <2> SUFFICES ASSUME NEW u \in K!Active'
                 PROVE  K!Ahead(serving, ticket'[u]) < K!Ahead(serving, next_ticket')
      BY DEF K!Owned
    <2>1. CASE u = t
      BY <2>1, <1>4, AheadType, ModPositive DEF K!Tickets
    <2>2. CASE u # t
      <3>1. u \in K!Active /\ ticket'[u] = ticket[u] /\ ticket[u] \in K!Tickets
        BY <2>2, <1>1 DEF K!Active
      <3>2. K!Ahead(serving, ticket[u]) < K!Ahead(serving, next_ticket)
        BY <3>1 DEF K!Owned
      <3>3. K!Ahead(serving, ticket[u]) \in Int /\ K!Ahead(serving, next_ticket) \in Int
        BY <3>1, AheadType
      <3> QED BY <3>1, <3>2, <3>3, <1>4
    <2> QED BY <2>1, <2>2
  <1>9. K!Distinct'
    <2> SUFFICES ASSUME NEW u \in K!Active, ticket[u] = next_ticket PROVE FALSE
      BY <1>1 DEF K!Distinct, K!Active
    <2>1. K!Ahead(serving, next_ticket) < K!Ahead(serving, next_ticket)
      BY DEF K!Owned, K!Active
    <2> QED BY <2>1, AheadType
  <1>10. K!HolderServed'
    BY DEF K!HolderServed, K!Active
  <1>11. K!StaleCounted'
    <2> SUFFICES ASSUME NEW u \in Spinners, K!Trying(u)'
                 PROVE  K!Ahead(ticket'[u], next_ticket') = stale'[u]
      BY DEF K!StaleCounted
    <2>1. u # t /\ K!Trying(u) /\ ticket'[u] = ticket[u] /\ ticket[u] \in K!Tickets
      BY DEF K!Trying
    <2>2. stale[u] < MaxStale /\ stale'[u] = stale[u] + 1
      BY <2>1 DEF K!NoteDraw
    <2>3. K!Ahead(ticket[u], next_ticket) = stale[u]
      BY <2>1 DEF K!StaleCounted
    <2>4. K!Ahead(ticket[u], next_ticket) < TicketMod - 1
      BY <2>2, <2>3, TicketsAssumption, ModPositive
    <2> QED BY <2>1, <2>2, <2>3, <2>4, AheadDraw
  <1>12. K!FreshCasServed'
    <2> SUFFICES ASSUME NEW u \in Spinners, pc'[u] = "tryCas", stale'[u] = 0
                 PROVE  FALSE
      BY DEF K!FreshCasServed
    <2>1. u # t /\ K!Trying(u)
      BY DEF K!Trying
    <2> QED BY <2>1 DEF K!NoteDraw
  <1> QED BY <1>6, <1>7, <1>8, <1>9, <1>10, <1>11, <1>12

\* The end of the spin in lock() changes no ticket, only who holds the lock.
LEMMA EnterStep ==
    ASSUME K!IndInv, NEW t \in Spinners, K!Enter(t)
    PROVE  K!IndInv'
  <1> USE DEF K!IndInv, K!TypeOK, K!Enter
  <1>1. K!Active' = K!Active
    BY DEF K!Active
  <1>2. K!TypeOK'
    BY DEF K!Labels
  <1>3. K!TicketsAccounted' /\ K!Owned' /\ K!Distinct'
    BY <1>1 DEF K!TicketsAccounted, K!Owned, K!Distinct, K!Ahead
  <1>4. K!HolderServed'
    BY DEF K!HolderServed
  <1>5. K!StaleCounted' /\ K!FreshCasServed'
    BY DEF K!StaleCounted, K!FreshCasServed, K!Trying, K!Ahead
  <1> QED BY <1>2, <1>3, <1>4, <1>5

\* The first load of try_lock(): the caller starts with no draw missed.
LEMMA TryLoadNextStep ==
    ASSUME K!IndInv, NEW t \in Spinners, K!TryLoadNext(t)
    PROVE  K!IndInv'
  <1> USE DEF K!IndInv, K!TypeOK, K!TryLoadNext
  <1>1. K!Active' = K!Active /\ t \notin K!Active
    BY DEF K!Active
  <1>2. K!TypeOK'
    BY TicketsAssumption DEF K!Labels
  <1>3. K!TicketsAccounted' /\ K!Owned' /\ K!Distinct'
    BY <1>1 DEF K!TicketsAccounted, K!Owned, K!Distinct, K!Ahead, K!Active
  <1>4. K!HolderServed' /\ K!FreshCasServed'
    BY DEF K!HolderServed, K!FreshCasServed
  <1>5. K!StaleCounted'
    <2> SUFFICES ASSUME NEW u \in Spinners, K!Trying(u)'
                 PROVE  K!Ahead(ticket'[u], next_ticket) = stale'[u]
      BY DEF K!StaleCounted, K!Ahead
    <2>1. CASE u = t
      BY <2>1, AheadType
    <2>2. CASE u # t
      BY <2>2 DEF K!StaleCounted, K!Trying
    <2> QED BY <2>1, <2>2
  <1> QED BY <1>2, <1>3, <1>4, <1>5

\* The second load of try_lock(): equal locals are what FreshCasServed records.
LEMMA TryLoadServingStep ==
    ASSUME K!IndInv, NEW t \in Spinners, K!TryLoadServing(t)
    PROVE  K!IndInv'
  <1> USE DEF K!IndInv, K!TypeOK, K!TryLoadServing
  <1>1. K!Active' = K!Active
    BY DEF K!Active
  <1>2. K!TypeOK'
    BY DEF K!Labels
  <1>3. K!TicketsAccounted' /\ K!Owned' /\ K!Distinct'
    BY <1>1 DEF K!TicketsAccounted, K!Owned, K!Distinct, K!Ahead
  <1>4. K!HolderServed' /\ K!FreshCasServed'
    BY DEF K!HolderServed, K!FreshCasServed
  <1>5. K!StaleCounted'
    BY DEF K!StaleCounted, K!Trying, K!Ahead
  <1> QED BY <1>2, <1>3, <1>4, <1>5

\* A failed compare-and-swap leaves both words as they were.
LEMMA TryCasFailsStep ==
    ASSUME K!IndInv, NEW t \in Spinners, K!TryCasFails(t)
    PROVE  K!IndInv'
  <1> USE DEF K!IndInv, K!TypeOK, K!TryCasFails
  <1>1. K!Active' = K!Active
    BY DEF K!Active
  <1>2. K!TypeOK'
    BY DEF K!Labels
  <1>3. K!TicketsAccounted' /\ K!Owned' /\ K!Distinct'
    BY <1>1 DEF K!TicketsAccounted, K!Owned, K!Distinct, K!Ahead
  <1>4. K!HolderServed' /\ K!FreshCasServed' /\ K!StaleCounted'
    BY DEF K!HolderServed, K!FreshCasServed, K!StaleCounted, K!Trying, K!Ahead
  <1> QED BY <1>2, <1>3, <1>4

\* A CAS that succeeds saw no draw since its load of next_ticket_, because
\* fewer than TicketMod draws cannot bring the word back to the same value;
\* so serving_ did not move either and the lock is free.
LEMMA CasFindsFree ==
    ASSUME K!IndInv, NEW t \in Spinners, pc[t] = "tryCas", next_ticket = ticket[t]
    PROVE  next_ticket = serving /\ K!Active = {}
  <1> USE DEF K!IndInv, K!TypeOK
  <1>1. K!Ahead(ticket[t], next_ticket) = 0
    BY AheadType
  <1>2. stale[t] = 0
    BY <1>1 DEF K!StaleCounted, K!Trying
  <1>3. next_ticket = serving
    BY <1>2 DEF K!FreshCasServed
  <1>4. Cardinality(K!Active) = 0
    BY <1>3, AheadType, SameCardinality DEF K!TicketsAccounted
  <1>5. IsFiniteSet(K!Active)
    BY ActiveBound DEF K!Active
  <1> QED BY <1>3, <1>4, <1>5, FS_EmptySet

\* unlock() takes the holder, and nobody else, out of the owners of a ticket
\* while serving_ comes one closer to next_ticket_.
LEMMA UnlockStep ==
    ASSUME K!IndInv, NEW t \in Spinners, K!Unlock(t)
    PROVE  K!IndInv'
  <1> USE DEF K!IndInv, K!TypeOK, K!Unlock
  <1>1. t \in K!Active /\ K!Active' = K!Active \ {t} /\ ticket[t] = serving
    BY DEF K!Active, K!HolderServed
  <1>2. IsFiniteSet(K!Active) /\ Cardinality(K!Active) \in Nat
    BY ActiveBound DEF K!Active
  <1>3. serving # next_ticket
    <2>1. K!Ahead(serving, serving) < K!Ahead(serving, next_ticket)
      BY <1>1 DEF K!Owned
    <2> QED BY <2>1, AheadType
  <1>4. serving' \in K!Tickets /\ K!Ahead(serving', next_ticket) = K!Ahead(serving, next_ticket) - 1
    BY <1>3, AheadServe
  <1>5. K!TypeOK'
    BY <1>4 DEF K!Labels
  <1>6. K!TicketsAccounted'
    <2>1. Cardinality(K!Active \ {t}) = Cardinality(K!Active) - 1
      BY <1>1, <1>2, FS_RemoveElement
    <2> QED BY <1>1, <1>4, <2>1, SameCardinality DEF K!TicketsAccounted
  <1>7. \A u \in K!Active' : ticket[u] \in K!Tickets /\ ticket[u] # serving
    BY <1>1 DEF K!Distinct, K!Active
  <1>8. K!Owned'
    <2> SUFFICES ASSUME NEW u \in K!Active'
                 PROVE  K!Ahead(serving', ticket[u]) < K!Ahead(serving', next_ticket)
      BY DEF K!Owned
    <2>1. K!Ahead(serving', ticket[u]) = K!Ahead(serving, ticket[u]) - 1
      BY <1>7, AheadServe
    <2>2. K!Ahead(serving, ticket[u]) < K!Ahead(serving, next_ticket)
      BY <1>1 DEF K!Owned
    <2>3. K!Ahead(serving, ticket[u]) \in Int /\ K!Ahead(serving, next_ticket) \in Int
      BY <1>7, AheadType
    <2> QED BY <1>4, <2>1, <2>2, <2>3
  <1>9. K!Distinct'
    BY <1>1 DEF K!Distinct
  <1>10. K!HolderServed'
    BY <1>1 DEF K!HolderServed, K!Distinct, K!Active
  <1>11. K!StaleCounted'
    BY DEF K!StaleCounted, K!Trying, K!Ahead
  <1>12. K!FreshCasServed'
    <2> SUFFICES ASSUME NEW u \in Spinners, pc[u] = "tryCas", stale[u] = 0
                 PROVE  FALSE
      BY DEF K!FreshCasServed
    <2>1. K!Ahead(ticket[u], next_ticket) = 0
      BY DEF K!StaleCounted, K!Trying
    <2>2. ticket[u] = next_ticket
      BY <2>1, AheadType
    <2> QED BY <1>3, <2>2 DEF K!FreshCasServed
  <1> QED BY <1>5, <1>6, <1>8, <1>9, <1>10, <1>11, <1>12

\* A step of the rest of the program changes none of this.
LEMMA StutterStep == K!IndInv /\ UNCHANGED ticketVars => K!IndInv'
  BY DEF K!IndInv, ticketVars, K!TypeOK, K!TicketsAccounted, K!Owned, K!Distinct, K!HolderServed,
         K!StaleCounted, K!FreshCasServed, K!Active, K!Trying, K!Ahead

\* Every access of lock(), try_lock() and unlock() preserves the invariant.
LEMMA TicketStays == K!IndInv /\ [K!Next]_ticketVars => K!IndInv'
  <1> SUFFICES ASSUME K!IndInv, [K!Next]_ticketVars PROVE K!IndInv'
    OBVIOUS
  <1>1. ASSUME NEW t \in Spinners, K!Draw(t) PROVE K!IndInv'
    <2>1. next_ticket \in K!Tickets /\ ticket \in [Spinners -> K!Tickets]
      BY DEF K!IndInv, K!TypeOK
    <2> QED BY <1>1, <2>1, DrawStep DEF K!Draw, K!Active
  <1>2. ASSUME NEW t \in Spinners, K!TryCasSucceeds(t) PROVE K!IndInv'
    <2>1. next_ticket = serving
      BY <1>2, CasFindsFree DEF K!TryCasSucceeds
    <2>2. ticket \in [Spinners -> K!Tickets]
      BY DEF K!IndInv, K!TypeOK
    <2> QED BY <1>2, <2>1, <2>2, DrawStep DEF K!TryCasSucceeds, K!Active
  <1> QED
    BY <1>1, <1>2, EnterStep, TryLoadNextStep, TryLoadServingStep, TryCasFailsStep,
       UnlockStep, StutterStep DEF K!Next, K!Step

\* Entry is in the order of the tickets: lock()'s strict FIFO promise.
LEMMA InOrder ==
    K!IndInv /\ [K!Next]_ticketVars =>
        \A t \in Spinners :
            pc[t] # "critical" /\ pc'[t] = "critical" =>
                \A u \in K!Active \ {t} :
                    pc[t] = "spin" /\ K!Ahead(serving, ticket[t]) < K!Ahead(serving, ticket[u])
  <1> SUFFICES ASSUME K!IndInv, [K!Next]_ticketVars, NEW t \in Spinners,
                      pc[t] # "critical", pc'[t] = "critical",
                      NEW u \in K!Active \ {t}
               PROVE  /\ pc[t] = "spin"
                      /\ K!Ahead(serving, ticket[t]) < K!Ahead(serving, ticket[u])
    OBVIOUS
  <1> USE DEF K!IndInv, K!TypeOK
  <1>1. K!Enter(t) \/ K!TryCasSucceeds(t)
    BY DEF K!Next, K!Step, ticketVars, K!Draw, K!Enter, K!Unlock, K!TryLoadNext, K!TryLoadServing,
           K!TryCasSucceeds, K!TryCasFails
  <1>2. ~ K!TryCasSucceeds(t)
    BY CasFindsFree DEF K!TryCasSucceeds
  <1>3. pc[t] = "spin" /\ ticket[t] = serving
    BY <1>1, <1>2 DEF K!Enter
  <1>4. ticket[u] # serving /\ ticket[u] \in K!Tickets
    BY <1>3 DEF K!Distinct, K!Active
  <1>5. K!Ahead(serving, ticket[t]) = 0 /\ K!Ahead(serving, ticket[u]) > 0
    BY <1>3, <1>4, AheadType
  <1> QED BY <1>3, <1>5

-----------------------------------------------------------------------------
(***************************************************************************)
(* All of them.                                                            *)
(***************************************************************************)
AllInv == LockInv /\ SpinInv /\ K!IndInv /\ HandleInv /\ WaitInv

\* A step of another component leaves an invariant true.
LEMMA Unmoved ==
    /\ LockInv /\ UNCHANGED vars => LockInv'
    /\ SpinInv /\ UNCHANGED spinVars => SpinInv'
    /\ K!IndInv /\ UNCHANGED ticketVars => K!IndInv'
    /\ HandleInv /\ UNCHANGED handleVars => HandleInv'
    /\ WaitInv /\ UNCHANGED waitVars => WaitInv'
  <1>1. ASSUME LockInv, UNCHANGED vars PROVE LockInv'
    <2>1. UNCHANGED <<writer, readers, guard, loose, scoped, want>>
      BY <1>1 DEF vars
    <2>2. TypeOK' /\ Excluded'
      BY <1>1, <2>1 DEF LockInv, TypeOK, Excluded
    <2>3. \A t, l, m : Bound(t, l, m)' = Bound(t, l, m)
      BY <2>1 DEF Bound, Owners
    <2>4. Counted'
      BY <1>1, <2>1, <2>3 DEF LockInv, Counted
    <2>5. \A t \in Threads : Right(t)'
      BY <1>1, <2>1 DEF LockInv, Right, GuardsRight, CallsRight, ScopesRight, WaitsAlone
    <2> QED BY <2>2, <2>4, <2>5 DEF LockInv
  <1>2. ASSUME SpinInv, UNCHANGED spinVars PROVE SpinInv'
    BY <1>2 DEF SpinInv, spinVars
  <1>3. ASSUME HandleInv, UNCHANGED handleVars PROVE HandleInv'
    BY <1>3 DEF HandleInv, ThreadRight, MayJoin, handleVars
  <1>4. ASSUME WaitInv, UNCHANGED waitVars PROVE WaitInv'
    BY <1>4 DEF WaitInv, WaitRight, Awake, waitVars
  <1> QED BY <1>1, <1>2, <1>3, <1>4, StutterStep

\* The five invariants hold in every reachable state of the composition.
LEMMA AllHold == MCSpec => []AllInv
  <1>1. MCInit => AllInv
    BY LockInit, SpinInit, TicketInit, HandleInit, WaitInit DEF MCInit, AllInv
  <1>2. AllInv /\ [MCNext]_allVars => AllInv'
    <2> SUFFICES ASSUME AllInv, [MCNext]_allVars PROVE AllInv'
      OBVIOUS
    <2>1. CASE GuardStep
      BY <2>1, LockStep, Unmoved DEF GuardStep, AllInv
    <2>2. CASE SpinStep
      BY <2>2, SpinStays, Unmoved DEF SpinStep, AllInv
    <2>3. CASE HandleStep
      BY <2>3, HandleStays, Unmoved DEF HandleStep, AllInv
    <2>4. CASE WaitStep
      BY <2>4, WaitStays, Unmoved DEF WaitStep, AllInv
    <2>5. CASE TicketStep
      BY <2>5, TicketStays, Unmoved DEF TicketStep, AllInv
    <2>6. CASE UNCHANGED allVars
      BY <2>6, Unmoved DEF allVars, AllInv
    <2> QED BY <2>1, <2>2, <2>3, <2>4, <2>5, <2>6 DEF MCNext
  <1> QED BY <1>1, <1>2, PTL DEF MCSpec

\* Whatever guards are constructed, moved, swapped, assigned, released and
\* destroyed, by any number of threads: each lock is held as often as guards,
\* callers and scoped_locks are bound to unlock it, by one thread only and
\* more than once only if it is recursive, shared as often as shared_locks
\* own it; one thread at most is past a spinlock or a ticket_lock, and every
\* ticket drawn from a ticket_lock and not yet served has its thread.
THEOREM LocksHeldRight == MCSpec => []LocksMatch
  <1>1. K!IndInv => K!MutualExclusion /\ K!TicketsAccounted
    BY DEF K!IndInv, K!MutualExclusion, K!HolderServed, K!Distinct, K!Active
  <1>2. AllInv => LocksMatch
    BY <1>1, LocksHeldByOne, SpinHeldByOne DEF AllInv, LocksMatch
  <1> QED BY <1>2, AllHold, PTL

\* Threads enter a ticket_lock in the order of their tickets and its try_lock()
\* overtakes nobody, wrap-around included.
THEOREM FirstComeFirstServed == MCSpec => TicketsInOrder
  <1>1. AllInv /\ [MCNext]_allVars =>
            [\A t \in Spinners :
                pc[t] # "critical" /\ pc'[t] = "critical" =>
                    \A u \in K!Active \ {t} :
                        pc[t] = "spin" /\ K!Ahead(serving, ticket[t]) < K!Ahead(serving, ticket[u])
            ]_(K!vars)
    <2>1. [MCNext]_allVars => [K!Next]_ticketVars
      BY DEF MCNext, GuardStep, SpinStep, TicketStep, HandleStep, WaitStep, allVars, ticketVars
    <2> QED BY <2>1, InOrder DEF AllInv
  <1> QED BY <1>1, AllHold, PTL DEF MCSpec, TicketsInOrder, K!Fifo

\* Sorting by address lets no chain of waiting threads close.
THEOREM NoCycleOfWaiters == MCSpec => []WaitsClimb
  <1>1. AllInv => WaitsClimb
    BY ChainsClimb DEF AllInv
  <1> QED BY <1>1, AllHold, PTL

\* A wait on a condition returns under the mutex with its answer true of the
\* flag, false not before its time; a thread is joined or detached once, and
\* joined only at its end.
THEOREM WaitsEndForAReason == MCSpec => []WaitsEndRightly
  <1>1. AllInv => WaitsEndRightly
    BY WaitsEnd, HandlesReap DEF AllInv, WaitsEndRightly
  <1> QED BY <1>1, AllHold, PTL
=============================================================================
