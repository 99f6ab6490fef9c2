--------------------------- MODULE Future_proofs ---------------------------
(***************************************************************************)
(* Proofs about zen::promise, future and shared_future (Future.tla) for    *)
(* every number of variables and states: a result is final and its value   *)
(* handed out once, and the reference count of a state is its variables    *)
(* less the futures that get_future() made.                                *)
(*                                                                         *)
(* The count is kept by every move, copy and assignment because each takes *)
(* one variable from the owners of a state, adds one, or swaps two.        *)
(***************************************************************************)
EXTENDS Future, FiniteSetTheorems, TLAPS

\* A state that no promise() has made is as it was, and nobody points to it.
Unborn ==
    \A s \in States : state[s].life = "none" =>
        state[s] = NoState /\ \A h \in Handles : ptr[h] # s

\* SharedKeepAlive, and a living state has a reference.
Counted ==
    \A s \in States :
        /\ state[s].life = "alive" =>
              state[s].refs >= 1 /\ Cardinality(Owners(s)) = state[s].refs + state[s].futures
        /\ state[s].life = "released" => Cardinality(Owners(s)) <= state[s].futures

\* The value was handed out if and only if it was moved out of the state.
Delivered == \A s \in States : state[s].given = IF state[s].moved THEN 1 ELSE 0

\* A thread in the middle of a call has a state.
Busy == \A h \in Handles : pc[h] \notin {"idle", "absent"} => ptr[h] # Null

IndInv == TypeOK /\ Unborn /\ Counted /\ Delivered /\ Busy

-----------------------------------------------------------------------------
\* The methods of future_state.

Lives  == {"none", "alive", "released", "overwritten"}
Record == [life : Lives, outcome : Outcomes \cup {None}, moved : BOOLEAN,
           refs : Nat, given : 0 .. 2, futures : Nat]
PcValues == {"idle", "breaking", "releasing", "addingRef", "copied", "absent"} \cup Waits

\* A result is one of the two outcomes, and None is neither.
LEMMA ResultKinds ==
    ASSUME TypeOK, NEW s \in States
    PROVE  IsReady(s) <=> state[s].outcome \in Outcomes
  BY NoneAssumption DEF IsReady, TypeOK, Outcomes

\* set_value(), set_exception(): a result that is there stays.
LEMMA SetOutcomeWrites ==
    ASSUME TypeOK, NEW s \in States, NEW o \in Outcomes, state' = OutcomeSet(s, o)
    PROVE  /\ state' \in [States -> Record]
           /\ \A x \in States \ {s} : state'[x] = state[x]
           /\ state'[s].life = state[s].life /\ state'[s].moved = state[s].moved
           /\ state'[s].refs = state[s].refs /\ state'[s].given = state[s].given
           /\ state'[s].futures = state[s].futures
           /\ IsReady(s) => state'[s].outcome = state[s].outcome
  <1>1. state \in [States -> Record]
    BY DEF TypeOK, Record, Lives
  <1>2. CASE IsReady(s)
    BY <1>1, <1>2 DEF OutcomeSet
  <1>3. CASE ~ IsReady(s)
    BY <1>1, <1>3 DEF OutcomeSet, Record
  <1> QED BY <1>2, <1>3

\* get(): the value is handed out at most once more, and only if it was not.
LEMMA GotWrites ==
    ASSUME IndInv, NEW s \in States, state' = Got(s)
    PROVE  /\ state' \in [States -> Record]
           /\ \A x \in States \ {s} : state'[x] = state[x]
           /\ state'[s].life = state[s].life /\ state'[s].outcome = state[s].outcome
           /\ state'[s].refs = state[s].refs /\ state'[s].futures = state[s].futures
           /\ state'[s].given = IF state'[s].moved THEN 1 ELSE 0
  <1>1. state \in [States -> Record]
    BY DEF IndInv, TypeOK, Record, Lives
  <1>2. state[s].given = IF state[s].moved THEN 1 ELSE 0
    BY DEF IndInv, Delivered
  <1>3. CASE state[s].outcome = "value" /\ ~ isVoid /\ ~ state[s].moved
    BY <1>1, <1>2, <1>3 DEF Got, Record
  <1>4. CASE ~ (state[s].outcome = "value" /\ ~ isVoid /\ ~ state[s].moved)
    BY <1>1, <1>2, <1>4 DEF Got
  <1> QED BY <1>3, <1>4

\* add_ref().
LEMMA RefAddedWrites ==
    ASSUME TypeOK, NEW s \in States, state' = RefAdded(s)
    PROVE  /\ state' \in [States -> Record]
           /\ \A x \in States \ {s} : state'[x] = state[x]
           /\ state'[s].life = state[s].life /\ state'[s].outcome = state[s].outcome
           /\ state'[s].moved = state[s].moved /\ state'[s].given = state[s].given
           /\ state'[s].futures = state[s].futures
           /\ state'[s].refs = state[s].refs + 1
  BY DEF TypeOK, RefAdded, Record, Lives

\* release(): of the last reference, and of another one.
LEMMA ReleasedWrites ==
    ASSUME IndInv, NEW s \in States, state[s].life = "alive", state' = Released(s)
    PROVE  /\ state' \in [States -> Record]
           /\ \A x \in States \ {s} : state'[x] = state[x]
           /\ state'[s].life = IF state[s].refs = 1 THEN "released" ELSE "alive"
           /\ state'[s].outcome = state[s].outcome
           /\ state'[s].moved = state[s].moved /\ state'[s].given = state[s].given
           /\ state'[s].futures = state[s].futures
           /\ state'[s].refs = state[s].refs - 1
  <1>1. state \in [States -> Record]
    BY DEF IndInv, TypeOK, Record, Lives
  <1>2. state[s].refs >= 1 /\ state[s].refs \in Nat
    BY <1>1 DEF IndInv, Counted, Record
  <1>3. state[s].refs - 1 \in Nat
    BY <1>2
  <1>4. (IF state[s].refs = 1 THEN "released" ELSE state[s].life) \in Lives
    BY <1>1 DEF Record, Lives
  <1> QED BY <1>1, <1>3, <1>4 DEF Released, Record

-----------------------------------------------------------------------------
\* What a step does to the owners of a state and to its count.
SameCount(s) ==
    /\ state'[s].life = state[s].life
    /\ state'[s].refs = state[s].refs
    /\ state'[s].futures = state[s].futures

Kept(s) == SameCount(s) /\ Owners(s)' = Owners(s)

Exchanged(s) ==
    /\ SameCount(s)
    /\ \E h \in Owners(s), k \in Handles \ Owners(s) : Owners(s)' = (Owners(s) \ {h}) \cup {k}

Joined(s) ==
    /\ state'[s].life = state[s].life
    /\ \E k \in Handles \ Owners(s) : Owners(s)' = Owners(s) \cup {k}
    /\ \/ /\ state[s].life = "alive"
          /\ state'[s].refs = state[s].refs + 1 /\ state'[s].futures = state[s].futures
       \/ state'[s].refs = state[s].refs /\ state'[s].futures = state[s].futures + 1

Left(s) ==
    /\ state[s].life = "alive"
    /\ \E h \in Owners(s) : Owners(s)' = Owners(s) \ {h}
    /\ state'[s].life = IF state[s].refs = 1 THEN "released" ELSE "alive"
    /\ state'[s].refs = state[s].refs - 1 /\ state'[s].futures = state[s].futures

Made(s) ==
    /\ state'[s].life = "alive" /\ state'[s].refs = 1 /\ state'[s].futures = 0
    /\ \E k \in Handles : Owners(s)' = {k}

Deleted(s) == state'[s].life = "overwritten"

\* Each of these keeps the count of the state right.
LEMMA CountKept ==
    ASSUME IndInv, state' \in [States -> Record], NEW s \in States,
           Kept(s) \/ Exchanged(s) \/ Joined(s) \/ Left(s) \/ Made(s) \/ Deleted(s)
    PROVE  /\ state'[s].life = "alive" =>
                 /\ state'[s].refs >= 1
                 /\ Cardinality(Owners(s)') = state'[s].refs + state'[s].futures
           /\ state'[s].life = "released" => Cardinality(Owners(s)') <= state'[s].futures
  <1> DEFINE O == Owners(s)
             n == Cardinality(O)
             r == state[s].refs
             f == state[s].futures
  <1>1. IsFiniteSet(O) /\ n \in Nat
    BY HandlesAssumption, FS_Subset, FS_CardinalityType DEF Owners
  <1>2. r \in Nat /\ f \in Nat /\ state[s].life \in Lives
    BY DEF IndInv, TypeOK, Lives
  <1>3. /\ state[s].life = "alive" => r >= 1 /\ n = r + f
        /\ state[s].life = "released" => n <= f
    BY DEF IndInv, Counted
  <1> HIDE DEF O
  <1>4. CASE Kept(s)
    BY <1>3, <1>4 DEF Kept, SameCount, O
  <1>5. CASE Exchanged(s)
    <2>1. PICK h \in O, k \in Handles \ O : O' = (O \ {h}) \cup {k}
      BY <1>5 DEF Exchanged, O
    <2>2. IsFiniteSet(O \ {h}) /\ Cardinality(O \ {h}) = n - 1
      BY <1>1, FS_RemoveElement
    <2>3. Cardinality((O \ {h}) \cup {k}) = (n - 1) + 1
      BY <2>2, FS_AddElement
    <2>4. Cardinality(O') = n
      BY <2>1, <2>3, <1>1
    <2> QED BY <2>4, <1>3, <1>5 DEF Exchanged, SameCount, O
  <1>6. CASE Joined(s)
    <2>1. PICK k \in Handles \ O : O' = O \cup {k}
      BY <1>6 DEF Joined, O
    <2>2. Cardinality(O') = n + 1
      BY <2>1, <1>1, FS_AddElement
    <2> QED BY <2>2, <1>1, <1>2, <1>3, <1>6 DEF Joined, O
  <1>7. CASE Left(s)
    <2>1. PICK h \in O : O' = O \ {h}
      BY <1>7 DEF Left, O
    <2>2. Cardinality(O') = n - 1
      BY <2>1, <1>1, FS_RemoveElement
    <2> QED BY <2>2, <1>1, <1>2, <1>3, <1>7 DEF Left, O
  <1>8. CASE Made(s)
    BY <1>8, FS_Singleton DEF Made, O
  <1>9. CASE Deleted(s)
    BY <1>9 DEF Deleted
  <1> QED BY <1>4, <1>5, <1>6, <1>7, <1>8, <1>9 DEF O

\* A step keeps the invariant when each state's count is kept, the value is
\* handed out as it is moved, and the pointers come from somewhere.
LEMMA StepInv ==
    ASSUME IndInv,
           isVoid' = isVoid, fault' \in BOOLEAN,
           state' \in [States -> Record],
           ptr' \in [Handles -> States \cup {Null}],
           obtained' \in [Promises -> BOOLEAN],
           pc' \in [Handles -> PcValues],
           \A s \in States :
               Kept(s) \/ Exchanged(s) \/ Joined(s) \/ Left(s) \/ Made(s) \/ Deleted(s),
           \A s \in States : state'[s].given = IF state'[s].moved THEN 1 ELSE 0,
           \A s \in States : state'[s].life = "none" => state'[s] = state[s],
           \A h \in Handles : ptr'[h] # Null =>
               \/ \E k \in Handles : ptr'[h] = ptr[k]
               \/ state'[ptr'[h]].life # "none",
           Busy'
    PROVE  IndInv'
  <1>1. TypeOK'
    BY DEF TypeOK, Record, Lives, PcValues, IndInv
  <1>2. Counted'
    BY CountKept DEF Counted
  <1>3. Unborn'
    <2> SUFFICES ASSUME NEW s \in States, state'[s].life = "none"
                 PROVE  state'[s] = NoState /\ \A h \in Handles : ptr'[h] # s
      BY DEF Unborn
    <2>1. state'[s] = state[s] /\ state[s].life = "none"
      OBVIOUS
    <2>2. state[s] = NoState /\ \A h \in Handles : ptr[h] # s
      BY <2>1 DEF IndInv, Unborn
    <2> QED BY <2>1, <2>2, NullAssumption
  <1>4. Delivered'
    BY DEF Delivered
  <1> QED BY <1>1, <1>2, <1>3, <1>4 DEF IndInv

-----------------------------------------------------------------------------
\* What the invariant says of the variables and the state of one of them.
LEMMA Facts ==
    ASSUME IndInv
    PROVE  /\ isVoid \in BOOLEAN /\ fault \in BOOLEAN
           /\ state \in [States -> Record]
           /\ ptr \in [Handles -> States \cup {Null}]
           /\ obtained \in [Promises -> BOOLEAN]
           /\ pc \in [Handles -> PcValues]
           /\ \A s \in States : state[s].given = IF state[s].moved THEN 1 ELSE 0
           /\ \A h \in Handles : ptr[h] # Null =>
                 ptr[h] \in States /\ state[ptr[h]].life # "none"
           /\ \A h \in Handles : pc[h] \notin {"idle", "absent"} => ptr[h] # Null
           /\ Promises \subseteq Handles /\ Getters \subseteq Handles
           /\ Futures \subseteq Getters /\ Shareds \subseteq Getters
  <1>1. \A h \in Handles : ptr[h] # Null => ptr[h] \in States /\ state[ptr[h]].life # "none"
    BY DEF IndInv, TypeOK, Unborn
  <1> QED BY <1>1 DEF IndInv, TypeOK, Record, Lives, PcValues, Delivered, Busy, Handles, Getters

\* A call that moves no pointer: a thread goes on in its method, and the state
\* may get its result or give it away.
LEMMA CallStep ==
    ASSUME IndInv, NEW h \in Handles, NEW label \in PcValues \ {"addingRef"},
           isVoid' = isVoid, fault' \in BOOLEAN, ptr' = ptr, obtained' = obtained,
           pc[h] # "addingRef", ptr[h] # Null,
           pc' = pc \/ Goto(h, label),
           state' \in [States -> Record],
           \A x \in States \ {ptr[h]} : state'[x] = state[x],
           SameCount(ptr[h]),
           state'[ptr[h]].given = IF state'[ptr[h]].moved THEN 1 ELSE 0
    PROVE  IndInv'
  <1>1. \A k \in Handles : pc'[k] = pc[k] \/ (k = h /\ pc'[k] = label)
    BY Facts DEF Goto
  <1>2. pc' \in [Handles -> PcValues]
    BY Facts DEF Goto
  <1>3. \A s \in States : SameCount(s)
    BY DEF SameCount
  <1>4. \A s \in States : Owners(s)' = Owners(s)
    BY <1>1 DEF Owners
  <1>5. \A s \in States : Kept(s)
    BY <1>3, <1>4 DEF Kept
  <1>6. \A s \in States : state'[s].given = IF state'[s].moved THEN 1 ELSE 0
    BY Facts
  <1>7. \A s \in States : state'[s].life = "none" => state'[s] = state[s]
    BY Facts DEF SameCount
  <1>8. Busy'
    BY <1>1, Facts DEF Busy
  <1> QED BY <1>2, <1>5, <1>6, <1>7, <1>8, StepInv, Facts

\* A step that touches a deleted state changes nothing that counts.
LEMMA FaultStep ==
    ASSUME IndInv, isVoid' = isVoid, fault' \in BOOLEAN, UNCHANGED <<state, ptr, obtained, pc>>
    PROVE  IndInv'
  <1>1. \A s \in States : Kept(s)
    BY DEF Kept, SameCount, Owners
  <1>2. Busy'
    BY Facts DEF Busy
  <1> QED BY <1>1, <1>2, StepInv, Facts

\* set_value(), set_exception(), and the broken promise of the destructor.
LEMMA SetOutcomeStep ==
    ASSUME IndInv, NEW p \in Promises,
           \/ \E o \in Outcomes : SetOutcome(p, o)
           \/ BreakPromise(p)
    PROVE  IndInv'
  <1> DEFINE s == ptr[p]
  <1>1. p \in Handles /\ pc[p] \in {"idle", "breaking"} /\ s # Null /\ s \in States /\ isVoid' = isVoid
    BY Facts DEF SetOutcome, BreakPromise, Valid, Idle
  <1>2. CASE state[s].life # "alive"
    BY <1>2, FaultStep DEF SetOutcome, BreakPromise, Touch
  <1>3. CASE state[s].life = "alive"
    <2>1. PICK o \in Outcomes : state' = OutcomeSet(s, o)
      BY <1>3 DEF SetOutcome, BreakPromise, Touch, Outcomes
    <2>2. /\ fault' \in BOOLEAN /\ ptr' = ptr /\ obtained' = obtained
          /\ pc' = pc \/ Goto(p, "releasing")
      BY <1>3 DEF SetOutcome, BreakPromise, Touch
    <2>3. /\ state' \in [States -> Record]
          /\ \A x \in States \ {s} : state'[x] = state[x]
          /\ SameCount(s)
          /\ state'[s].moved = state[s].moved /\ state'[s].given = state[s].given
      BY <2>1, <1>1, SetOutcomeWrites DEF IndInv, SameCount
    <2>4. state'[s].given = IF state'[s].moved THEN 1 ELSE 0
      BY <2>3, <1>1, Facts
    <2> QED BY <1>1, <2>2, <2>3, <2>4, CallStep DEF PcValues
  <1> QED BY <1>2, <1>3

\* ~promise() looks whether the result is there; get(), wait() and wait_for()
\* begin, are answered, or time out.
LEMMA AskStep ==
    ASSUME IndInv, NEW h \in Handles,
           \/ h \in Promises /\ DestroyPromise(h)
           \/ (\E how \in Waits : Ask(h, how)) \/ Answer(h) \/ TimeOut(h)
    PROVE  IndInv'
  <1> DEFINE s == ptr[h]
  <1>1. pc[h] \in {"idle"} \cup Waits /\ s # Null /\ s \in States /\ isVoid' = isVoid
    BY Facts DEF DestroyPromise, Ask, Answer, TimeOut, Valid, Idle, Waits
  <1>2. CASE state[s].life # "alive"
    BY <1>2, FaultStep DEF DestroyPromise, Ask, Answer, TimeOut, Touch
  <1>3. CASE state[s].life = "alive"
    <2>1. /\ fault' \in BOOLEAN /\ ptr' = ptr /\ obtained' = obtained
          /\ state' = state \/ state' = Got(s)
      BY <1>3 DEF DestroyPromise, Ask, Answer, TimeOut, Touch
    <2>2. PICK label \in {"idle", "breaking", "releasing"} \cup Waits :
             pc' = pc \/ Goto(h, label)
      BY <1>3 DEF DestroyPromise, Ask, Answer, TimeOut, Touch
    <2>3. /\ state' \in [States -> Record]
          /\ \A x \in States \ {s} : state'[x] = state[x]
          /\ SameCount(s)
          /\ state'[s].given = IF state'[s].moved THEN 1 ELSE 0
      <3>1. CASE state' = state
        BY <3>1, <1>1, Facts DEF SameCount
      <3>2. CASE state' = Got(s)
        BY <3>2, <1>1, GotWrites DEF SameCount
      <3> QED BY <3>1, <3>2, <2>1
    <2>4. label \in PcValues \ {"addingRef"} /\ pc[h] # "addingRef"
      BY <1>1, <2>2 DEF PcValues, Waits
    <2> QED BY <1>1, <2>1, <2>2, <2>3, <2>4, CallStep
  <1> QED BY <1>2, <1>3

-----------------------------------------------------------------------------
\* promise(): a new state, owned by the promise alone.
LEMMA MakePromiseStep ==
    ASSUME IndInv, NEW p \in Promises, NEW s \in States, MakePromise(p, s)
    PROVE  IndInv'
  <1> USE DEF MakePromise
  <1>1. p \in Handles /\ pc[p] = "idle"
    BY Facts DEF Idle
  <1>2. state[s] = NoState /\ \A h \in Handles : ptr[h] # s
    BY DEF IndInv, Unborn
  <1>3. /\ state' \in [States -> Record]
        /\ state'[s].life = "alive" /\ state'[s].refs = 1 /\ state'[s].futures = 0
        /\ state'[s].given = 0 /\ state'[s].moved = FALSE
        /\ \A x \in States \ {s} : state'[x] = state[x]
    BY <1>2, Facts DEF Record, NoState, Lives
  <1>4. \A h \in Handles : ptr'[h] = IF h = p THEN s ELSE ptr[h]
    BY <1>1, Facts
  <1>5. Made(s)
    <2>1. Owners(s)' = {p}
      BY <1>1, <1>2, <1>4 DEF Owners
    <2> QED BY <1>1, <1>3, <2>1 DEF Made
  <1>6. ASSUME NEW x \in States \ {s} PROVE Kept(x)
    BY <1>3, <1>4, NullAssumption DEF Kept, SameCount, Owners
  <1>7. Busy'
    BY <1>4, Facts, NullAssumption DEF Busy
  <1>8. /\ ptr' \in [Handles -> States \cup {Null}] /\ obtained' \in [Promises -> BOOLEAN]
        /\ \A x \in States : state'[x].given = IF state'[x].moved THEN 1 ELSE 0
        /\ \A x \in States : state'[x].life = "none" => state'[x] = state[x]
    BY <1>1, <1>3, Facts
  <1>9. \A h \in Handles : ptr'[h] # Null =>
           \/ \E k \in Handles : ptr'[h] = ptr[k]
           \/ state'[ptr'[h]].life # "none"
    BY <1>3, <1>4
  <1> QED BY <1>3, <1>5, <1>6, <1>7, <1>8, <1>9, StepInv, Facts

\* get_future(): one variable more and one uncounted future more.
LEMMA GetFutureStep ==
    ASSUME IndInv, NEW p \in Promises, NEW f \in Futures, GetFuture(p, f)
    PROVE  IndInv'
  <1> USE DEF GetFuture
  <1> DEFINE s == ptr[p]
  <1>1. p \in Handles /\ f \in Handles /\ pc[f] = "idle" /\ ptr[f] = Null /\ s # Null /\ s \in States
    BY Facts DEF Idle, Valid
  <1>2. /\ state' \in [States -> Record]
        /\ state'[s].life = state[s].life /\ state'[s].refs = state[s].refs
        /\ state'[s].futures = state[s].futures + 1
        /\ state'[s].given = state[s].given /\ state'[s].moved = state[s].moved
        /\ \A x \in States \ {s} : state'[x] = state[x]
    BY <1>1, Facts DEF Record
  <1>3. state[s].life # "none"
    BY <1>1, Facts
  <1>4. \A h \in Handles : ptr'[h] = IF h = f THEN s ELSE ptr[h]
    BY <1>1, Facts
  <1>5. Joined(s)
    <2>1. Owners(s)' = Owners(s) \cup {f} /\ f \in Handles \ Owners(s)
      BY <1>1, <1>4 DEF Owners
    <2> QED BY <1>2, <2>1 DEF Joined
  <1>6. ASSUME NEW x \in States \ {s} PROVE Kept(x)
    BY <1>1, <1>2, <1>4, NullAssumption DEF Kept, SameCount, Owners
  <1>7. Busy'
    BY <1>1, <1>4, Facts DEF Busy
  <1>8. /\ ptr' \in [Handles -> States \cup {Null}] /\ obtained' \in [Promises -> BOOLEAN]
        /\ \A x \in States : state'[x].given = IF state'[x].moved THEN 1 ELSE 0
        /\ \A x \in States : state'[x].life = "none" => state'[x] = state[x]
    BY <1>1, <1>2, <1>3, Facts
  <1>9. \A h \in Handles : ptr'[h] # Null => \E k \in Handles : ptr'[h] = ptr[k]
    BY <1>1, <1>4
  <1> QED BY <1>2, <1>5, <1>6, <1>7, <1>8, <1>9, StepInv, Facts

\* Moves: the target takes the place of the source among the owners.
LEMMA MoveStep ==
    ASSUME IndInv, NEW from \in Handles, NEW to \in Handles,
           \/ from \in Promises /\ to \in Promises /\ MovePromise(from, to)
           \/ MoveGetter(from, to)
    PROVE  IndInv'
  <1>0. ptr[from] \in States
    BY Facts DEF MovePromise, MoveGetter, Valid
  <1> PICK s \in States : s = ptr[from]
    BY <1>0
  <1>1. /\ pc[from] = "idle" /\ pc[to] = "idle" /\ ptr[to] = Null
        /\ s # Null /\ from # to
        /\ ptr' = [ptr EXCEPT ![to] = s, ![from] = Null]
        /\ UNCHANGED <<isVoid, state, pc, fault>>
        /\ obtained' \in [Promises -> BOOLEAN]
    BY Facts, NullAssumption DEF MovePromise, MoveGetter, Valid, Idle
  <1>2. \A h \in Handles : ptr'[h] = IF h = from THEN Null ELSE IF h = to THEN s ELSE ptr[h]
    BY <1>1, Facts
  <1>3. Exchanged(s)
    <2>1. from \in Owners(s) /\ to \notin Owners(s)
      BY <1>1 DEF Owners
    <2>2. \A h \in Handles : ptr'[h] = s <=> h = to \/ (h # from /\ ptr[h] = s)
      BY <1>1, <1>2
    <2>3. Owners(s)' = (Owners(s) \ {from}) \cup {to}
      BY <1>1, <2>2 DEF Owners
    <2> QED BY <1>1, <2>1, <2>3 DEF Exchanged, SameCount
  <1>4. ASSUME NEW x \in States \ {s} PROVE Kept(x)
    BY <1>1, <1>2, NullAssumption DEF Kept, SameCount, Owners
  <1>5. Busy'
    BY <1>1, <1>2, Facts DEF Busy
  <1>6. /\ ptr' \in [Handles -> States \cup {Null}]
        /\ \A h \in Handles : ptr'[h] # Null => \E k \in Handles : ptr'[h] = ptr[k]
    BY <1>1, <1>2, Facts
  <1> QED BY <1>1, <1>3, <1>4, <1>5, <1>6, StepInv, Facts

\* promise::operator=: the old state is deleted, and the target takes the place
\* of the source among the owners of the new one.
LEMMA AssignPromiseStep ==
    ASSUME IndInv, NEW from \in Promises, NEW to \in Promises, AssignPromise(from, to)
    PROVE  IndInv'
  <1> USE DEF AssignPromise
  <1> DEFINE s == ptr[to]
             t == ptr[from]
  <1>1. /\ from \in Handles /\ to \in Handles /\ from # to
        /\ pc[from] = "idle" /\ pc[to] = "idle" /\ s # Null /\ s \in States
        /\ isVoid' = isVoid /\ obtained' = obtained /\ pc' = pc
    BY Facts DEF Valid, Idle
  <1>2. CASE UNCHANGED <<state, ptr>>
    <2>1. fault' \in BOOLEAN
      BY DEF Touch
    <2> QED BY <1>1, <1>2, <2>1, FaultStep
  <1>3. CASE /\ fault' = FALSE
             /\ state' = [state EXCEPT ![s].life = "overwritten"]
             /\ ptr' = [ptr EXCEPT ![to] = t, ![from] = Null]
    <2>1. /\ state' \in [States -> Record]
          /\ state'[s].life = "overwritten"
          /\ state'[s].given = state[s].given /\ state'[s].moved = state[s].moved
          /\ \A x \in States \ {s} : state'[x] = state[x]
      BY <1>1, <1>3, Facts DEF Record, Lives
    <2>2. \A h \in Handles : ptr'[h] = IF h = from THEN Null ELSE IF h = to THEN t ELSE ptr[h]
      BY <1>1, <1>3, Facts
    <2>3. ASSUME NEW x \in States \ {s} PROVE Kept(x) \/ Exchanged(x)
      <3>1. SameCount(x)
        BY <2>1 DEF SameCount
      <3>2. CASE x # t
        BY <3>1, <3>2, <1>1, <2>2, NullAssumption DEF Kept, Owners
      <3>3. CASE x = t
        <4>1. Owners(x)' = (Owners(x) \ {from}) \cup {to} /\ from \in Owners(x) /\ to \notin Owners(x)
          BY <3>3, <1>1, <2>2, NullAssumption DEF Owners
        <4> QED BY <3>1, <4>1, <1>1 DEF Exchanged
      <3> QED BY <3>2, <3>3
    <2>4. Busy'
      BY <1>1, <2>2, Facts DEF Busy
    <2>5. /\ ptr' \in [Handles -> States \cup {Null}]
          /\ \A h \in Handles : ptr'[h] # Null => \E k \in Handles : ptr'[h] = ptr[k]
          /\ \A x \in States : state'[x].given = IF state'[x].moved THEN 1 ELSE 0
          /\ \A x \in States : state'[x].life = "none" => state'[x] = state[x]
      BY <1>1, <1>3, <2>1, <2>2, Facts
    <2> QED BY <1>1, <1>3, <2>1, <2>3, <2>4, <2>5, StepInv, Facts DEF Deleted
  <1> QED BY <1>1, <1>2, <1>3 DEF Touch

\* The destructors' release(): the variable leaves the owners.
LEMMA ReleaseStep ==
    ASSUME IndInv, NEW h \in Handles,
           (h \in Promises /\ ReleasePromise(h)) \/ DestroyGetter(h)
    PROVE  IndInv'
  <1>1. ptr[h] \in States /\ pc[h] \in {"idle", "releasing"} /\ isVoid' = isVoid
    BY Facts DEF ReleasePromise, DestroyGetter, Valid, Idle
  <1> PICK s \in States : s = ptr[h]
    BY <1>1
  <1>2. CASE state[s].life # "alive"
    BY <1>1, <1>2, FaultStep DEF ReleasePromise, DestroyGetter, Touch
  <1>3. CASE state[s].life = "alive"
    <2>1. /\ fault' = FALSE /\ state' = Released(s) /\ ptr' = [ptr EXCEPT ![h] = Null]
          /\ obtained' \in [Promises -> BOOLEAN]
          /\ pc' = [pc EXCEPT ![h] = "idle"]
      BY <1>3, Facts DEF ReleasePromise, DestroyGetter, Valid, Idle, Touch, Goto
    <2>2. /\ state' \in [States -> Record]
          /\ \A x \in States \ {s} : state'[x] = state[x]
          /\ state'[s].life = IF state[s].refs = 1 THEN "released" ELSE "alive"
          /\ state'[s].moved = state[s].moved /\ state'[s].given = state[s].given
          /\ state'[s].futures = state[s].futures
          /\ state'[s].refs = state[s].refs - 1
      BY <1>3, <2>1, ReleasedWrites
    <2>3. \A k \in Handles : /\ ptr'[k] = IF k = h THEN Null ELSE ptr[k]
                             /\ pc'[k] = IF k = h THEN "idle" ELSE pc[k]
      BY <2>1, Facts
    <2>4. Left(s)
      <3>1. Owners(s)' = Owners(s) \ {h} /\ h \in Owners(s)
        BY <1>1, <2>3, NullAssumption DEF Owners
      <3> QED BY <1>3, <2>2, <3>1 DEF Left
    <2>5. ASSUME NEW x \in States \ {s} PROVE Kept(x)
      BY <2>2, <2>3, NullAssumption DEF Kept, SameCount, Owners
    <2>6. Busy'
      BY <1>1, <2>1, <2>3, Facts DEF Busy
    <2>7. /\ ptr' \in [Handles -> States \cup {Null}] /\ pc' \in [Handles -> PcValues]
          /\ \A k \in Handles : ptr'[k] # Null => \E i \in Handles : ptr'[k] = ptr[i]
          /\ \A x \in States : state'[x].given = IF state'[x].moved THEN 1 ELSE 0
          /\ \A x \in States : state'[x].life = "none" => state'[x] = state[x]
      BY <2>1, <2>2, <2>3, Facts DEF PcValues
    <2> QED BY <1>1, <2>1, <2>2, <2>4, <2>5, <2>6, <2>7, StepInv, Facts
  <1> QED BY <1>2, <1>3

\* The move assignments of future and shared_future: the target leaves the
\* owners of its state and takes the place of the source.
LEMMA AssignGetterStep ==
    ASSUME IndInv, NEW from \in Handles, NEW to \in Handles, AssignGetter(from, to)
    PROVE  IndInv'
  <1>1. /\ ptr[to] \in States /\ pc[from] = "idle" /\ pc[to] = "idle" /\ from # to
        /\ isVoid' = isVoid
    BY Facts DEF AssignGetter, Valid, Idle
  <1> PICK s \in States : s = ptr[to]
    BY <1>1
  <1>2. CASE state[s].life # "alive"
    BY <1>1, <1>2, FaultStep DEF AssignGetter, Touch
  <1>3. CASE state[s].life = "alive"
    <2>1. /\ fault' = FALSE /\ state' = Released(s)
          /\ ptr' = [ptr EXCEPT ![to] = ptr[from], ![from] = Null]
          /\ obtained' = obtained /\ pc' = pc
      BY <1>3 DEF AssignGetter, Touch
    <2>2. /\ state' \in [States -> Record]
          /\ \A x \in States \ {s} : state'[x] = state[x]
          /\ state'[s].life = IF state[s].refs = 1 THEN "released" ELSE "alive"
          /\ state'[s].moved = state[s].moved /\ state'[s].given = state[s].given
          /\ state'[s].futures = state[s].futures
          /\ state'[s].refs = state[s].refs - 1
      BY <1>3, <2>1, ReleasedWrites
    <2>3. \A k \in Handles : ptr'[k] = IF k = from THEN Null ELSE IF k = to THEN ptr[from] ELSE ptr[k]
      BY <2>1, Facts
    <2>4. Left(s)
      <3>1. CASE ptr[from] = s
        <4>1. Owners(s)' = Owners(s) \ {from} /\ from \in Owners(s)
          BY <3>1, <1>1, <2>1, <2>3, NullAssumption DEF Owners
        <4> QED BY <1>3, <2>2, <4>1 DEF Left
      <3>2. CASE ptr[from] # s
        <4>1. to \in Owners(s)
          BY <1>1 DEF Owners
        <4>2. \A k \in Handles : ptr'[k] = s <=> k # to /\ ptr[k] = s
          BY <3>2, <1>1, <2>3, NullAssumption
        <4>3. Owners(s)' = Owners(s) \ {to}
          BY <4>2, <2>1 DEF Owners
        <4> QED BY <1>3, <2>2, <4>1, <4>3 DEF Left
      <3> QED BY <3>1, <3>2
    <2>5. ASSUME NEW x \in States \ {s} PROVE Kept(x) \/ Exchanged(x)
      <3>1. SameCount(x)
        BY <2>2 DEF SameCount
      <3>2. CASE x # ptr[from]
        BY <3>1, <3>2, <1>1, <2>1, <2>3, NullAssumption DEF Kept, Owners
      <3>3. CASE x = ptr[from]
        <4>1. from \in Owners(x) /\ to \notin Owners(x)
          BY <3>3, <1>1 DEF Owners
        <4>2. \A k \in Handles : ptr'[k] = x <=> k = to \/ (k # from /\ ptr[k] = x)
          BY <3>3, <1>1, <2>3, NullAssumption
        <4>3. Owners(x)' = (Owners(x) \ {from}) \cup {to}
          BY <4>2, <1>1, <2>1 DEF Owners
        <4> QED BY <3>1, <4>1, <4>3 DEF Exchanged
      <3> QED BY <3>2, <3>3
    <2>6. Busy'
      BY <1>1, <2>1, <2>3, Facts DEF Busy
    <2>7. /\ ptr' \in [Handles -> States \cup {Null}]
          /\ \A k \in Handles : ptr'[k] # Null => \E i \in Handles : ptr'[k] = ptr[i]
          /\ \A x \in States : state'[x].given = IF state'[x].moved THEN 1 ELSE 0
          /\ \A x \in States : state'[x].life = "none" => state'[x] = state[x]
      BY <2>1, <2>2, <2>3, Facts
    <2> QED BY <1>1, <2>1, <2>2, <2>4, <2>5, <2>6, <2>7, StepInv, Facts
  <1> QED BY <1>2, <1>3

\* share(), shared_future(const shared_future&): a counted variable more.
LEMMA ShareStep ==
    ASSUME IndInv, NEW h \in Handles, NEW k \in Handles, Share(h, k)
    PROVE  IndInv'
  <1>1. ptr[h] \in States /\ pc[k] = "idle" /\ ptr[k] = Null /\ isVoid' = isVoid
    BY Facts DEF Share, Valid, Idle
  <1> PICK s \in States : s = ptr[h]
    BY <1>1
  <1>2. CASE state[s].life # "alive"
    BY <1>1, <1>2, FaultStep DEF Share, Touch
  <1>3. CASE state[s].life = "alive"
    <2>1. /\ fault' = FALSE /\ state' = RefAdded(s) /\ ptr' = [ptr EXCEPT ![k] = s]
          /\ obtained' = obtained /\ pc' = pc
      BY <1>3 DEF Share, Touch
    <2>2. /\ state' \in [States -> Record]
          /\ \A x \in States \ {s} : state'[x] = state[x]
          /\ state'[s].life = state[s].life
          /\ state'[s].moved = state[s].moved /\ state'[s].given = state[s].given
          /\ state'[s].futures = state[s].futures
          /\ state'[s].refs = state[s].refs + 1
      BY <2>1, RefAddedWrites DEF IndInv
    <2>3. \A i \in Handles : ptr'[i] = IF i = k THEN s ELSE ptr[i]
      BY <2>1, Facts
    <2>4. Joined(s)
      <3>1. Owners(s)' = Owners(s) \cup {k} /\ k \in Handles \ Owners(s)
        BY <1>1, <2>1, <2>3, NullAssumption DEF Owners
      <3> QED BY <1>3, <2>2, <3>1 DEF Joined
    <2>5. ASSUME NEW x \in States \ {s} PROVE Kept(x)
      BY <1>1, <2>1, <2>2, <2>3, NullAssumption DEF Kept, SameCount, Owners
    <2>6. Busy'
      BY <1>1, <2>1, <2>3, Facts, NullAssumption DEF Busy
    <2>7. /\ ptr' \in [Handles -> States \cup {Null}]
          /\ \A i \in Handles : ptr'[i] # Null => \E j \in Handles : ptr'[i] = ptr[j]
          /\ \A x \in States : state'[x].given = IF state'[x].moved THEN 1 ELSE 0
          /\ \A x \in States : state'[x].life = "none" => state'[x] = state[x]
      BY <1>3, <2>1, <2>2, <2>3, Facts
    <2> QED BY <1>1, <2>1, <2>2, <2>4, <2>5, <2>6, <2>7, StepInv, Facts
  <1> QED BY <1>2, <1>3

\* shared_future::operator=(const shared_future&), its release(): the target
\* leaves the owners, and does not count among those of its new state yet.
LEMMA CopyAssignStep ==
    ASSUME IndInv, NEW from \in Handles, NEW to \in Handles, CopyAssign(from, to)
    PROVE  IndInv'
  <1>1. /\ ptr[to] \in States /\ pc[from] = "idle" /\ pc[to] = "idle" /\ from # to
        /\ ptr[from] # Null /\ isVoid' = isVoid
    BY Facts DEF CopyAssign, Valid, Idle
  <1> PICK s \in States : s = ptr[to]
    BY <1>1
  <1>2. CASE state[s].life # "alive"
    BY <1>1, <1>2, FaultStep DEF CopyAssign, Touch
  <1>3. CASE state[s].life = "alive"
    <2>1. /\ fault' = FALSE /\ state' = Released(s) /\ ptr' = [ptr EXCEPT ![to] = ptr[from]]
          /\ pc' = [pc EXCEPT ![to] = "addingRef", ![from] = "copied"]
          /\ obtained' = obtained
      BY <1>3 DEF CopyAssign, Touch
    <2>2. /\ state' \in [States -> Record]
          /\ \A x \in States \ {s} : state'[x] = state[x]
          /\ state'[s].life = IF state[s].refs = 1 THEN "released" ELSE "alive"
          /\ state'[s].moved = state[s].moved /\ state'[s].given = state[s].given
          /\ state'[s].futures = state[s].futures
          /\ state'[s].refs = state[s].refs - 1
      BY <1>3, <2>1, ReleasedWrites
    <2>3. \A k \in Handles :
             /\ ptr'[k] = IF k = to THEN ptr[from] ELSE ptr[k]
             /\ pc'[k] = IF k = to THEN "addingRef" ELSE IF k = from THEN "copied" ELSE pc[k]
      BY <1>1, <2>1, Facts
    <2>4. \A x \in States : \A k \in Handles :
             ptr'[k] = x /\ pc'[k] # "addingRef" <=> k # to /\ ptr[k] = x /\ pc[k] # "addingRef"
      BY <1>1, <2>3
    <2>5. \A x \in States : Owners(x)' = Owners(x) \ {to}
      BY <2>4 DEF Owners
    <2>6. to \in Owners(s) /\ \A x \in States \ {s} : to \notin Owners(x)
      BY <1>1 DEF Owners
    <2>7. Left(s)
      BY <1>3, <2>2, <2>5, <2>6 DEF Left
    <2>8. ASSUME NEW x \in States \ {s} PROVE Kept(x)
      BY <2>2, <2>5, <2>6 DEF Kept, SameCount
    <2>9. Busy'
      BY <1>1, <2>3, Facts DEF Busy
    <2>10. /\ ptr' \in [Handles -> States \cup {Null}] /\ pc' \in [Handles -> PcValues]
           /\ \A k \in Handles : ptr'[k] # Null => \E i \in Handles : ptr'[k] = ptr[i]
           /\ \A x \in States : state'[x].given = IF state'[x].moved THEN 1 ELSE 0
           /\ \A x \in States : state'[x].life = "none" => state'[x] = state[x]
      BY <2>1, <2>2, <2>3, Facts DEF PcValues
    <2> QED BY <1>1, <2>1, <2>2, <2>7, <2>8, <2>9, <2>10, StepInv, Facts
  <1> QED BY <1>2, <1>3

\* Its add_ref(): now the target counts.
LEMMA CopyAssignAddsRefStep ==
    ASSUME IndInv, NEW to \in Handles, CopyAssignAddsRef(to)
    PROVE  IndInv'
  <1>1. ptr[to] \in States /\ pc[to] = "addingRef" /\ isVoid' = isVoid
    BY Facts DEF CopyAssignAddsRef
  <1> PICK s \in States : s = ptr[to]
    BY <1>1
  <1>2. CASE state[s].life # "alive"
    BY <1>1, <1>2, FaultStep DEF CopyAssignAddsRef, Touch
  <1>3. CASE state[s].life = "alive"
    <2>1. /\ fault' = FALSE /\ state' = RefAdded(s)
          /\ pc' = [h \in Handles |->
                      IF h = to \/ (pc[h] = "copied" /\ ptr[h] = ptr[to]) THEN "idle" ELSE pc[h]]
          /\ ptr' = ptr /\ obtained' = obtained
      BY <1>3 DEF CopyAssignAddsRef, Touch
    <2>2. /\ state' \in [States -> Record]
          /\ \A x \in States \ {s} : state'[x] = state[x]
          /\ state'[s].life = state[s].life
          /\ state'[s].moved = state[s].moved /\ state'[s].given = state[s].given
          /\ state'[s].futures = state[s].futures
          /\ state'[s].refs = state[s].refs + 1
      BY <2>1, RefAddedWrites DEF IndInv
    <2>3. \A k \in Handles : /\ pc'[k] \in {pc[k], "idle"}
                             /\ pc'[k] = "addingRef" <=> pc[k] = "addingRef" /\ k # to
      BY <2>1
    <2>4. \A x \in States : Owners(x)' = {k \in Handles : ptr[k] = x /\ (pc[k] # "addingRef" \/ k = to)}
      BY <2>1, <2>3 DEF Owners
    <2>5. Joined(s)
      <3>1. Owners(s)' = Owners(s) \cup {to} /\ to \in Handles \ Owners(s)
        BY <1>1, <2>4 DEF Owners
      <3> QED BY <1>3, <2>2, <3>1 DEF Joined
    <2>6. ASSUME NEW x \in States \ {s} PROVE Kept(x)
      BY <1>1, <2>2, <2>4 DEF Kept, SameCount, Owners
    <2>7. Busy'
      BY <2>1, <2>3, Facts DEF Busy
    <2>8. /\ pc' \in [Handles -> PcValues]
          /\ \A k \in Handles : ptr'[k] # Null => \E i \in Handles : ptr'[k] = ptr[i]
          /\ \A x \in States : state'[x].given = IF state'[x].moved THEN 1 ELSE 0
          /\ \A x \in States : state'[x].life = "none" => state'[x] = state[x]
      BY <1>3, <2>1, <2>2, Facts DEF PcValues
    <2> QED BY <1>1, <2>1, <2>2, <2>5, <2>6, <2>7, <2>8, StepInv, Facts
  <1> QED BY <1>2, <1>3

-----------------------------------------------------------------------------
\* No state is made, no variable has one.
LEMMA InitInv == Init => IndInv
  <1> SUFFICES ASSUME Init PROVE IndInv
    OBVIOUS
  <1> USE DEF Init
  <1>1. PICK program \in Programs : pc = [h \in Handles |-> IF h \in program THEN "idle" ELSE "absent"]
    OBVIOUS
  <1>2. NoState \in Record
    BY DEF NoState, Record, Lives
  <1>3. TypeOK
    BY <1>1, <1>2 DEF TypeOK, Record, Lives
  <1>4. Unborn /\ Counted /\ Delivered /\ Busy
    BY <1>1, NullAssumption DEF Unborn, Counted, Delivered, Busy, NoState
  <1> QED BY <1>3, <1>4 DEF IndInv

\* Every step of promises, futures and shared futures preserves the invariant.
LEMMA NextStep == IndInv /\ [Next]_vars => IndInv'
  <1> SUFFICES ASSUME IndInv, [Next]_vars PROVE IndInv'
    OBVIOUS
  <1>1. ASSUME NEW p \in Promises, PromiseStep(p) PROVE IndInv'
    BY <1>1, MakePromiseStep, SetOutcomeStep, GetFutureStep, MoveStep, AssignPromiseStep,
       AskStep, ReleaseStep, Facts DEF PromiseStep
  <1>2. ASSUME NEW h \in Handles, GetterStep(h) PROVE IndInv'
    BY <1>2, AskStep, ReleaseStep DEF GetterStep
  <1>3. ASSUME NEW f \in Futures, FutureStep(f) \/ \E s \in Shareds : Share(f, s) PROVE IndInv'
    BY <1>2, <1>3, MoveStep, AssignGetterStep, ShareStep, Facts DEF FutureStep
  <1>4. ASSUME NEW h \in Shareds, SharedFutureStep(h) PROVE IndInv'
    BY <1>2, <1>4, MoveStep, AssignGetterStep, ShareStep, CopyAssignStep,
       CopyAssignAddsRefStep, Facts DEF SharedFutureStep
  <1>5. CASE UNCHANGED vars
    BY <1>5, FaultStep, Facts DEF vars
  <1> QED BY <1>1, <1>3, <1>4, <1>5 DEF Next

\* The invariant holds in every reachable state.
LEMMA Inductive == Spec => []IndInv
  BY InitInv, NextStep, PTL DEF Spec

\* A step that sets no result leaves all results alone.
LEMMA OutcomesStay ==
    ASSUME IndInv, [Next]_vars, NEW s \in States, IsReady(s)
    PROVE  state'[s].outcome = state[s].outcome
  <1> DEFINE goal == state'[s].outcome = state[s].outcome
  <1>1. ASSUME NEW h \in Handles, ptr[h] # Null,
               \/ \E o \in Outcomes : state' = OutcomeSet(ptr[h], o)
               \/ state' = Got(ptr[h])
               \/ state' = RefAdded(ptr[h])
        PROVE  goal
    BY <1>1, SetOutcomeWrites, GotWrites, RefAddedWrites, Facts DEF IndInv
  <1>2. ASSUME NEW h \in Handles, ptr[h] # Null, state[ptr[h]].life = "alive",
               state' = Released(ptr[h])
        PROVE  goal
    BY <1>2, ReleasedWrites, Facts
  <1>3. ASSUME state' = state PROVE goal
    BY <1>3
  <1>4. ASSUME NEW p \in Promises, PromiseStep(p) PROVE goal
    <2>1. ASSUME NEW x \in States, MakePromise(p, x) PROVE goal
      BY <2>1, Facts DEF MakePromise, Record
    <2>2. ASSUME NEW o \in Outcomes, SetOutcome(p, o) PROVE goal
      BY <2>2, <1>1, <1>3, Facts DEF SetOutcome, Valid, Touch
    <2>3. ASSUME NEW f \in Futures, GetFuture(p, f) PROVE goal
      BY <2>3, Facts DEF GetFuture, Record, Valid
    <2>4. ASSUME NEW q \in Promises, MovePromise(p, q) PROVE goal
      BY <2>4 DEF MovePromise
    <2>5. ASSUME NEW q \in Promises, AssignPromise(p, q) PROVE goal
      BY <2>5, Facts DEF AssignPromise, Touch, Record, Valid
    <2>6. CASE DestroyPromise(p)
      BY <2>6 DEF DestroyPromise, Touch
    <2>7. CASE BreakPromise(p)
      BY <2>7, <1>1, <1>3, Facts DEF BreakPromise, Touch, Outcomes
    <2>8. CASE ReleasePromise(p)
      BY <2>8, <1>2, <1>3, Facts DEF ReleasePromise, Touch
    <2> QED BY <1>4, <2>1, <2>2, <2>3, <2>4, <2>5, <2>6, <2>7, <2>8 DEF PromiseStep
  <1>5. ASSUME NEW h \in Handles, GetterStep(h) PROVE goal
    <2>1. ASSUME NEW how \in Waits, Ask(h, how) PROVE goal
      BY <2>1, <1>1, <1>3, Facts DEF Ask, Touch, Valid
    <2>2. CASE Answer(h)
      BY <2>2, <1>1, <1>3, Facts DEF Answer, Touch, Waits
    <2>3. CASE TimeOut(h)
      BY <2>3 DEF TimeOut, Touch
    <2>4. CASE DestroyGetter(h)
      BY <2>4, <1>2, <1>3, Facts DEF DestroyGetter, Touch, Valid
    <2> QED BY <1>5, <2>1, <2>2, <2>3, <2>4 DEF GetterStep
  <1>6. ASSUME NEW h \in Handles, NEW k \in Handles,
               MoveGetter(h, k) \/ AssignGetter(h, k) \/ Share(h, k) \/ CopyAssign(h, k)
        PROVE  goal
    <2>1. CASE MoveGetter(h, k)
      BY <2>1 DEF MoveGetter
    <2>2. CASE AssignGetter(h, k)
      BY <2>2, <1>2, <1>3, Facts DEF AssignGetter, Touch, Valid
    <2>3. CASE Share(h, k)
      BY <2>3, <1>1, <1>3, Facts DEF Share, Touch, Valid
    <2>4. CASE CopyAssign(h, k)
      BY <2>4, <1>2, <1>3, Facts DEF CopyAssign, Touch, Valid
    <2> QED BY <1>6, <2>1, <2>2, <2>3, <2>4
  <1>7. ASSUME NEW h \in Shareds, CopyAssignAddsRef(h) PROVE goal
    BY <1>7, <1>1, <1>3, Facts DEF CopyAssignAddsRef, Touch
  <1>8. CASE UNCHANGED vars
    BY <1>8 DEF vars
  <1> QED BY <1>4, <1>5, <1>6, <1>7, <1>8, Facts DEF Next, FutureStep, SharedFutureStep

-----------------------------------------------------------------------------
\* The variables keep their types.
THEOREM TypeCorrect == Spec => []TypeOK
  <1>1. IndInv => TypeOK
    BY DEF IndInv
  <1> QED BY <1>1, Inductive, PTL

\* However many futures and shared futures refer to a state, its value is
\* moved out and returned once.
THEOREM ValueOnce == Spec => []ValueDeliveredOnce
  <1>1. IndInv => ValueDeliveredOnce
    BY DEF IndInv, Delivered, ValueDeliveredOnce
  <1> QED BY <1>1, Inductive, PTL

\* The reference count through every move, copy and assignment: it is short by
\* the futures that get_future() made, and by nothing else.
THEOREM CountsOwners == Spec => []SharedKeepAlive
  <1>1. IndInv => SharedKeepAlive
    BY DEF IndInv, Counted, SharedKeepAlive
  <1> QED BY <1>1, Inductive, PTL

\* No step replaces a result: not a second set_value(), not the destructor.
THEOREM ResultsAreFinal == Spec => ResultIsFinal
  <1>1. IndInv /\ [Next]_vars =>
           [\A s \in States : IsReady(s) => state'[s].outcome = state[s].outcome]_vars
    BY OutcomesStay
  <1> QED BY <1>1, Inductive, PTL DEF Spec, ResultIsFinal
=============================================================================
