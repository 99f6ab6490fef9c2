-------------------------- MODULE MCObjects_proofs --------------------------
(***************************************************************************)
(* Proofs about what owns and what records (MCObjects.tla).  unique_ptr    *)
(* (UniquePtr.tla), for any nodes, arrays and deleters: each object has    *)
(* one owner.  optional, variant, function and any (ValueHolders.tla), for *)
(* any number of objects and any values: each holds what its calls built.  *)
(* Errors, the logger and files (Errors.tla, Logging.tla, FileIO.tla), for *)
(* any depth, line, array and number of calls: what is recorded is kept    *)
(* and found again.  shared_ptr has a module of its own, SharedPtr_proofs. *)
(***************************************************************************)
EXTENDS MCObjects, FiniteSetTheorems, SequenceTheorems, WellFoundedInduction, TLAPS

-----------------------------------------------------------------------------
(***************************************************************************)
(* unique_ptr.  Owner and object are related both ways: what a slot points *)
(* to is alive and fits its deleter, and what is alive has an owner; no    *)
(* member of an object that is not alive points anywhere.                  *)
(***************************************************************************)
UTypeOK ==
    /\ ptr \in [U!Slots -> U!Pointees \cup {Null}]
    /\ deleter \in [U!Slots -> Deleters]
    /\ source \in [U!Pointees -> Deleters]
    /\ state \in [U!Pointees -> {"none", "alive", "dead"}]
    /\ loose \subseteq U!Pointees

OwnedOnce == \A s, t \in U!Slots : ptr[s] = ptr[t] /\ ptr[s] # Null => s = t
OwnedFits ==
    \A s \in U!Slots : ptr[s] # Null =>
        state[ptr[s]] = "alive" /\ ptr[s] \notin loose /\ deleter[s] = source[ptr[s]]
AliveOwned == \A o \in U!Pointees : state[o] = "alive" => o \in loose \/ \E s \in U!Slots : ptr[s] = o
LooseAlive == \A o \in loose : state[o] = "alive"
DeadEmpty == \A n \in Nodes : state[n] # "alive" => ptr[n] = Null

UInv == UTypeOK /\ OwnedOnce /\ OwnedFits /\ AliveOwned /\ LooseAlive /\ DeadEmpty

\* The names of slots and objects: a name of both is a node, and Null is neither.
LEMMA Names ==
    /\ Null \notin U!Pointees /\ Nodes \subseteq U!Pointees /\ Blocks \subseteq U!Pointees
    /\ Nodes \subseteq U!Slots /\ Variables \subseteq U!Slots /\ Arrays \subseteq U!Slots
    /\ \A s \in U!Slots : s \in U!Pointees => s \in Nodes
    /\ \A s \in Variables \cup Arrays : s \notin Nodes
    /\ DefaultDelete \in Deleters
  BY UniqueAssumption DEF U!ConstantsAssumption, U!Slots, U!Pointees

\* A list is closed, and holds the object it starts with.
LEMMA ListClosed ==
    ASSUME UTypeOK, NEW o \in U!Pointees \cup {Null}
    PROVE  U!List(o) \subseteq U!Pointees /\ (o # Null => o \in U!List(o)) /\ U!Closed(U!List(o))
  <1>1. ASSUME NEW n \in U!List(o) \cap Nodes, ptr[n] # Null PROVE ptr[n] \in U!List(o)
    <2>1. ptr[n] \in U!Pointees
      BY <1>1, Names DEF UTypeOK
    <2>2. ASSUME NEW S \in SUBSET U!Pointees, {o} \ {Null} \subseteq S, U!Closed(S) PROVE ptr[n] \in S
      <3>1. n \in S
        BY <2>2 DEF U!List
      <3> QED BY <1>1, <2>2, <3>1 DEF U!Closed
    <2> QED BY <2>1, <2>2 DEF U!List
  <1>2. U!Closed(U!List(o))
    BY <1>1 DEF U!Closed
  <1> QED BY <1>2 DEF U!List

\* It is the least such set.
LEMMA ListLeast ==
    ASSUME NEW o, NEW S \in SUBSET U!Pointees, o # Null => o \in S, U!Closed(S)
    PROVE  U!List(o) \subseteq S
  BY DEF U!List

\* An object behind the first has its owner on the list.
LEMMA ListOwned ==
    ASSUME UTypeOK, NEW o \in U!Pointees \cup {Null}, NEW x \in U!List(o), x # o
    PROVE  \E n \in U!List(o) \cap Nodes : ptr[n] = x
  <1> DEFINE S == {y \in U!List(o) : y = o \/ \E n \in U!List(o) \cap Nodes : ptr[n] = y}
  <1>1. U!List(o) \subseteq U!Pointees /\ (o # Null => o \in U!List(o)) /\ U!Closed(U!List(o))
    BY ListClosed
  <1>2. S \in SUBSET U!Pointees /\ (o # Null => o \in S)
    BY <1>1
  <1>3. U!Closed(S)
    BY <1>1 DEF U!Closed
  <1>4. U!List(o) \subseteq S
    BY <1>2, <1>3, ListLeast
  <1> QED BY <1>4

\* The program uses only members of objects that are alive.
LEMMA UsableAlive ==
    ASSUME UInv, NEW s \in Nodes, U!Usable(s)
    PROVE  state[s] = "alive"
  <1> DEFINE S == {x \in U!Pointees : state[x] = "alive"}
  <1>1. PICK o \in U!Roots : s \in U!List(o)
    BY DEF U!Usable
  <1>2. o # Null => o \in S
    BY Names DEF U!Roots, UInv, UTypeOK, OwnedFits, LooseAlive
  <1>3. U!Closed(S)
    BY Names DEF U!Closed, UInv, UTypeOK, OwnedFits
  <1>4. U!List(o) \subseteq S
    BY <1>2, <1>3, ListLeast
  <1> QED BY <1>1, <1>4

\* No slot that the program may use is on the list it starts: that list would be
\* a cycle, which owns all its objects, so that the program could not reach it.
LEMMA OffOwnList ==
    ASSUME UInv, NEW s \in U!Slots, U!Usable(s)
    PROVE  s \notin U!List(ptr[s])
  <1> SUFFICES ASSUME s \in U!List(ptr[s]) PROVE FALSE
    OBVIOUS
  <1> DEFINE C == U!List(ptr[s])
             S == U!Pointees \ C
  <1>1. UTypeOK /\ ptr[s] \in U!Pointees \cup {Null}
    BY DEF UInv, UTypeOK
  <1>2. C \subseteq U!Pointees /\ U!Closed(C)
    BY <1>1, ListClosed
  <1>3. s \in Nodes
    BY <1>2, Names
  <1>4. \A x \in C : \E n \in C \cap Nodes : ptr[n] = x
    BY <1>1, <1>3, ListOwned
  <1>5. \A t \in U!Slots : ptr[t] \in C => t \in C
    BY <1>2, <1>4, Names DEF UInv, OwnedOnce
  <1>6. PICK o \in U!Roots : s \in U!List(o)
    BY <1>3 DEF U!Usable
  <1>7. o # Null => o \in S
    <2>1. ASSUME NEW v \in Variables, o = ptr[v], o # Null PROVE o \in S
      <3>1. v \notin C
        BY <1>2, Names
      <3> QED BY <1>1, <1>5, <2>1, <3>1, Names DEF UTypeOK
    <2>2. ASSUME o \in loose PROVE o \in S
      BY <1>2, <1>4, <2>2, Names DEF UInv, UTypeOK, OwnedFits
    <2> QED BY <2>1, <2>2 DEF U!Roots
  <1>8. U!Closed(S)
    BY <1>1, <1>5, Names DEF U!Closed, UTypeOK
  <1>9. U!List(o) \subseteq S
    BY <1>7, <1>8, ListLeast
  <1> QED BY <1>6, <1>9

-----------------------------------------------------------------------------
\* The list behind a slot is owned by the slot and by its own members.
LEMMA ListOfSlot ==
    ASSUME UInv, NEW s \in U!Slots
    PROVE  /\ \A x \in U!List(ptr[s]) : state[x] = "alive" /\ x \notin loose
           /\ \A t \in U!Slots : ptr[t] \in U!List(ptr[s]) => t = s \/ t \in U!List(ptr[s])
           /\ \A t \in U!Slots : t \in U!List(ptr[s]) /\ ptr[t] # Null => ptr[t] \in U!List(ptr[s])
           /\ ptr[s] # Null => ptr[s] \in U!List(ptr[s])
           /\ U!List(ptr[s]) \subseteq U!Pointees
  <1> DEFINE D == U!List(ptr[s])
  <1>1. UTypeOK /\ ptr[s] \in U!Pointees \cup {Null}
    BY DEF UInv, UTypeOK
  <1>2. D \subseteq U!Pointees /\ U!Closed(D) /\ (ptr[s] # Null => ptr[s] \in D)
    BY <1>1, ListClosed
  <1>3. \A x \in D : x = ptr[s] \/ \E n \in D \cap Nodes : ptr[n] = x
    BY <1>1, ListOwned
  <1>4. \A x \in D : state[x] = "alive" /\ x \notin loose
    BY <1>2, <1>3, Names DEF UInv, OwnedFits
  <1>5. \A t \in U!Slots : ptr[t] \in D => t = s \/ t \in D
    BY <1>2, <1>3, Names DEF UInv, OwnedOnce
  <1>6. \A t \in U!Slots : t \in D /\ ptr[t] # Null => ptr[t] \in D
    BY <1>2, Names DEF U!Closed
  <1> QED BY <1>2, <1>4, <1>5, <1>6

\* Each object of the list dies by the deleter that fits it.
LEMMA AllDie ==
    ASSUME UInv, NEW s \in U!Slots
    PROVE  U!Destroyed(ptr[s], deleter[s]) =
              [x \in U!Pointees |-> IF x \in U!List(ptr[s]) THEN "dead" ELSE state[x]]
  <1> DEFINE D == U!List(ptr[s])
             by(x) == IF x = ptr[s] THEN deleter[s] ELSE deleter[CHOOSE n \in D \cap Nodes : ptr[n] = x]
  <1>1. UTypeOK /\ ptr[s] \in U!Pointees \cup {Null}
    BY DEF UInv, UTypeOK
  <1>2. ASSUME NEW x \in D PROVE state[x] = "alive" /\ by(x) = source[x]
    <2>1. state[x] = "alive" /\ x \in U!Pointees /\ x # Null
      BY ListOfSlot, Names
    <2>2. CASE x = ptr[s]
      BY <2>1, <2>2 DEF UInv, OwnedFits
    <2>3. CASE x # ptr[s]
      <3>1. \E n \in D \cap Nodes : ptr[n] = x
        BY <1>1, <2>3, ListOwned
      <3> DEFINE m == CHOOSE n \in D \cap Nodes : ptr[n] = x
      <3>2. m \in Nodes /\ ptr[m] = x
        BY <3>1
      <3>3. deleter[m] = source[x]
        BY <2>1, <3>2, Names DEF UInv, OwnedFits
      <3> QED BY <2>1, <2>3, <3>3
    <2> QED BY <2>2, <2>3
  <1> QED BY <1>2 DEF U!Destroyed

-----------------------------------------------------------------------------
\* The parts of UInv after a step, from what the step does to each slot.
LEMMA UInvParts ==
    ASSUME UTypeOK', OwnedOnce', OwnedFits', AliveOwned', LooseAlive', DeadEmpty'
    PROVE  UInv'
  BY DEF UInv

\* Initially there is no object, and no slot has one.
LEMMA OwnersInit == U!Init => UInv
  BY Names DEF U!Init, UInv, UTypeOK, OwnedOnce, OwnedFits, AliveOwned, LooseAlive, DeadEmpty

\* new: the program owns the object.
LEMMA AllocateKeeps ==
    ASSUME UInv, NEW o \in U!Pointees, NEW d \in Deleters, U!Allocate(o, d)
    PROVE  UInv'
  <1> USE DEF U!Allocate
  <1>1. UTypeOK'
    BY DEF UInv, UTypeOK
  <1>2. \A s \in U!Slots : ptr[s] # o
    BY Names DEF UInv, OwnedFits
  <1>3. OwnedOnce'
    BY DEF UInv, OwnedOnce
  <1>4. OwnedFits'
    BY <1>2 DEF UInv, UTypeOK, OwnedFits
  <1>5. AliveOwned' /\ LooseAlive' /\ DeadEmpty'
    BY Names DEF UInv, UTypeOK, AliveOwned, LooseAlive, DeadEmpty
  <1> QED BY <1>1, <1>3, <1>4, <1>5, UInvParts

\* make_unique: the object is new and the slot owns it.
LEMMA MakeUniqueKeeps ==
    ASSUME UInv, NEW s, NEW o \in U!Pointees, U!MakeUnique(s, o)
    PROVE  UInv'
  <1> USE DEF U!MakeUnique
  <1>1. s \in U!Slots /\ s \notin Nodes /\ ptr[s] = Null /\ o # Null
    BY Names DEF U!IsNull
  <1>2. UTypeOK'
    BY <1>1, Names DEF UInv, UTypeOK
  <1>3. \A t \in U!Slots : ptr[t] # o /\ ptr'[t] = IF t = s THEN o ELSE ptr[t]
    BY <1>1 DEF UInv, UTypeOK, OwnedFits
  <1>4. OwnedOnce'
    BY <1>1, <1>3 DEF UInv, OwnedOnce
  <1>5. o \notin loose
    BY DEF UInv, LooseAlive
  <1>6. OwnedFits'
    BY <1>1, <1>3, <1>5 DEF UInv, UTypeOK, OwnedFits
  <1>7. \A x \in U!Pointees : state'[x] = IF x = o THEN "alive" ELSE state[x]
    BY DEF UInv, UTypeOK
  <1>8. AliveOwned'
    <2> SUFFICES ASSUME NEW x \in U!Pointees, state'[x] = "alive", x \notin loose'
                 PROVE  \E t \in U!Slots : ptr'[t] = x
      BY DEF AliveOwned
    <2>1. CASE x = o
      BY <1>1, <1>3, <2>1
    <2>2. CASE x # o
      <3>1. PICK t \in U!Slots : ptr[t] = x
        BY <1>7, <2>2 DEF UInv, AliveOwned
      <3>2. t # s
        BY <1>1, <2>2, <3>1, Names
      <3> QED BY <1>3, <3>1, <3>2
    <2> QED BY <2>1, <2>2
  <1>9. LooseAlive' /\ DeadEmpty'
    BY <1>1, <1>3, <1>7, Names DEF UInv, UTypeOK, LooseAlive, DeadEmpty
  <1> QED BY <1>2, <1>4, <1>6, <1>8, <1>9, UInvParts

\* The constructor from a pointer: the slot takes the program's object and a deleter that fits.
LEMMA ConstructKeeps ==
    ASSUME UInv, NEW s, NEW o \in U!Pointees, U!Construct(s, o)
    PROVE  UInv'
  <1> USE DEF U!Construct
  <1>1. s \in U!Slots /\ s \notin Nodes /\ ptr[s] = Null /\ o # Null
    BY Names DEF U!IsNull
  <1>2. UTypeOK'
    BY <1>1, Names DEF UInv, UTypeOK
  <1>3. \A t \in U!Slots : ptr[t] # o /\ ptr'[t] = IF t = s THEN o ELSE ptr[t]
    BY <1>1 DEF UInv, UTypeOK, OwnedFits
  <1>4. OwnedOnce'
    BY <1>1, <1>3 DEF UInv, OwnedOnce
  <1>5. state[o] = "alive"
    BY DEF UInv, LooseAlive
  <1>6. OwnedFits'
    BY <1>1, <1>3, <1>5 DEF UInv, UTypeOK, OwnedFits
  <1>8. AliveOwned'
    <2> SUFFICES ASSUME NEW x \in U!Pointees, state'[x] = "alive", x \notin loose'
                 PROVE  \E t \in U!Slots : ptr'[t] = x
      BY DEF AliveOwned
    <2>1. CASE x = o
      BY <1>1, <1>3, <2>1
    <2>2. CASE x # o
      <3>1. PICK t \in U!Slots : ptr[t] = x
        BY <2>2 DEF UInv, AliveOwned
      <3>2. t # s
        BY <1>1, <2>2, <3>1, Names
      <3> QED BY <1>3, <3>1, <3>2
    <2> QED BY <2>1, <2>2
  <1>9. LooseAlive' /\ DeadEmpty'
    BY <1>1, <1>3, Names DEF UInv, UTypeOK, LooseAlive, DeadEmpty
  <1> QED BY <1>2, <1>4, <1>6, <1>8, <1>9, UInvParts

\* release(): the program owns the object of the slot.
LEMMA ReleaseKeeps ==
    ASSUME UInv, NEW s \in U!Slots, U!Release(s)
    PROVE  UInv'
  <1> USE DEF U!Release
  <1>1. ptr[s] # Null /\ ptr[s] \in U!Pointees
    BY DEF U!IsNull, UInv, UTypeOK
  <1>2. UTypeOK'
    BY <1>1, Names DEF UInv, UTypeOK
  <1>3. \A t \in U!Slots : ptr'[t] = IF t = s THEN Null ELSE ptr[t]
    BY DEF UInv, UTypeOK
  <1>4. OwnedOnce'
    BY <1>3 DEF UInv, OwnedOnce
  <1>6. OwnedFits'
    BY <1>1, <1>3 DEF UInv, OwnedFits, OwnedOnce
  <1>8. AliveOwned'
    BY <1>3 DEF UInv, AliveOwned
  <1>9. LooseAlive' /\ DeadEmpty'
    BY <1>1, <1>3, Names DEF UInv, LooseAlive, OwnedFits, DeadEmpty
  <1> QED BY <1>2, <1>4, <1>6, <1>8, <1>9, UInvParts

\* Move construction: the object and its deleter go to the new slot.
LEMMA MoveConstructKeeps ==
    ASSUME UInv, NEW from \in U!Slots, NEW to, U!MoveConstruct(from, to)
    PROVE  UInv'
  <1> USE DEF U!MoveConstruct
  <1>1. to \in U!Slots /\ to \notin Nodes /\ ptr[to] = Null /\ from # to
    BY Names DEF U!IsNull
  <1>2. UTypeOK'
    BY <1>1, Names DEF UInv, UTypeOK
  <1>3. \A t \in U!Slots : ptr'[t] = IF t = from THEN Null ELSE IF t = to THEN ptr[from] ELSE ptr[t]
    BY <1>1 DEF UInv, UTypeOK
  <1>4. OwnedOnce'
    BY <1>1, <1>3 DEF UInv, OwnedOnce
  <1>5. \A t \in U!Slots : deleter'[t] = IF t = to THEN deleter[from] ELSE deleter[t]
    BY <1>1 DEF UInv, UTypeOK
  <1>6. OwnedFits'
    <2>1. ASSUME NEW t \in U!Slots, ptr'[t] # Null
          PROVE  \E u \in U!Slots : ptr'[t] = ptr[u] /\ deleter'[t] = deleter[u]
      BY <1>1, <1>3, <1>5, <2>1
    <2>2. source' = source /\ state' = state /\ loose' = loose
      OBVIOUS
    <2>3. ASSUME NEW t \in U!Slots, ptr'[t] # Null
          PROVE  state'[ptr'[t]] = "alive" /\ ptr'[t] \notin loose' /\ deleter'[t] = source'[ptr'[t]]
      <3>1. PICK u \in U!Slots : ptr'[t] = ptr[u] /\ deleter'[t] = deleter[u]
        BY <2>1, <2>3
      <3> HIDE DEF U!MoveConstruct
      <3> QED BY <2>2, <2>3, <3>1 DEF UInv, OwnedFits
    <2> QED BY <2>3 DEF OwnedFits
  <1>8. AliveOwned'
    BY <1>1, <1>3, Names DEF UInv, AliveOwned
  <1>9. LooseAlive' /\ DeadEmpty'
    BY <1>1, <1>3, Names DEF UInv, LooseAlive, DeadEmpty
  <1> QED BY <1>2, <1>4, <1>6, <1>8, <1>9, UInvParts

\* swap: objects and deleters change slots together.
LEMMA SwapKeeps ==
    ASSUME UInv, NEW from \in U!Slots, NEW to \in U!Slots, U!Swap(from, to)
    PROVE  UInv'
  <1> USE DEF U!Swap
  <1>2. UTypeOK'
    BY Names DEF UInv, UTypeOK
  <1>3. \A t \in U!Slots : ptr'[t] = IF t = from THEN ptr[to] ELSE IF t = to THEN ptr[from] ELSE ptr[t]
    BY DEF UInv, UTypeOK
  <1>4. OwnedOnce'
    BY <1>3 DEF UInv, OwnedOnce
  <1>5. \A t \in U!Slots : deleter'[t] = IF t = from THEN deleter[to] ELSE IF t = to THEN deleter[from] ELSE deleter[t]
    BY DEF UInv, UTypeOK
  <1>6. OwnedFits'
    <2>1. ASSUME NEW t \in U!Slots, ptr'[t] # Null
          PROVE  \E u \in U!Slots : ptr'[t] = ptr[u] /\ deleter'[t] = deleter[u]
      BY <1>3, <1>5, <2>1
    <2>2. source' = source /\ state' = state /\ loose' = loose
      OBVIOUS
    <2>3. ASSUME NEW t \in U!Slots, ptr'[t] # Null
          PROVE  state'[ptr'[t]] = "alive" /\ ptr'[t] \notin loose' /\ deleter'[t] = source'[ptr'[t]]
      <3>1. PICK u \in U!Slots : ptr'[t] = ptr[u] /\ deleter'[t] = deleter[u]
        BY <2>1, <2>3
      <3> HIDE DEF U!Swap
      <3> QED BY <2>2, <2>3, <3>1 DEF UInv, OwnedFits
    <2> QED BY <2>3 DEF OwnedFits
  <1>8. AliveOwned'
    <2> SUFFICES ASSUME NEW o \in U!Pointees, state[o] = "alive", o \notin loose
                 PROVE  \E t \in U!Slots : ptr'[t] = o
      BY DEF AliveOwned
    <2>1. PICK t \in U!Slots : ptr[t] = o
      BY DEF UInv, AliveOwned
    <2>2. CASE t = from
      BY <1>3, <2>1, <2>2
    <2>3. CASE t = to
      BY <1>3, <2>1, <2>3
    <2>4. CASE t # from /\ t # to
      BY <1>3, <2>1, <2>4
    <2> QED BY <2>2, <2>3, <2>4
  <1>9. \A s \in {from, to} : s \in Nodes => state[s] = "alive"
    BY UsableAlive
  <1>10. LooseAlive' /\ DeadEmpty'
    BY <1>3, <1>9, Names DEF UInv, LooseAlive, DeadEmpty
  <1> QED BY <1>2, <1>4, <1>6, <1>8, <1>10, UInvParts

-----------------------------------------------------------------------------
\* A slot gives up its object, the list behind it dies, and it takes another
\* object: one that the program owned, one of another slot, or none.
LEMMA ResetKeeps ==
    ASSUME UInv, NEW s \in U!Slots, NEW o \in U!Pointees \cup {Null}, U!Reset(s, o)
    PROVE  UInv'
  <1> DEFINE D == U!List(ptr[s])
  <1>1. /\ U!Usable(s) /\ loose' = loose \ {o} /\ UNCHANGED <<deleter, source>>
        /\ o # Null => o \in loose /\ source[o] = deleter[s]
    BY DEF U!Reset
  <1>2. s \notin D
    BY <1>1, OffOwnList
  <1>3. /\ D \subseteq U!Pointees
        /\ \A x \in D : state[x] = "alive" /\ x \notin loose
        /\ \A t \in U!Slots : ptr[t] \in D => t = s \/ t \in D
        /\ \A t \in U!Slots : t \in D /\ ptr[t] # Null => ptr[t] \in D
        /\ ptr[s] # Null => ptr[s] \in D
    BY ListOfSlot
  <1>4. state' = [x \in U!Pointees |-> IF x \in D THEN "dead" ELSE state[x]]
    BY AllDie DEF U!Reset
  <1>5. ptr' = [t \in U!Slots |-> IF t \in D THEN Null ELSE IF t = s THEN o ELSE ptr[t]]
    BY DEF U!Reset, U!Without, UInv, UTypeOK
  <1> HIDE DEF D
  <1>6. \A t \in U!Slots : ptr'[t] = IF t \in D THEN Null ELSE IF t = s THEN o ELSE ptr[t]
    BY <1>5
  <1>7. \A x \in U!Pointees : state'[x] = IF x \in D THEN "dead" ELSE state[x]
    BY <1>4
  <1>8. UTypeOK'
    BY <1>1, <1>4, <1>5, Names DEF UInv, UTypeOK
  <1>9. OwnedOnce'
    <2>1. o # Null => \A t \in U!Slots : ptr[t] # o
      BY <1>1 DEF UInv, OwnedFits
    <2> QED BY <1>6, <2>1 DEF UInv, OwnedOnce
  <1>10. OwnedFits'
    <2>1. o # Null => state[o] = "alive" /\ o \notin D /\ o \in U!Pointees
      BY <1>1, <1>3 DEF UInv, LooseAlive
    <2>2. \A t \in U!Slots : ptr[t] # Null => ptr[t] \in U!Pointees
      BY DEF UInv, UTypeOK
    <2>3. ASSUME NEW t \in U!Slots, ptr'[t] # Null
          PROVE  state'[ptr'[t]] = "alive" /\ ptr'[t] \notin loose' /\ deleter'[t] = source'[ptr'[t]]
      <3>1. CASE t = s
        BY <1>1, <1>2, <1>6, <1>7, <2>1, <2>3, <3>1
      <3>2. CASE t # s
        <4>1. t \notin D /\ ptr'[t] = ptr[t]
          BY <1>6, <2>3, <3>2
        <4>2. ptr[t] \notin D
          BY <1>3, <3>2, <4>1
        <4> QED BY <1>1, <1>7, <2>2, <2>3, <4>1, <4>2 DEF UInv, OwnedFits
      <3> QED BY <3>1, <3>2
    <2> QED BY <2>3 DEF OwnedFits
  <1>11. AliveOwned'
    <2> SUFFICES ASSUME NEW x \in U!Pointees, state'[x] = "alive", x \notin loose'
                 PROVE  \E t \in U!Slots : ptr'[t] = x
      BY DEF AliveOwned
    <2>1. x \notin D /\ state[x] = "alive" /\ x # Null
      BY <1>7, Names
    <2>2. CASE x = o
      BY <1>2, <1>6, <2>2
    <2>3. CASE x # o
      <3>1. PICK t \in U!Slots : ptr[t] = x
        BY <1>1, <2>1, <2>3 DEF UInv, AliveOwned
      <3>2. t # s /\ t \notin D
        BY <1>3, <2>1, <3>1
      <3> QED BY <1>6, <3>1, <3>2
    <2> QED BY <2>2, <2>3
  <1>12. LooseAlive'
    BY <1>1, <1>3, <1>7 DEF UInv, UTypeOK, LooseAlive
  <1>13. DeadEmpty'
    <2>1. s \in Nodes => state[s] = "alive"
      BY <1>1, UsableAlive
    <2> QED BY <1>2, <1>6, <1>7, <2>1, Names DEF UInv, DeadEmpty
  <1> QED BY <1>8, <1>9, <1>10, <1>11, <1>12, <1>13, UInvParts

\* Move assignment: the old object is reset, then object and deleter change slots.
LEMMA MoveAssignKeeps ==
    ASSUME UInv, NEW from \in U!Slots, NEW to \in U!Slots, U!MoveAssign(from, to)
    PROVE  UInv'
  <1> DEFINE D == U!List(ptr[to])
  <1>1. CASE from = to
    BY <1>1 DEF U!MoveAssign, UInv, UTypeOK, OwnedOnce, OwnedFits, AliveOwned, LooseAlive, DeadEmpty
  <1>2. CASE from # to
    <2>1. /\ U!Usable(from) /\ U!Usable(to) /\ UNCHANGED <<loose, source>>
          /\ deleter' = [deleter EXCEPT ![to] = deleter[from]]
      BY <1>2 DEF U!MoveAssign
    <2>2. to \notin D /\ from \notin D
      BY <2>1, OffOwnList DEF U!MoveAssign, U!DiesWith
    <2>3. /\ D \subseteq U!Pointees
          /\ \A x \in D : state[x] = "alive" /\ x \notin loose
          /\ \A t \in U!Slots : ptr[t] \in D => t = to \/ t \in D
          /\ ptr[to] # Null => ptr[to] \in D
          /\ \A t \in U!Slots : t \in D /\ ptr[t] # Null => ptr[t] \in D
      BY ListOfSlot
    <2>4. state' = [x \in U!Pointees |-> IF x \in D THEN "dead" ELSE state[x]]
      BY <1>2, AllDie DEF U!MoveAssign
    <2>5. ptr' = [t \in U!Slots |-> IF t \in D \cup {from} THEN Null ELSE IF t = to THEN ptr[from] ELSE ptr[t]]
      BY <1>2 DEF U!MoveAssign, U!Without, UInv, UTypeOK
    <2> HIDE DEF D
    <2>6. \A t \in U!Slots : ptr'[t] = IF t \in D \cup {from} THEN Null ELSE IF t = to THEN ptr[from] ELSE ptr[t]
      BY <2>5
    <2>7. \A x \in U!Pointees : state'[x] = IF x \in D THEN "dead" ELSE state[x]
      BY <2>4
    <2>8. \A t \in U!Slots : deleter'[t] = IF t = to THEN deleter[from] ELSE deleter[t]
      BY <2>1 DEF UInv, UTypeOK
    <2>9. UTypeOK'
      BY <2>1, <2>4, <2>5, Names DEF UInv, UTypeOK
    <2>10. OwnedOnce'
      BY <2>2, <2>6 DEF UInv, OwnedOnce
    <2>11. OwnedFits'
      <3>1. \A t \in U!Slots : ptr[t] # Null => ptr[t] \in U!Pointees
        BY DEF UInv, UTypeOK
      <3>2. ASSUME NEW t \in U!Slots, ptr'[t] # Null
            PROVE  state'[ptr'[t]] = "alive" /\ ptr'[t] \notin loose' /\ deleter'[t] = source'[ptr'[t]]
        <4>1. PICK u \in U!Slots : /\ ptr'[t] = ptr[u] /\ deleter'[t] = deleter[u] /\ u # to /\ u \notin D
          <5>1. CASE t = to
            BY <1>2, <2>2, <2>6, <2>8, <5>1
          <5>2. CASE t # to
            BY <2>6, <2>8, <3>2, <5>2
          <5> QED BY <5>1, <5>2
        <4>2. ptr[u] \notin D
          BY <2>3, <4>1
        <4> QED BY <2>1, <2>7, <3>1, <3>2, <4>1, <4>2 DEF UInv, OwnedFits
      <3> QED BY <3>2 DEF OwnedFits
    <2>12. AliveOwned'
      <3> SUFFICES ASSUME NEW x \in U!Pointees, state'[x] = "alive", x \notin loose
                   PROVE  \E t \in U!Slots : ptr'[t] = x
        BY <2>1 DEF AliveOwned
      <3>1. x \notin D /\ state[x] = "alive" /\ x # Null
        BY <2>7, Names
      <3>2. PICK t \in U!Slots : ptr[t] = x
        BY <3>1 DEF UInv, AliveOwned
      <3>3. t # to /\ t \notin D
        BY <2>3, <3>1, <3>2
      <3>4. CASE t = from
        BY <1>2, <2>2, <2>6, <3>2, <3>4
      <3>5. CASE t # from
        BY <2>6, <3>2, <3>3, <3>5
      <3> QED BY <3>4, <3>5
    <2>13. LooseAlive'
      BY <2>1, <2>3, <2>7 DEF UInv, UTypeOK, LooseAlive
    <2>14. DeadEmpty'
      <3>1. to \in Nodes => state[to] = "alive"
        BY <2>1, UsableAlive
      <3> QED BY <2>2, <2>6, <2>7, <3>1, Names DEF UInv, DeadEmpty
    <2> QED BY <2>9, <2>10, <2>11, <2>12, <2>13, <2>14, UInvParts
  <1> QED BY <1>1, <1>2

\* Each call on a unique_ptr keeps the relation of owners and objects.
LEMMA OwnersNext == UInv /\ U!Next => UInv'
  <1> SUFFICES ASSUME UInv, U!Next PROVE UInv'
    OBVIOUS
  <1>1. ASSUME NEW S \in SUBSET U!Slots, U!SlotStep(S) PROVE UInv'
    <2>1. ASSUME NEW s \in S, NEW o \in U!Pointees, U!MakeUnique(s, o) \/ U!Construct(s, o) \/ U!Reset(s, o) PROVE UInv'
      BY <2>1, MakeUniqueKeeps, ConstructKeeps, ResetKeeps
    <2>2. ASSUME NEW s \in S, U!Reset(s, Null) \/ U!Release(s) PROVE UInv'
      BY <2>2, ReleaseKeeps, ResetKeeps
    <2>3. ASSUME NEW from \in S, NEW to \in S, U!MoveAssign(from, to) \/ U!MoveConstruct(from, to) \/ U!Swap(from, to)
          PROVE UInv'
      BY <2>3, MoveAssignKeeps, MoveConstructKeeps, SwapKeeps
    <2> QED BY <1>1, <2>1, <2>2, <2>3 DEF U!SlotStep
  <1>2. Variables \cup Nodes \in SUBSET U!Slots /\ Arrays \in SUBSET U!Slots
    BY Names
  <1>3. ASSUME NEW o \in U!Pointees, NEW d \in Deleters, U!Allocate(o, d) PROVE UInv'
    BY <1>3, AllocateKeeps
  <1> QED BY <1>1, <1>2, <1>3 DEF U!Next, U!ArrayStep

\* The relation says that each object has one owner, whose deleter fits it.
LEMMA OwnersOne == UInv => U!OneOwner
  <1> SUFFICES ASSUME UInv PROVE U!OneOwner
    OBVIOUS
  <1>1. ASSUME NEW o \in U!Pointees, state[o] = "alive", o \notin loose
        PROVE  \E s \in U!Slots : U!Owners(o) = {s} /\ deleter[s] = source[o]
    <2>1. PICK s \in U!Slots : ptr[s] = o /\ o # Null
      BY <1>1, Names DEF UInv, AliveOwned
    <2>2. U!Owners(o) = {s}
      BY <2>1 DEF U!Owners, UInv, OwnedOnce
    <2> QED BY <2>1, <2>2 DEF UInv, OwnedFits
  <1>2. ASSUME NEW o \in U!Pointees, state[o] # "alive" \/ o \in loose PROVE U!Owners(o) = {}
    BY <1>2, Names DEF U!Owners, UInv, OwnedFits
  <1>3. \A o \in U!Pointees : state[o] # "misused" /\ (state[o] # "alive" => o \notin loose)
    BY DEF UInv, UTypeOK, LooseAlive
  <1>4. \A s, t \in U!Slots : U!SamePointer(s, t) => s = t \/ U!IsNull(s)
    BY DEF U!SamePointer, U!IsNull, UInv, OwnedOnce
  <1> QED BY <1>1, <1>2, <1>3, <1>4 DEF U!OneOwner

-----------------------------------------------------------------------------
(***************************************************************************)
(* optional, variant, function, any.  What an object holds is a function   *)
(* of the value that its calls built: x represents e in the way of its     *)
(* class.                                                                  *)
(***************************************************************************)
HeldValues == Values \cup {H!Moved, H!Default}
Cells == HeldValues \cup {H!Raw}

OptionalIs(x, e) ==
    /\ x \in [class : {"optional"}, has : BOOLEAN, cell : Cells]
    /\ x.has <=> e # H!Raw
    /\ x.cell = e

VariantIs(x, e) ==
    /\ x \in [class : {"variant"}, index : H!Types, storage : [type : H!Types, cell : HeldValues]]
    /\ x.storage.type = x.index
    /\ e = <<x.index, x.storage.cell>>

FunctionIs(x, e) == x \in [class : {"function"}, impl : Values \cup {H!Raw}] /\ x.impl = e

AnyRecord ==
    [class : {"any"}, vt : {H!Raw, 0, 1}, sbo : BOOLEAN,
     buf : Values \cup {H!Raw}, heap : Values \cup {H!Raw}]

\* An any that is empty, one whose value is where its flag says, and a copy of
\* one on the heap.
AnyEmpty(x) == x.vt = H!Raw /\ x.buf = H!Raw /\ x.heap = H!Raw
AnyFull(x, t, v) ==
    /\ x.vt = t
    /\ \/ t = 0 /\ x.sbo /\ x.buf = v /\ x.heap = H!Raw
       \/ t = 1 /\ ~x.sbo /\ x.buf = H!Raw /\ x.heap = v
AnyLost(x) == x.vt = 1 /\ x.sbo /\ x.buf = H!Raw /\ x.heap \in Values
AnyIs(x, e) ==
    /\ x \in AnyRecord
    /\ \/ e = H!Nothing /\ AnyEmpty(x)
       \/ \E t \in H!Types, v \in Values : e = <<t, v>> /\ AnyFull(x, t, v)
       \/ e = H!Unreadable /\ AnyLost(x)

HTyped == this = [h \in Wrappers |-> this[h]] /\ expected = [h \in Wrappers |-> expected[h]]

Optionals == HTyped /\ \A o \in Wrappers : OptionalIs(this[o], expected[o])
Variants == HTyped /\ \A o \in Wrappers : VariantIs(this[o], expected[o])
Functions == HTyped /\ \A o \in Wrappers : FunctionIs(this[o], expected[o])
Anys == HTyped /\ \A o \in Wrappers : AnyIs(this[o], expected[o])

HInv == Optionals \/ Variants \/ Functions \/ Anys

\* Values, the cells without a value and the marks of misuse are told apart.
LEMMA Numbers ==
    /\ \A v \in HeldValues : v \in Int /\ v # H!Raw /\ v # H!Broken
    /\ H!Raw \in Int /\ H!Raw # H!Broken
    /\ H!Moved \in HeldValues /\ H!Default \in HeldValues
    /\ \A v \in Values : v \in HeldValues
  BY ValuesAssumption DEF HeldValues, H!Raw, H!Broken, H!Moved, H!Default

\* What an operation changes: one object, or two.
LEMMA Updated ==
    ASSUME HTyped, NEW o \in Wrappers, NEW v, NEW e, H!Update(o, v, e)
    PROVE  /\ HTyped'
           /\ \A q \in Wrappers : /\ this'[q] = IF q = o THEN v ELSE this[q]
                                  /\ expected'[q] = IF q = o THEN e ELSE expected[q]
  BY DEF HTyped, H!Update

\* The calls on an object of each class.
NoOptionalCall(o) ==
    /\ ~H!Reset(o)
    /\ \A v \in Values : ~H!AssignValue(o, v) /\ ~H!MakeOptional(o, v) /\ ~H!EmplaceValue(o, v)
    /\ \A p \in Wrappers : /\ ~H!CopyOptional(o, p) /\ ~H!AssignOptional(o, p)
                          /\ ~H!MoveOptional(o, p) /\ ~H!SwapOptionals(o, p)
NoVariantCall(o) ==
    /\ \A t \in H!Types, v \in Values : ~H!AssignAlternative(o, t, v) /\ ~H!EmplaceAlternative(o, t, v)
    /\ \A p \in Wrappers : /\ ~H!CopyVariant(o, p) /\ ~H!AssignVariant(o, p)
                          /\ ~H!MoveVariant(o, p) /\ ~H!SwapVariants(o, p)
NoFunctionCall(o) ==
    /\ ~H!AssignNull(o)
    /\ \A v \in Values : ~H!AssignCallable(o, v)
    /\ \A p \in Wrappers : ~H!AssignFunction(o, p) /\ ~H!MoveFunction(o, p) /\ ~H!SwapFunctions(o, p)
NoAnyCall(o) ==
    /\ ~H!ResetAny(o)
    /\ \A t \in H!Types, v \in Values : ~H!EmplaceAny(o, t, v)
    /\ \A p \in Wrappers : ~H!CopyAny(o, p) /\ ~H!AssignAny(o, p) /\ ~H!MoveAny(o, p) /\ ~H!SwapAnys(o, p)

\* An object takes the calls of its class only.
LEMMA CallsOfClass ==
    ASSUME NEW o
    PROVE  /\ H!Is(o, "optional") \/ NoOptionalCall(o)
           /\ H!Is(o, "variant") \/ NoVariantCall(o)
           /\ H!Is(o, "function") \/ NoFunctionCall(o)
           /\ H!Is(o, "any") \/ NoAnyCall(o)
  <1>1. H!Is(o, "optional") \/ NoOptionalCall(o)
    BY DEF NoOptionalCall, H!Reset, H!AssignValue, H!MakeOptional, H!EmplaceValue, H!CopyOptional,
           H!AssignOptional, H!MoveOptional, H!SwapOptionals
  <1>2. H!Is(o, "variant") \/ NoVariantCall(o)
    BY DEF NoVariantCall, H!AssignAlternative, H!EmplaceAlternative, H!CopyVariant, H!AssignVariant,
           H!MoveVariant, H!SwapVariants
  <1>3. H!Is(o, "function") \/ NoFunctionCall(o)
    BY DEF NoFunctionCall, H!AssignNull, H!AssignCallable, H!AssignFunction, H!MoveFunction, H!SwapFunctions
  <1>4. H!Is(o, "any") \/ NoAnyCall(o)
    BY DEF NoAnyCall, H!ResetAny, H!EmplaceAny, H!CopyAny, H!AssignAny, H!MoveAny, H!SwapAnys, H!Usable
  <1> QED BY <1>1, <1>2, <1>3, <1>4

\* What a call on two objects leaves in each object.
LEMMA UpdatedBoth ==
    ASSUME HTyped, NEW o \in Wrappers, NEW v, NEW e, NEW p \in Wrappers, NEW w, NEW f, o # p,
           H!UpdateBoth(o, v, e, p, w, f)
    PROVE  /\ HTyped'
           /\ \A q \in Wrappers : /\ this'[q] = IF q = o THEN v ELSE IF q = p THEN w ELSE this[q]
                                  /\ expected'[q] = IF q = o THEN e ELSE IF q = p THEN f ELSE expected[q]
  BY DEF HTyped, H!UpdateBoth

-----------------------------------------------------------------------------
\* optional: the flag says whether the cell holds a value.
LEMMA OptionalConstruct ==
    ASSUME NEW x, NEW v \in HeldValues, OptionalIs(x, H!Raw)
    PROVE  OptionalIs(H!Construct(x, v), v)
  BY Numbers DEF OptionalIs, Cells, H!Construct, H!Constructed

\* Reset leaves no value.
LEMMA OptionalDestroy ==
    ASSUME NEW x, NEW e, OptionalIs(x, e)
    PROVE  OptionalIs(H!Destroy(x), H!Raw)
  <1>1. CASE x.has
    <2>1. H!Razed(x.cell) = H!Raw
      BY <1>1, Numbers DEF OptionalIs, Cells, H!Razed
    <2> QED BY <1>1, <2>1 DEF OptionalIs, Cells, H!Destroy
  <1>2. CASE ~x.has
    BY <1>2 DEF OptionalIs, H!Destroy
  <1> QED BY <1>1, <1>2

\* Assigning a value constructs it in an empty object and assigns it in another.
LEMMA OptionalSet ==
    ASSUME NEW x, NEW e, NEW v \in HeldValues, OptionalIs(x, e)
    PROVE  OptionalIs(H!Set(x, v), v)
  <1>1. CASE x.has
    <2>1. H!Overwritten(x.cell, v) = v
      BY <1>1, Numbers DEF OptionalIs, Cells, H!Overwritten
    <2> QED BY <1>1, <2>1, Numbers DEF OptionalIs, Cells, H!Set
  <1>2. CASE ~x.has
    BY <1>2, OptionalConstruct DEF OptionalIs, H!Set
  <1> QED BY <1>1, <1>2

\* Assigning an optional copies its value, or empties the object.
LEMMA OptionalSetFrom ==
    ASSUME NEW x, NEW e, NEW y, NEW f, OptionalIs(x, e), OptionalIs(y, f)
    PROVE  OptionalIs(H!SetFrom(x, y), f)
  <1>1. CASE y.has
    <2>1. y.cell = f /\ f \in HeldValues
      BY <1>1 DEF OptionalIs, Cells
    <2> QED BY <1>1, <2>1, OptionalSet DEF H!SetFrom
  <1>2. CASE ~y.has
    BY <1>2, OptionalDestroy DEF OptionalIs, H!SetFrom
  <1> QED BY <1>1, <1>2

\* An object that is moved from keeps a moved-from value, or none.
LEMMA OptionalMovedOut ==
    ASSUME NEW x, NEW e, OptionalIs(x, e)
    PROVE  OptionalIs(H!MovedOut(x), H!LeftOver(e))
  <1>1. CASE x.has
    <2>1. H!Overwritten(x.cell, H!Moved) = H!Moved /\ H!LeftOver(e) = H!Moved
      BY <1>1, Numbers DEF OptionalIs, Cells, H!Overwritten, H!LeftOver
    <2> QED BY <1>1, <2>1, Numbers DEF OptionalIs, Cells, H!MovedOut
  <1>2. CASE ~x.has
    BY <1>2 DEF OptionalIs, H!MovedOut, H!LeftOver
  <1> QED BY <1>1, <1>2

\* A new optional is empty.
LEMMA OptionalNone == OptionalIs(H!NoValue, H!Raw)
  BY DEF OptionalIs, H!NoValue, Cells

\* A copy has the value of the original.
LEMMA OptionalCopyOf ==
    ASSUME NEW y, NEW f, OptionalIs(y, f)
    PROVE  OptionalIs(H!CopyOf(y), f)
  <1>1. CASE y.has
    <2>1. y.cell = f /\ f \in HeldValues
      BY <1>1 DEF OptionalIs, Cells
    <2> QED BY <1>1, <2>1, OptionalNone, OptionalConstruct DEF H!CopyOf
  <1>2. CASE ~y.has
    BY <1>2, OptionalNone DEF OptionalIs, H!CopyOf
  <1> QED BY <1>1, <1>2

\* swap exchanges the values, and moves the one value when there is one.
LEMMA OptionalSwapped ==
    ASSUME NEW x, NEW e, NEW y, NEW f, OptionalIs(x, e), OptionalIs(y, f)
    PROVE  OptionalIs(H!SwappedOptionals(x, y)[1], f) /\ OptionalIs(H!SwappedOptionals(x, y)[2], e)
  <1>1. x.cell = e /\ y.cell = f /\ (x.has <=> e # H!Raw) /\ (y.has <=> f # H!Raw)
    BY DEF OptionalIs
  <1>2. (x.has => e \in HeldValues) /\ (y.has => f \in HeldValues)
    BY DEF OptionalIs, Cells
  <1>3. OptionalIs(H!Destroy(H!MovedOut(x)), H!Raw) /\ OptionalIs(H!Destroy(H!MovedOut(y)), H!Raw)
    BY OptionalMovedOut, OptionalDestroy
  <1>4. CASE x.has /\ y.has
    <2>1. H!SwappedOptionals(x, y) = <<[x EXCEPT !.cell = y.cell], [y EXCEPT !.cell = x.cell]>>
      BY <1>4 DEF H!SwappedOptionals
    <2>2. OptionalIs([x EXCEPT !.cell = y.cell], f) /\ OptionalIs([y EXCEPT !.cell = x.cell], e)
      BY <1>1, <1>2, <1>4 DEF OptionalIs, Cells
    <2> QED BY <2>1, <2>2
  <1>5. CASE x.has /\ ~y.has
    <2>1. H!SwappedOptionals(x, y) = <<H!Destroy(H!MovedOut(x)), H!Construct(y, x.cell)>>
      BY <1>5 DEF H!SwappedOptionals
    <2> QED BY <1>1, <1>2, <1>3, <1>5, <2>1, OptionalConstruct
  <1>6. CASE ~x.has /\ y.has
    <2>1. H!SwappedOptionals(x, y) = <<H!Construct(x, y.cell), H!Destroy(H!MovedOut(y))>>
      BY <1>6 DEF H!SwappedOptionals
    <2> QED BY <1>1, <1>2, <1>3, <1>6, <2>1, OptionalConstruct
  <1>7. CASE ~x.has /\ ~y.has
    <2>1. H!SwappedOptionals(x, y) = <<x, y>>
      BY <1>7 DEF H!SwappedOptionals
    <2> QED BY <1>1, <1>7, <2>1
  <1> QED BY <1>4, <1>5, <1>6, <1>7

\* A call on one optional keeps every optional's representation.
LEMMA OptionalUpdated ==
    ASSUME Optionals, NEW o \in Wrappers, NEW v, NEW e, OptionalIs(v, e), H!Update(o, v, e)
    PROVE  Optionals'
  <1>1. HTyped' /\ \A q \in Wrappers : OptionalIs(this'[q], expected'[q])
    BY Updated DEF Optionals
  <1> QED BY <1>1 DEF Optionals, OptionalIs

\* A call on two optionals keeps every optional's representation.
LEMMA OptionalsUpdated ==
    ASSUME Optionals, NEW o \in Wrappers, NEW p \in Wrappers, o # p,
           NEW v, NEW e, OptionalIs(v, e), NEW w, NEW f, OptionalIs(w, f), H!UpdateBoth(o, v, e, p, w, f)
    PROVE  Optionals'
  <1>1. HTyped' /\ \A q \in Wrappers : OptionalIs(this'[q], expected'[q])
    BY UpdatedBoth DEF Optionals
  <1> QED BY <1>1 DEF Optionals, OptionalIs

\* Each call keeps the representation of optionals.
LEMMA OptionalsNext == Optionals /\ H!Next => Optionals'
  <1> SUFFICES ASSUME Optionals, H!Next PROVE Optionals'
    OBVIOUS
  <1>1. (\A o \in Wrappers : OptionalIs(this[o], expected[o])) /\ Values \subseteq HeldValues
    BY DEF Optionals, HeldValues
  <1>2. \A o \in Wrappers : this[o].class = "optional"
    BY DEF Optionals, OptionalIs
  <1>3. \A o \in Wrappers : NoVariantCall(o) /\ NoFunctionCall(o) /\ NoAnyCall(o)
    BY <1>2, CallsOfClass DEF H!Is
  <1>4. PICK o \in Wrappers :
           \/ H!Reset(o)
           \/ \E v \in Values : H!AssignValue(o, v) \/ H!MakeOptional(o, v) \/ H!EmplaceValue(o, v)
           \/ \E p \in Wrappers : H!CopyOptional(o, p) \/ H!AssignOptional(o, p) \/ H!MoveOptional(o, p) \/ H!SwapOptionals(o, p)
    BY <1>3 DEF H!Next, NoVariantCall, NoFunctionCall, NoAnyCall
  <1>5. CASE H!Reset(o)
    BY <1>1, <1>5, OptionalDestroy, OptionalUpdated DEF H!Reset
  <1>6. ASSUME NEW v \in Values, H!AssignValue(o, v) \/ H!MakeOptional(o, v) \/ H!EmplaceValue(o, v)
        PROVE  Optionals'
    <2>1. OptionalIs(H!Set(this[o], v), v) /\ OptionalIs(H!Construct(H!NoValue, v), v) /\ OptionalIs(H!Emplaced(this[o], v), v)
      BY <1>1, OptionalSet, OptionalNone, OptionalConstruct, OptionalDestroy DEF H!Emplaced
    <2> QED BY <1>6, <2>1, OptionalUpdated DEF H!AssignValue, H!MakeOptional, H!EmplaceValue
  <1>7. ASSUME NEW p \in Wrappers, H!CopyOptional(o, p) \/ H!AssignOptional(o, p) PROVE Optionals'
    BY <1>1, <1>7, OptionalCopyOf, OptionalSetFrom, OptionalUpdated DEF H!CopyOptional, H!AssignOptional
  <1>8. ASSUME NEW p \in Wrappers, H!MoveOptional(o, p) PROVE Optionals'
    BY <1>1, <1>8, OptionalSetFrom, OptionalMovedOut, OptionalsUpdated DEF H!MoveOptional
  <1>9. ASSUME NEW p \in Wrappers, H!SwapOptionals(o, p) PROVE Optionals'
    <2> DEFINE s == H!SwappedOptionals(this[o], this[p])
    <2>1. OptionalIs(s[1], expected[p]) /\ OptionalIs(s[2], expected[o])
      BY <1>1, OptionalSwapped
    <2>2. o # p /\ H!UpdateBoth(o, s[1], expected[p], p, s[2], expected[o])
      BY <1>9 DEF H!SwapOptionals
    <2> HIDE DEF s
    <2> QED BY <2>1, <2>2, OptionalsUpdated
  <1> QED BY <1>4, <1>5, <1>6, <1>7, <1>8, <1>9

\* The representation says what HoldersMatch says of an optional.
LEMMA OptionalsMatch == Optionals => H!HoldersMatch
  <1> SUFFICES ASSUME Optionals PROVE H!HoldersMatch
    OBVIOUS
  <1>1. \A o \in Wrappers : /\ this[o].class = "optional" /\ this[o].has \in BOOLEAN
                            /\ this[o].has <=> expected[o] # H!Raw
                            /\ this[o].cell = expected[o]
    BY DEF Optionals, OptionalIs
  <1>2. \A o \in Wrappers : expected[o] \in Int
    <2>1. \A o \in Wrappers : expected[o] \in Cells
      BY DEF Optionals, OptionalIs
    <2> QED BY <2>1, Numbers DEF Cells
  <1>3. ASSUME NEW o \in Wrappers PROVE H!OptionalMatches(o)
    <2>1. H!Held(this[o]) = {expected[o]} \ {H!Raw} /\ (this[o].has \/ this[o].cell = H!Raw)
      BY <1>1 DEF H!Held
    <2>2. \A v \in Values : H!ValueOr(this[o], v) = IF expected[o] = H!Raw THEN v ELSE expected[o]
      BY <1>1 DEF H!ValueOr
    <2>3. \A p \in Wrappers : H!OptionalEqual(this[o], this[p]) <=> expected[o] = expected[p]
      BY <1>1 DEF H!OptionalEqual
    <2>4. ASSUME NEW p \in Wrappers, H!OptionalLess(this[o], this[p])
          PROVE  expected[p] # H!Raw /\ ~H!OptionalLess(this[p], this[o])
      <3>1. this[p].has /\ (this[o].has => expected[o] < expected[p])
        BY <1>1, <2>4 DEF H!OptionalLess
      <3>2. ~(this[o].has /\ expected[p] < expected[o])
        BY <1>2, <3>1
      <3> QED BY <1>1, <3>1, <3>2 DEF H!OptionalLess
    <2> QED BY <2>1, <2>2, <2>3, <2>4 DEF H!OptionalMatches
  <1>4. \A o \in Wrappers : ~H!Is(o, "variant") /\ ~H!Is(o, "function") /\ ~H!Is(o, "any")
    BY <1>1 DEF H!Is
  <1> QED BY <1>3, <1>4 DEF H!HoldersMatch

-----------------------------------------------------------------------------
\* function: impl_ is what was stored last.
LEMMA FunctionStore ==
    ASSUME NEW x, NEW e, NEW f \in Values \cup {H!Raw}, FunctionIs(x, e)
    PROVE  /\ FunctionIs(H!Deleted(x), H!Raw)
           /\ FunctionIs([H!Deleted(x) EXCEPT !.impl = f], f)
           /\ FunctionIs([x EXCEPT !.impl = f], f)
           /\ H!Constructed(H!Deleted(x).impl, f) = f
  <1>1. FunctionIs(H!Deleted(x), H!Raw)
    BY DEF FunctionIs, H!Deleted
  <1>2. FunctionIs([x EXCEPT !.impl = f], f) /\ FunctionIs([H!Deleted(x) EXCEPT !.impl = f], f)
    BY <1>1 DEF FunctionIs
  <1> QED BY <1>1, <1>2 DEF FunctionIs, H!Constructed

\* A call on one function keeps every function's representation.
LEMMA FunctionUpdated ==
    ASSUME Functions, NEW o \in Wrappers, NEW v, NEW e, FunctionIs(v, e), H!Update(o, v, e)
    PROVE  Functions'
  <1>1. HTyped' /\ \A q \in Wrappers : FunctionIs(this'[q], expected'[q])
    BY Updated DEF Functions
  <1> QED BY <1>1 DEF Functions, FunctionIs

\* A call on two functions keeps every function's representation.
LEMMA FunctionsUpdated ==
    ASSUME Functions, NEW o \in Wrappers, NEW p \in Wrappers, o # p,
           NEW v, NEW e, FunctionIs(v, e), NEW w, NEW f, FunctionIs(w, f), H!UpdateBoth(o, v, e, p, w, f)
    PROVE  Functions'
  <1>1. HTyped' /\ \A q \in Wrappers : FunctionIs(this'[q], expected'[q])
    BY UpdatedBoth DEF Functions
  <1> QED BY <1>1 DEF Functions, FunctionIs

\* Each call keeps the representation of functions.
LEMMA FunctionsNext == Functions /\ H!Next => Functions'
  <1> SUFFICES ASSUME Functions, H!Next PROVE Functions'
    OBVIOUS
  <1>1. \A o \in Wrappers : /\ FunctionIs(this[o], expected[o]) /\ this[o].class = "function"
                            /\ this[o].impl = expected[o] /\ expected[o] \in Values \cup {H!Raw}
    BY DEF Functions, FunctionIs
  <1>2. \A o \in Wrappers : NoOptionalCall(o) /\ NoVariantCall(o) /\ NoAnyCall(o)
    BY <1>1, CallsOfClass DEF H!Is
  <1>3. PICK o \in Wrappers :
           \/ H!AssignNull(o)
           \/ \E v \in Values : H!AssignCallable(o, v)
           \/ \E p \in Wrappers : H!AssignFunction(o, p) \/ H!MoveFunction(o, p) \/ H!SwapFunctions(o, p)
    BY <1>2 DEF H!Next, NoOptionalCall, NoVariantCall, NoAnyCall
  <1>4. CASE H!AssignNull(o)
    BY <1>1, <1>4, FunctionStore, FunctionUpdated DEF H!AssignNull
  <1>5. ASSUME NEW v \in Values, H!AssignCallable(o, v) PROVE Functions'
    <2>1. H!Update(o, [H!Deleted(this[o]) EXCEPT !.impl = v], v)
      BY <1>1, <1>5, FunctionStore DEF H!AssignCallable
    <2>2. FunctionIs([H!Deleted(this[o]) EXCEPT !.impl = v], v)
      BY <1>1, FunctionStore
    <2> QED BY <2>1, <2>2, FunctionUpdated
  <1>6. ASSUME NEW p \in Wrappers, H!AssignFunction(o, p) PROVE Functions'
    <2>0. H!Constructed(H!Deleted(this[o]).impl, expected[p]) = expected[p] /\ this[p].impl = expected[p]
      BY <1>1, FunctionStore
    <2>1. H!Update(o, [H!Deleted(this[o]) EXCEPT !.impl = expected[p]], expected[p])
      BY <1>6, <2>0 DEF H!AssignFunction, H!CloneOf
    <2>2. FunctionIs([H!Deleted(this[o]) EXCEPT !.impl = expected[p]], expected[p])
      BY <1>1, FunctionStore
    <2> QED BY <2>1, <2>2, FunctionUpdated
  <1>7. ASSUME NEW p \in Wrappers, H!MoveFunction(o, p) PROVE Functions'
    <2>1. /\ o # p
          /\ H!UpdateBoth(o, [H!Deleted(this[o]) EXCEPT !.impl = expected[p]], expected[p],
                          p, [this[p] EXCEPT !.impl = H!Raw], H!Raw)
      BY <1>1, <1>7 DEF H!MoveFunction
    <2>2. FunctionIs([H!Deleted(this[o]) EXCEPT !.impl = expected[p]], expected[p])
      BY <1>1, FunctionStore
    <2>3. FunctionIs([this[p] EXCEPT !.impl = H!Raw], H!Raw)
      BY <1>1, FunctionStore
    <2> QED BY <2>1, <2>2, <2>3, FunctionsUpdated
  <1>8. ASSUME NEW p \in Wrappers, H!SwapFunctions(o, p) PROVE Functions'
    BY <1>1, <1>8, FunctionsUpdated DEF H!SwapFunctions, H!Swap
  <1> QED BY <1>3, <1>4, <1>5, <1>6, <1>7, <1>8

\* The representation says what HoldersMatch says of a function.
LEMMA FunctionsMatch == Functions => H!HoldersMatch
  <1> SUFFICES ASSUME Functions PROVE H!HoldersMatch
    OBVIOUS
  <1>1. \A o \in Wrappers : this[o].class = "function" /\ this[o].impl = expected[o]
    BY DEF Functions, FunctionIs
  <1>2. \A o \in Wrappers : ~H!Is(o, "variant") /\ ~H!Is(o, "optional") /\ ~H!Is(o, "any")
    BY <1>1 DEF H!Is
  <1>3. \A o \in Wrappers : H!FunctionMatches(o)
    BY <1>1 DEF H!FunctionMatches, H!Invoked
  <1> QED BY <1>2, <1>3 DEF H!HoldersMatch

-----------------------------------------------------------------------------
\* variant: the storage holds a value of the type that index_ says.
VariantRecord(C) == [class : {"variant"}, index : H!Types, storage : [type : H!Types, cell : C]]

\* What a variant's fields are.
LEMMA VariantFields ==
    ASSUME NEW x, NEW e, VariantIs(x, e)
    PROVE  /\ x \in VariantRecord(HeldValues) /\ x.index \in H!Types /\ x.storage.cell \in HeldValues
           /\ x.storage.type = x.index /\ e = <<x.index, x.storage.cell>>
  BY DEF VariantIs, VariantRecord

\* A record with these fields represents the value.
LEMMA VariantFrom ==
    ASSUME NEW x \in VariantRecord(HeldValues), NEW t, NEW v, x.index = t, x.storage.type = t, x.storage.cell = v
    PROVE  VariantIs(x, <<t, v>>)
  BY DEF VariantIs, VariantRecord

\* destroy_impl destroys the value as the type it has.
LEMMA VariantDestroy ==
    ASSUME NEW x, NEW e, VariantIs(x, e)
    PROVE  LET d == H!DestroyCurrent(x)
           IN  d \in VariantRecord(Cells) /\ d.index = x.index /\ d.storage.cell = H!Raw
  <1>1. x.storage.type = x.index /\ x \in VariantRecord(HeldValues) /\ x.storage.cell \in HeldValues
    BY VariantFields
  <1>2. H!Razed(x.storage.cell) = H!Raw
    BY <1>1, Numbers DEF H!Razed
  <1>3. H!DestroyCurrent(x) = [x EXCEPT !.storage.cell = H!Raw]
    BY <1>1, <1>2 DEF H!DestroyCurrent
  <1> QED BY <1>1, <1>3 DEF VariantRecord, Cells

\* Construction in destroyed storage.
LEMMA VariantPlaced ==
    ASSUME NEW x \in VariantRecord(Cells), x.storage.cell = H!Raw, NEW t \in H!Types, x.index = t, NEW v \in HeldValues
    PROVE  VariantIs(H!Placed(x, t, v), <<t, v>>)
  <1>1. LET p == H!Placed(x, t, v)
        IN  p \in VariantRecord(HeldValues) /\ p.index = t /\ p.storage.type = t /\ p.storage.cell = v
    BY DEF VariantRecord, H!Placed, H!Constructed, H!Storage
  <1> QED BY <1>1, VariantFrom

\* emplace: the old value is destroyed and a new one is built.
LEMMA VariantRetyped ==
    ASSUME NEW x, NEW e, VariantIs(x, e), NEW t \in H!Types, NEW v \in HeldValues
    PROVE  VariantIs(H!Retyped(x, t, v), <<t, v>>)
  <1> DEFINE d == H!DestroyCurrent(x)
             r == [d EXCEPT !.index = t]
  <1>1. d \in VariantRecord(Cells) /\ d.storage.cell = H!Raw
    BY VariantDestroy
  <1> HIDE DEF d
  <1>2. r \in VariantRecord(Cells) /\ r.index = t /\ r.storage.cell = H!Raw
    BY <1>1 DEF VariantRecord
  <1>3. H!Retyped(x, t, v) = H!Placed(r, t, v)
    BY DEF H!Retyped, d
  <1> QED BY <1>2, <1>3, VariantPlaced

\* Assignment to the value that is there.
LEMMA VariantWritten ==
    ASSUME NEW x, NEW e, VariantIs(x, e), NEW v \in HeldValues
    PROVE  VariantIs([x EXCEPT !.storage.cell = H!Overwritten(@, v)], <<x.index, v>>)
  <1> DEFINE w == [x EXCEPT !.storage.cell = v]
  <1>1. x.storage.type = x.index /\ x \in VariantRecord(HeldValues) /\ x.storage.cell \in HeldValues
    BY VariantFields
  <1>2. H!Overwritten(x.storage.cell, v) = v
    BY <1>1, Numbers DEF H!Overwritten
  <1>3. w \in VariantRecord(HeldValues) /\ w.index = x.index /\ w.storage.type = x.index /\ w.storage.cell = v
    BY <1>1 DEF VariantRecord
  <1>4. VariantIs(w, <<x.index, v>>)
    BY <1>3, VariantFrom
  <1> QED BY <1>2, <1>4

\* Assignment of a value: to the one that is there, or over one of the other type.
LEMMA VariantOverlaid ==
    ASSUME NEW x, NEW e, VariantIs(x, e), NEW t \in H!Types, NEW v \in HeldValues
    PROVE  VariantIs(H!Overlaid(x, t, v), <<t, v>>)
  BY VariantRetyped, VariantWritten DEF H!Overlaid

\* A new variant holds the value it was built from.
LEMMA VariantAlternative ==
    ASSUME NEW t \in H!Types, NEW v \in HeldValues
    PROVE  VariantIs(H!Alternative(t, v), <<t, v>>)
  <1>1. LET w == H!Alternative(t, v)
        IN  w \in VariantRecord(HeldValues) /\ w.index = t /\ w.storage.type = t /\ w.storage.cell = v
    BY DEF VariantRecord, H!Alternative, H!Storage
  <1> QED BY <1>1, VariantFrom

\* A copy holds the value of the original.
LEMMA VariantCopied ==
    ASSUME NEW x, NEW e, NEW y, NEW f, VariantIs(x, e), VariantIs(y, f)
    PROVE  VariantIs(H!VariantCopy(y), f) /\ VariantIs(H!Replaced(x, y), f)
  <1>1. y.index \in H!Types /\ y.storage.cell \in HeldValues /\ f = <<y.index, y.storage.cell>>
    BY VariantFields
  <1> QED BY <1>1, VariantAlternative, VariantRetyped DEF H!VariantCopy, H!Replaced

\* The source of a move keeps its type and a moved-from value.
LEMMA VariantMoved ==
    ASSUME NEW x, NEW e, VariantIs(x, e)
    PROVE  VariantIs(H!VariantMovedOut(x), <<e[1], H!Moved>>)
  <1>1. e[1] = x.index
    BY VariantFields
  <1> QED BY <1>1, VariantWritten, Numbers DEF H!VariantMovedOut

\* swap exchanges types and values.
LEMMA VariantSwapped ==
    ASSUME NEW x, NEW e, NEW y, NEW f, VariantIs(x, e), VariantIs(y, f)
    PROVE  VariantIs(H!SwappedVariants(x, y)[1], f) /\ VariantIs(H!SwappedVariants(x, y)[2], e)
  <1>1. /\ x.storage.cell \in HeldValues /\ e = <<x.index, x.storage.cell>>
        /\ y.storage.cell \in HeldValues /\ f = <<y.index, y.storage.cell>>
    BY VariantFields
  <1>2. CASE x.index = y.index
    <2>1. /\ H!SwappedVariants(x, y)[1] = [x EXCEPT !.storage.cell = H!Overwritten(@, y.storage.cell)]
          /\ H!SwappedVariants(x, y)[2] = [y EXCEPT !.storage.cell = H!Overwritten(@, x.storage.cell)]
      BY <1>2 DEF H!SwappedVariants
    <2>2. /\ VariantIs([x EXCEPT !.storage.cell = H!Overwritten(@, y.storage.cell)], <<x.index, y.storage.cell>>)
          /\ VariantIs([y EXCEPT !.storage.cell = H!Overwritten(@, x.storage.cell)], <<y.index, x.storage.cell>>)
      BY <1>1, VariantWritten
    <2> QED BY <1>1, <1>2, <2>1, <2>2
  <1>3. CASE x.index # y.index
    <2>1. /\ H!SwappedVariants(x, y)[1] = H!Replaced(H!VariantMovedOut(x), y)
          /\ H!SwappedVariants(x, y)[2] = H!Replaced(H!VariantMovedOut(y), H!VariantCopy(x))
      BY <1>3 DEF H!SwappedVariants
    <2>2. VariantIs(H!VariantCopy(x), e)
      BY VariantCopied
    <2>3. VariantIs(H!VariantMovedOut(x), <<e[1], H!Moved>>) /\ VariantIs(H!VariantMovedOut(y), <<f[1], H!Moved>>)
      BY VariantMoved
    <2>4. VariantIs(H!Replaced(H!VariantMovedOut(x), y), f)
      BY <2>3, VariantCopied
    <2>5. VariantIs(H!Replaced(H!VariantMovedOut(y), H!VariantCopy(x)), e)
      BY <2>2, <2>3, VariantCopied
    <2> QED BY <2>1, <2>4, <2>5
  <1> QED BY <1>2, <1>3

\* A call on one variant keeps every variant's representation.
LEMMA VariantUpdated ==
    ASSUME Variants, NEW o \in Wrappers, NEW v, NEW e, VariantIs(v, e), H!Update(o, v, e)
    PROVE  Variants'
  <1>1. HTyped' /\ \A q \in Wrappers : VariantIs(this'[q], expected'[q])
    BY Updated DEF Variants
  <1> QED BY <1>1 DEF Variants, VariantIs

\* A call on two variants keeps every variant's representation.
LEMMA VariantsUpdated ==
    ASSUME Variants, NEW o \in Wrappers, NEW p \in Wrappers, o # p,
           NEW v, NEW e, VariantIs(v, e), NEW w, NEW f, VariantIs(w, f), H!UpdateBoth(o, v, e, p, w, f)
    PROVE  Variants'
  <1>1. HTyped' /\ \A q \in Wrappers : VariantIs(this'[q], expected'[q])
    BY UpdatedBoth DEF Variants
  <1> QED BY <1>1 DEF Variants, VariantIs

\* Each call keeps the representation of variants.
LEMMA VariantsNext == Variants /\ H!Next => Variants'
  <1> SUFFICES ASSUME Variants, H!Next PROVE Variants'
    OBVIOUS
  <1>1. (\A o \in Wrappers : VariantIs(this[o], expected[o])) /\ Values \subseteq HeldValues
    BY DEF Variants, HeldValues
  <1>2. \A o \in Wrappers : this[o].class = "variant"
    BY DEF Variants, VariantIs
  <1>3. \A o \in Wrappers : NoOptionalCall(o) /\ NoFunctionCall(o) /\ NoAnyCall(o)
    BY <1>2, CallsOfClass DEF H!Is
  <1>4. PICK o \in Wrappers :
           \/ \E v \in Values, t \in H!Types : H!AssignAlternative(o, t, v) \/ H!EmplaceAlternative(o, t, v)
           \/ \E p \in Wrappers : H!CopyVariant(o, p) \/ H!AssignVariant(o, p) \/ H!MoveVariant(o, p) \/ H!SwapVariants(o, p)
    BY <1>3 DEF H!Next, NoOptionalCall, NoFunctionCall, NoAnyCall
  <1>5. ASSUME NEW v \in Values, NEW t \in H!Types, H!AssignAlternative(o, t, v) \/ H!EmplaceAlternative(o, t, v)
        PROVE  Variants'
    <2>1. VariantIs(H!Overlaid(this[o], t, v), <<t, v>>) /\ VariantIs(H!Retyped(this[o], t, v), <<t, v>>)
      BY <1>1, VariantOverlaid, VariantRetyped
    <2> QED BY <1>5, <2>1, VariantUpdated DEF H!AssignAlternative, H!EmplaceAlternative
  <1>6. ASSUME NEW p \in Wrappers, H!CopyVariant(o, p) \/ H!AssignVariant(o, p) PROVE Variants'
    BY <1>1, <1>6, VariantCopied, VariantUpdated DEF H!CopyVariant, H!AssignVariant
  <1>7. ASSUME NEW p \in Wrappers, H!MoveVariant(o, p) PROVE Variants'
    <2>1. VariantIs(H!Replaced(this[o], this[p]), expected[p])
      BY <1>1, VariantCopied
    <2>2. VariantIs(H!VariantMovedOut(this[p]), <<expected[p][1], H!Moved>>)
      BY <1>1, VariantMoved
    <2> QED BY <1>7, <2>1, <2>2, VariantsUpdated DEF H!MoveVariant
  <1>8. ASSUME NEW p \in Wrappers, H!SwapVariants(o, p) PROVE Variants'
    <2> DEFINE s == H!SwappedVariants(this[o], this[p])
    <2>1. VariantIs(s[1], expected[p]) /\ VariantIs(s[2], expected[o])
      BY <1>1, VariantSwapped
    <2>2. o # p /\ H!UpdateBoth(o, s[1], expected[p], p, s[2], expected[o])
      BY <1>8 DEF H!SwapVariants
    <2> HIDE DEF s
    <2> QED BY <2>1, <2>2, VariantsUpdated
  <1> QED BY <1>4, <1>5, <1>6, <1>7, <1>8

\* The representation says what HoldersMatch says of a variant.
LEMMA VariantsMatch == Variants => H!HoldersMatch
  <1> SUFFICES ASSUME Variants PROVE H!HoldersMatch
    OBVIOUS
  <1>1. \A o \in Wrappers : /\ this[o].storage.type = this[o].index
                            /\ expected[o] = <<this[o].index, this[o].storage.cell>>
    BY VariantFields DEF Variants
  <1>2. ASSUME NEW o \in Wrappers PROVE H!VariantMatches(o)
    <2>1. H!Visited(this[o]) = expected[o]
      BY <1>1 DEF H!Visited
    <2>2. \A t \in H!Types : H!GetIf(this[o], t) = IF expected[o][1] = t THEN {expected[o][2]} ELSE {}
      <3>1. expected[o][1] = this[o].index /\ expected[o][2] = this[o].storage.cell
        BY <1>1
      <3> QED BY <3>1 DEF H!GetIf
    <2>3. \A p \in Wrappers : H!VariantEqual(this[o], this[p]) <=> expected[o] = expected[p]
      BY <1>1 DEF H!VariantEqual
    <2> QED BY <1>1, <2>1, <2>2, <2>3 DEF H!VariantMatches
  <1>3. \A o \in Wrappers : this[o].class = "variant"
    BY DEF Variants, VariantIs
  <1>4. \A o \in Wrappers : ~H!Is(o, "function") /\ ~H!Is(o, "optional") /\ ~H!Is(o, "any")
    BY <1>3 DEF H!Is
  <1> QED BY <1>2, <1>4 DEF H!HoldersMatch

-----------------------------------------------------------------------------
\* any: the value is in the buffer or on the heap, and sbo_ says where; except in
\* a copy of one on the heap, which nobody touches.
\* An any that may be used.
AnyGood(x, e) ==
    /\ x \in AnyRecord
    /\ \/ e = H!Nothing /\ AnyEmpty(x)
       \/ \E t \in H!Types, v \in Values : e = <<t, v>> /\ AnyFull(x, t, v)

\* Values, types and marks of an any are told apart.
LEMMA AnyNumbers ==
    /\ \A v \in Values : v # H!Raw /\ v # H!Broken
    /\ H!Raw # 0 /\ H!Raw # 1 /\ H!Raw # H!Broken /\ H!Types = {0, 1}
    /\ \A t : H!UseSbo(t) <=> t = 0
  BY ValuesAssumption DEF H!Raw, H!Broken, H!Types, H!UseSbo

\* No value, the unreadable one and a value of a type are three things.
LEMMA AnyValues ==
    /\ H!Nothing # H!Unreadable
    /\ \A t, v : <<t, v>> # H!Nothing /\ <<t, v>> # H!Unreadable
  <1>1. Len(H!Nothing) = 0 /\ Len(H!Unreadable) = 1 /\ \A t, v : Len(<<t, v>>) = 2
    BY DEF H!Nothing, H!Unreadable
  <1> QED BY <1>1

\* An any is good, or a copy of one on the heap.
LEMMA AnyCases ==
    ASSUME NEW x, NEW e
    PROVE  AnyIs(x, e) <=> AnyGood(x, e) \/ (x \in AnyRecord /\ e = H!Unreadable /\ AnyLost(x))
  BY Zenon DEF AnyIs, AnyGood

\* The any that may be read are the good ones.
LEMMA AnyReadable ==
    ASSUME NEW x, NEW e, AnyIs(x, e)
    PROVE  /\ x.class = "any"
           /\ H!Readable(x) <=> AnyGood(x, e)
           /\ H!Readable(x) <=> e # H!Unreadable
  <1>1. x \in AnyRecord /\ x.class = "any" /\ x.sbo \in BOOLEAN
    BY AnyCases DEF AnyGood, AnyRecord
  <1>2. ASSUME AnyGood(x, e) PROVE H!Readable(x) /\ e # H!Unreadable
    <2>1. AnyEmpty(x) \/ \E t \in H!Types, v \in Values : AnyFull(x, t, v)
      BY <1>2 DEF AnyGood
    <2>2. H!Readable(x)
      BY <1>1, <2>1, AnyNumbers DEF H!Readable, AnyEmpty, AnyFull
    <2>3. e # H!Unreadable
      BY <1>2, AnyValues DEF AnyGood
    <2> QED BY <2>2, <2>3
  <1>3. ASSUME AnyLost(x) PROVE ~H!Readable(x)
    BY <1>1, <1>3, AnyNumbers DEF H!Readable, AnyLost
  <1> QED BY <1>1, <1>2, <1>3, AnyCases

\* A new any is empty.
LEMMA AnyNone == AnyGood(H!NoAny, H!Nothing)
  <1>1. H!NoAny \in AnyRecord
    BY DEF H!NoAny, AnyRecord
  <1>2. AnyEmpty(H!NoAny)
    BY DEF H!NoAny, AnyEmpty
  <1> QED BY <1>1, <1>2 DEF AnyGood

\* reset destroys the value where it is and leaves none.
LEMMA AnyResetEmpties ==
    ASSUME NEW x, NEW e, AnyGood(x, e)
    PROVE  H!AnyReset(x) \in AnyRecord /\ AnyEmpty(H!AnyReset(x))
  <1>1. x \in AnyRecord
    BY DEF AnyGood
  <1>2. CASE AnyEmpty(x)
    BY <1>1, <1>2 DEF H!AnyReset, AnyEmpty
  <1>3. ASSUME NEW t \in H!Types, NEW v \in Values, AnyFull(x, t, v)
        PROVE  H!AnyReset(x) \in AnyRecord /\ AnyEmpty(H!AnyReset(x))
    <2>1. x.vt # H!Raw /\ H!Razed(v) = H!Raw
      BY <1>3, AnyNumbers DEF AnyFull, H!Razed
    <2>2. CASE x.sbo
      <3>1. H!AnyReset(x) = [x EXCEPT !.vt = H!Raw, !.heap = H!Raw, !.buf = H!Razed(@)]
        BY <2>1, <2>2 DEF H!AnyReset
      <3>2. x.buf = v
        BY <1>3, <2>2 DEF AnyFull
      <3> QED BY <1>1, <2>1, <3>1, <3>2 DEF AnyRecord, AnyEmpty
    <2>3. CASE ~x.sbo
      <3>1. H!AnyReset(x) = [x EXCEPT !.vt = H!Raw, !.heap = IF H!Razed(@) = H!Raw THEN H!Raw ELSE H!Broken]
        BY <2>1, <2>3 DEF H!AnyReset
      <3>2. x.heap = v /\ x.buf = H!Raw
        BY <1>3, <2>3 DEF AnyFull
      <3> QED BY <1>1, <2>1, <3>1, <3>2 DEF AnyRecord, AnyEmpty
    <2> QED BY <2>2, <2>3
  <1> QED BY <1>2, <1>3 DEF AnyGood

\* emplace leaves the new value where its type belongs.
LEMMA AnyFilled ==
    ASSUME NEW x, NEW e, AnyGood(x, e), NEW t \in H!Types, NEW v \in Values
    PROVE  AnyGood(H!AnyEmplaced(x, t, v), <<t, v>>)
  <1> DEFINE r == H!AnyReset(x)
             f == [r EXCEPT !.vt = t, !.sbo = H!UseSbo(t)]
  <1>1. r \in AnyRecord /\ AnyEmpty(r)
    BY AnyResetEmpties
  <1> HIDE DEF r
  <1>2. f \in AnyRecord /\ f.vt = t /\ (f.sbo <=> t = 0) /\ f.buf = H!Raw /\ f.heap = H!Raw
    BY <1>1, AnyNumbers DEF AnyRecord, AnyEmpty, H!UseSbo
  <1>3. H!AnyEmplaced(x, t, v) = IF H!UseSbo(t) THEN [f EXCEPT !.buf = H!Constructed(@, v), !.heap = H!Raw]
                                 ELSE [f EXCEPT !.heap = v]
    BY Zenon DEF H!AnyEmplaced, r
  <1> HIDE DEF f
  <1>4. CASE t = 0
    <2>1. H!AnyEmplaced(x, t, v) = [f EXCEPT !.buf = H!Constructed(@, v), !.heap = H!Raw]
      BY <1>3, <1>4, AnyNumbers
    <2>2. H!Constructed(f.buf, v) = v
      BY <1>2 DEF H!Constructed
    <2>3. H!AnyEmplaced(x, t, v) \in AnyRecord /\ AnyFull(H!AnyEmplaced(x, t, v), t, v)
      BY <1>2, <1>4, <2>1, <2>2 DEF AnyRecord, AnyFull
    <2> QED BY <2>3 DEF AnyGood
  <1>5. CASE t # 0
    <2>1. H!AnyEmplaced(x, t, v) = [f EXCEPT !.heap = v] /\ t = 1
      BY <1>3, <1>5, AnyNumbers
    <2>2. H!AnyEmplaced(x, t, v) \in AnyRecord /\ AnyFull(H!AnyEmplaced(x, t, v), t, v)
      BY <1>2, <2>1 DEF AnyRecord, AnyFull
    <2> QED BY <2>2 DEF AnyGood
  <1> QED BY <1>4, <1>5

\* What AnyCopy(y) represents: nothing that can be read when the value is on the heap.
CopiedValue(y, f) == IF y.vt = H!Raw \/ H!UseSbo(y.vt) THEN f ELSE H!Unreadable

\* A copy of a value in the buffer is good, and one of a value on the heap is not.
LEMMA AnyCopied ==
    ASSUME NEW y, NEW f, AnyGood(y, f)
    PROVE  AnyIs(H!AnyCopy(y), CopiedValue(y, f))
  <1>1. y \in AnyRecord
    BY DEF AnyGood
  <1>2. CASE y.vt = H!Raw
    <2>1. f = H!Nothing
      BY <1>2, AnyNumbers DEF AnyGood, AnyFull
    <2> QED BY <1>2, <2>1, AnyNone, AnyCases DEF H!AnyCopy, CopiedValue
  <1>3. CASE y.vt # H!Raw
    <2>1. PICK t \in H!Types, v \in Values : f = <<t, v>> /\ AnyFull(y, t, v)
      BY <1>3 DEF AnyGood, AnyEmpty
    <2>2. H!Pointed(y) = v /\ y.vt = t
      BY <2>1 DEF H!Pointed, AnyFull
    <2> DEFINE n == H!NoAny
    <2>3. n \in AnyRecord /\ n.buf = H!Raw /\ n.heap = H!Raw
      BY DEF H!NoAny, AnyRecord
    <2> HIDE DEF n
    <2>4. CASE t = 0
      <3>1. H!AnyCopy(y) = [n EXCEPT !.vt = t, !.sbo = TRUE, !.buf = v]
        BY <1>3, <2>2, <2>4, AnyNumbers DEF H!AnyCopy, n
      <3>2. H!AnyCopy(y) \in AnyRecord /\ AnyFull(H!AnyCopy(y), t, v)
        BY <2>3, <2>4, <3>1 DEF AnyRecord, AnyFull
      <3>3. CopiedValue(y, f) = <<t, v>>
        BY <2>1, <2>2, <2>4, AnyNumbers DEF CopiedValue
      <3> QED BY <3>2, <3>3, AnyCases DEF AnyGood
    <2>5. CASE t = 1
      <3>1. H!AnyCopy(y) = [n EXCEPT !.vt = t, !.sbo = TRUE, !.heap = v]
        BY <1>3, <2>2, <2>5, AnyNumbers DEF H!AnyCopy, n
      <3>2. H!AnyCopy(y) \in AnyRecord /\ AnyLost(H!AnyCopy(y))
        BY <2>3, <2>5, <3>1 DEF AnyRecord, AnyLost
      <3>3. CopiedValue(y, f) = H!Unreadable
        BY <1>3, <2>2, <2>5, AnyNumbers DEF CopiedValue
      <3> QED BY <3>2, <3>3, AnyCases
    <2> QED BY <2>4, <2>5, AnyNumbers
  <1> QED BY <1>2, <1>3

\* The taker, which was empty, represents what the giver did; the giver is left
\* empty, unless its value was not where it looked.
LEMMA AnyTaken ==
    ASSUME NEW x \in AnyRecord, AnyEmpty(x), NEW y, NEW f, AnyIs(y, f)
    PROVE  /\ AnyIs(H!AnyTakenFrom(x, y)[1], f)
           /\ AnyGood(y, f) => AnyGood(H!AnyTakenFrom(x, y)[2], H!Nothing)
  <1> DEFINE taker == [x EXCEPT !.vt = y.vt, !.sbo = y.sbo, !.heap = y.heap]
             giver == [y EXCEPT !.vt = H!Raw, !.heap = H!Raw]
  <1>1. y \in AnyRecord
    BY AnyCases DEF AnyGood
  <1>2. taker \in AnyRecord /\ taker.vt = y.vt /\ taker.sbo = y.sbo /\ taker.heap = y.heap /\ taker.buf = H!Raw
    BY <1>1 DEF AnyRecord, AnyEmpty
  <1>3. giver \in AnyRecord /\ giver.vt = H!Raw /\ giver.heap = H!Raw /\ giver.buf = y.buf
    BY <1>1 DEF AnyRecord
  <1>4. H!AnyTakenFrom(x, y) =
           IF y.vt = H!Raw \/ ~y.sbo THEN <<taker, giver>>
           ELSE <<[taker EXCEPT !.buf = H!Constructed(@, y.buf)], [giver EXCEPT !.buf = H!Razed(@)]>>
    BY Zenon DEF H!AnyTakenFrom
  <1> HIDE DEF taker, giver
  <1>5. CASE AnyEmpty(y) /\ f = H!Nothing
    <2>1. H!AnyTakenFrom(x, y)[1] = taker /\ H!AnyTakenFrom(x, y)[2] = giver
      BY <1>4, <1>5 DEF AnyEmpty
    <2>2. AnyEmpty(taker) /\ AnyEmpty(giver)
      BY <1>2, <1>3, <1>5 DEF AnyEmpty
    <2> QED BY <1>2, <1>3, <1>5, <2>1, <2>2, AnyCases DEF AnyGood
  <1>6. ASSUME NEW t \in H!Types, NEW v \in Values, AnyFull(y, t, v), f = <<t, v>>
        PROVE  AnyGood(H!AnyTakenFrom(x, y)[1], f) /\ AnyGood(H!AnyTakenFrom(x, y)[2], H!Nothing)
    <2>1. y.vt # H!Raw /\ v # H!Raw
      BY <1>6, AnyNumbers DEF AnyFull
    <2>2. CASE y.sbo
      <3> DEFINE filled == [taker EXCEPT !.buf = v]
                 emptied == [giver EXCEPT !.buf = H!Raw]
      <3>1. t = 0 /\ y.buf = v /\ y.heap = H!Raw /\ y.vt = t
        BY <1>6, <2>2 DEF AnyFull
      <3>2. H!Constructed(taker.buf, y.buf) = v /\ H!Razed(giver.buf) = H!Raw
        BY <1>2, <1>3, <3>1, AnyNumbers DEF H!Constructed, H!Razed
      <3>3. H!AnyTakenFrom(x, y)[1] = filled /\ H!AnyTakenFrom(x, y)[2] = emptied
        BY <1>4, <2>1, <2>2, <3>2
      <3>4. filled \in AnyRecord /\ AnyFull(filled, t, v)
        BY <1>2, <2>2, <3>1 DEF AnyRecord, AnyFull
      <3>5. emptied \in AnyRecord /\ AnyEmpty(emptied)
        BY <1>3 DEF AnyRecord, AnyEmpty
      <3> QED BY <1>6, <3>3, <3>4, <3>5 DEF AnyGood
    <2>3. CASE ~y.sbo
      <3>1. H!AnyTakenFrom(x, y)[1] = taker /\ H!AnyTakenFrom(x, y)[2] = giver
        BY <1>4, <2>3
      <3>2. AnyFull(taker, t, v)
        BY <1>2, <1>6, <2>3 DEF AnyFull
      <3>3. AnyEmpty(giver)
        BY <1>3, <1>6, <2>3 DEF AnyFull, AnyEmpty
      <3> QED BY <1>2, <1>3, <1>6, <3>1, <3>2, <3>3 DEF AnyGood
    <2> QED BY <2>2, <2>3
  <1>7. CASE AnyLost(y) /\ f = H!Unreadable
    <2> DEFINE filled == [taker EXCEPT !.buf = H!Raw]
    <2>1. y.vt = 1 /\ y.sbo /\ y.buf = H!Raw /\ y.heap \in Values
      BY <1>7 DEF AnyLost
    <2>2. H!Constructed(taker.buf, y.buf) = H!Raw
      BY <1>2, <2>1 DEF H!Constructed
    <2>3. H!AnyTakenFrom(x, y)[1] = filled
      BY <1>4, <2>1, <2>2, AnyNumbers
    <2>4. filled \in AnyRecord /\ AnyLost(filled)
      BY <1>2, <2>1 DEF AnyRecord, AnyLost
    <2>5. ~AnyGood(y, f)
      BY <1>7, AnyValues DEF AnyGood
    <2> QED BY <1>7, <2>3, <2>4, <2>5, AnyCases
  <1> QED BY <1>5, <1>6, <1>7, AnyCases DEF AnyGood

\* swap exchanges the values, wherever each is.
LEMMA AnySwap ==
    ASSUME NEW x, NEW e, NEW y, NEW f, AnyGood(x, e), AnyIs(y, f)
    PROVE  /\ AnyIs(H!AnysSwapped(x, y)[1], f)
           /\ AnyGood(y, f) => AnyIs(H!AnysSwapped(x, y)[2], e)
  <1> DEFINE out == H!AnyTakenFrom(H!NoAny, x)
             across == H!AnyTakenFrom(H!AnyReset(out[2]), y)
             back == H!AnyTakenFrom(H!AnyReset(across[2]), out[1])
  <1>1. H!AnysSwapped(x, y)[1] = across[1] /\ H!AnysSwapped(x, y)[2] = back[1]
    BY DEF H!AnysSwapped
  <1>2. H!NoAny \in AnyRecord /\ AnyEmpty(H!NoAny)
    BY DEF AnyRecord, AnyEmpty, H!NoAny
  <1>3. AnyIs(out[1], e) /\ AnyGood(out[2], H!Nothing)
    BY <1>2, AnyTaken, AnyCases
  <1>4. H!AnyReset(out[2]) \in AnyRecord /\ AnyEmpty(H!AnyReset(out[2]))
    BY <1>3, AnyResetEmpties
  <1>5. AnyIs(across[1], f) /\ (AnyGood(y, f) => AnyGood(across[2], H!Nothing))
    BY <1>4, AnyTaken
  <1>6. ASSUME AnyGood(y, f) PROVE AnyIs(back[1], e)
    <2>1. H!AnyReset(across[2]) \in AnyRecord /\ AnyEmpty(H!AnyReset(across[2]))
      BY <1>5, <1>6, AnyResetEmpties
    <2> QED BY <1>3, <2>1, AnyTaken
  <1> QED BY <1>1, <1>5, <1>6

\* A call on one any keeps every any's representation.
LEMMA AnyUpdated ==
    ASSUME Anys, NEW o \in Wrappers, NEW v, NEW e, AnyIs(v, e), H!Update(o, v, e)
    PROVE  Anys'
  <1>1. HTyped' /\ \A q \in Wrappers : AnyIs(this'[q], expected'[q])
    BY Updated DEF Anys
  <1> QED BY <1>1 DEF Anys, AnyIs, AnyRecord, AnyEmpty, AnyFull, AnyLost

\* A call on two any keeps every any's representation.
LEMMA AnysUpdated ==
    ASSUME Anys, NEW o \in Wrappers, NEW p \in Wrappers, o # p,
           NEW v, NEW e, AnyIs(v, e), NEW w, NEW f, AnyIs(w, f), H!UpdateBoth(o, v, e, p, w, f)
    PROVE  Anys'
  <1>1. HTyped' /\ \A q \in Wrappers : AnyIs(this'[q], expected'[q])
    BY UpdatedBoth DEF Anys
  <1> QED BY <1>1 DEF Anys, AnyIs, AnyRecord, AnyEmpty, AnyFull, AnyLost

\* Each call keeps the representation of any.
LEMMA AnysNext == Anys /\ H!Next => Anys'
  <1> SUFFICES ASSUME Anys, H!Next PROVE Anys'
    OBVIOUS
  <1>1. \A o \in Wrappers : AnyIs(this[o], expected[o])
    BY DEF Anys
  <1>2. \A o \in Wrappers : this[o].class = "any" /\ (H!Usable(o) => AnyGood(this[o], expected[o]))
    BY <1>1, AnyReadable DEF H!Usable
  <1>3. \A o \in Wrappers : NoOptionalCall(o) /\ NoVariantCall(o) /\ NoFunctionCall(o)
    BY <1>2, CallsOfClass DEF H!Is
  <1>4. PICK o \in Wrappers :
           \/ H!ResetAny(o)
           \/ \E v \in Values, t \in H!Types : H!EmplaceAny(o, t, v)
           \/ \E p \in Wrappers : H!CopyAny(o, p) \/ H!AssignAny(o, p) \/ H!MoveAny(o, p) \/ H!SwapAnys(o, p)
    BY <1>3 DEF H!Next, NoOptionalCall, NoVariantCall, NoFunctionCall
  <1>5. CASE H!ResetAny(o)
    <2>1. AnyIs(H!AnyReset(this[o]), H!Nothing)
      BY <1>2, <1>5, AnyResetEmpties, AnyCases DEF H!ResetAny, AnyGood
    <2> QED BY <1>5, <2>1, AnyUpdated DEF H!ResetAny
  <1>6. ASSUME NEW v \in Values, NEW t \in H!Types, H!EmplaceAny(o, t, v) PROVE Anys'
    <2>1. AnyIs(H!AnyEmplaced(this[o], t, v), <<t, v>>)
      BY <1>2, <1>6, AnyFilled, AnyCases DEF H!EmplaceAny
    <2> QED BY <1>6, <2>1, AnyUpdated DEF H!EmplaceAny
  <1>7. ASSUME NEW p \in Wrappers, H!CopyAny(o, p) PROVE Anys'
    <2>1. AnyIs(H!AnyCopy(this[p]), H!Copied(p))
      BY <1>2, <1>7, AnyCopied DEF H!CopyAny, CopiedValue, H!Copied
    <2> QED BY <1>7, <2>1, AnyUpdated DEF H!CopyAny
  <1>8. ASSUME NEW p \in Wrappers, H!AssignAny(o, p) PROVE Anys'
    <2>1. AnyIs(H!AnyCopy(this[p]), H!Copied(p)) /\ AnyGood(this[o], expected[o])
      BY <1>2, <1>8, AnyCopied DEF H!AssignAny, CopiedValue, H!Copied
    <2>2. AnyIs(H!AnysSwapped(this[o], H!AnyCopy(this[p]))[1], H!Copied(p))
      BY <2>1, AnySwap
    <2> QED BY <1>8, <2>2, AnyUpdated DEF H!AssignAny
  <1>9. ASSUME NEW p \in Wrappers, H!MoveAny(o, p) PROVE Anys'
    <2> DEFINE taken == H!AnyTakenFrom(H!AnyReset(this[o]), this[p])
    <2>1. AnyGood(this[o], expected[o]) /\ AnyGood(this[p], expected[p]) /\ o # p
      BY <1>2, <1>9 DEF H!MoveAny
    <2>2. H!AnyReset(this[o]) \in AnyRecord /\ AnyEmpty(H!AnyReset(this[o]))
      BY <2>1, AnyResetEmpties
    <2>3. AnyIs(taken[1], expected[p]) /\ AnyIs(taken[2], H!Nothing)
      BY <2>1, <2>2, AnyTaken, AnyCases
    <2>4. H!UpdateBoth(o, taken[1], expected[p], p, taken[2], H!Nothing)
      BY <1>9 DEF H!MoveAny
    <2> HIDE DEF taken
    <2> QED BY <2>1, <2>3, <2>4, AnysUpdated
  <1>10. ASSUME NEW p \in Wrappers, H!SwapAnys(o, p) PROVE Anys'
    <2> DEFINE s == H!AnysSwapped(this[o], this[p])
    <2>1. AnyGood(this[o], expected[o]) /\ AnyGood(this[p], expected[p]) /\ o # p
      BY <1>2, <1>10 DEF H!SwapAnys
    <2>2. AnyIs(s[1], expected[p]) /\ AnyIs(s[2], expected[o])
      BY <1>1, <2>1, AnySwap
    <2>3. H!UpdateBoth(o, s[1], expected[p], p, s[2], expected[o])
      BY <1>10 DEF H!SwapAnys
    <2> HIDE DEF s
    <2> QED BY <2>1, <2>2, <2>3, AnysUpdated
  <1> QED BY <1>4, <1>5, <1>6, <1>7, <1>8, <1>9, <1>10

\* The representation says what HoldersMatch says of an any.
LEMMA AnysMatch == Anys => H!HoldersMatch
  <1> SUFFICES ASSUME Anys PROVE H!HoldersMatch
    OBVIOUS
  <1>1. \A o \in Wrappers : AnyIs(this[o], expected[o])
    BY DEF Anys
  <1>2. \A o \in Wrappers : this[o].class = "any" /\ (H!Readable(this[o]) <=> expected[o] # H!Unreadable)
    BY <1>1, AnyReadable
  <1>3. ASSUME NEW o \in Wrappers PROVE H!AnyMatches(o)
    <2> DEFINE x == this[o]
               e == expected[o]
    <2>1. AnyIs(x, e)
      BY <1>1
    <2>2. H!Readable(x) <=> e # H!Unreadable
      BY <1>2
    <2> HIDE DEF x, e
    <2>3. /\ H!HasValue(x) <=> e # H!Nothing
          /\ e = H!Nothing => x.heap = H!Raw
          /\ e = H!Nothing \/ ~x.sbo => x.buf = H!Raw
          /\ e \notin {H!Nothing, H!Unreadable} =>
                \A u \in H!Types : H!AnyCast(x, u) = IF e[1] = u THEN {e[2]} ELSE {}
      <3>1. CASE e = H!Nothing /\ AnyEmpty(x)
        BY <3>1 DEF AnyEmpty, H!HasValue
      <3>2. ASSUME NEW t \in H!Types, NEW v \in Values, e = <<t, v>>, AnyFull(x, t, v)
            PROVE  /\ H!HasValue(x) /\ e # H!Nothing
                   /\ ~x.sbo => x.buf = H!Raw
                   /\ \A u \in H!Types : H!AnyCast(x, u) = IF e[1] = u THEN {e[2]} ELSE {}
        <4>1. e[1] = t /\ e[2] = v /\ e # H!Nothing
          BY <3>2, AnyValues
        <4>2. x.vt = t /\ t # H!Raw /\ H!Pointed(x) = v /\ (~x.sbo => x.buf = H!Raw)
          BY <3>2, AnyNumbers DEF AnyFull, H!Pointed
        <4> QED BY <4>1, <4>2 DEF H!HasValue, H!AnyCast
      <3>3. CASE e = H!Unreadable /\ AnyLost(x)
        BY <3>3, AnyValues, AnyNumbers DEF AnyLost, H!HasValue
      <3> QED BY <2>1, <3>1, <3>2, <3>3 DEF AnyIs
    <2> QED BY <2>2, <2>3 DEF H!AnyMatches, x, e
  <1>4. \A o \in Wrappers : ~H!Is(o, "function") /\ ~H!Is(o, "optional") /\ ~H!Is(o, "variant")
    BY <1>2 DEF H!Is
  <1> QED BY <1>3, <1>4 DEF H!HoldersMatch

-----------------------------------------------------------------------------
\* New objects are empty, whatever their class.
LEMMA HoldersInit == H!Init => HInv
  <1>1. ASSUME this = [o \in Wrappers |-> H!NoValue], expected = [o \in Wrappers |-> H!Raw] PROVE Optionals
    BY <1>1, OptionalNone DEF Optionals, HTyped
  <1>2. ASSUME this = [o \in Wrappers |-> H!Alternative(0, H!Default)], expected = [o \in Wrappers |-> <<0, H!Default>>]
        PROVE  Variants
    <2>1. VariantIs(H!Alternative(0, H!Default), <<0, H!Default>>)
      BY VariantAlternative, Numbers, AnyNumbers
    <2> QED BY <1>2, <2>1 DEF Variants, HTyped
  <1>3. ASSUME this = [o \in Wrappers |-> H!NoFunction], expected = [o \in Wrappers |-> H!Raw] PROVE Functions
    <2>1. FunctionIs(H!NoFunction, H!Raw)
      BY DEF FunctionIs, H!NoFunction
    <2> QED BY <1>3, <2>1 DEF Functions, HTyped
  <1>4. ASSUME this = [o \in Wrappers |-> H!NoAny], expected = [o \in Wrappers |-> H!Nothing] PROVE Anys
    BY <1>4, AnyNone, AnyCases DEF Anys, HTyped
  <1> QED BY <1>1, <1>2, <1>3, <1>4 DEF H!Init, HInv

\* Each call keeps the representation of the class it is about.
LEMMA HoldersNext == HInv /\ H!Next => HInv'
  BY OptionalsNext, VariantsNext, FunctionsNext, AnysNext DEF HInv

\* The representation says that each object holds what its calls built.
LEMMA HoldersMatch == HInv => H!HoldersMatch
  BY OptionalsMatch, VariantsMatch, FunctionsMatch, AnysMatch DEF HInv

-----------------------------------------------------------------------------
OwnersInv == UInv /\ (kind = "holders" => HInv)

\* A step that is not about unique_ptr leaves its invariant true.
LEMMA OwnersStutter == UInv /\ UNCHANGED uniqueVars => UInv'
  BY DEF UInv, UTypeOK, OwnedOnce, OwnedFits, AliveOwned, LooseAlive, DeadEmpty, uniqueVars

\* A step that is not about the four classes leaves their invariant true.
LEMMA HoldersStutter == HInv /\ UNCHANGED objects => HInv'
  <1> SUFFICES ASSUME HInv, UNCHANGED objects PROVE HInv'
    OBVIOUS
  <1>1. this' = this /\ expected' = expected
    BY DEF objects
  <1> QED BY <1>1 DEF HInv, HTyped, Optionals, Variants, Functions, Anys, OptionalIs, VariantIs, FunctionIs,
                      AnyIs, AnyRecord, AnyEmpty, AnyFull, AnyLost

\* Every object has one owner that treats it as what it is: no object of a
\* unique_ptr is lost, deleted twice or by a deleter that does not fit, and what
\* lies in the storage of an optional, a variant, a function or an any is what
\* the calls put there.
THEOREM OwnersRight == MCSpec => []OwnersMatch
  <1>1. MCInit => OwnersInv
    <2> SUFFICES ASSUME MCInit PROVE OwnersInv
      OBVIOUS
    <2>1. U!Init
      BY DEF MCInit
    <2>2. kind = "holders" => H!Init
      BY DEF MCInit
    <2> QED BY <2>1, <2>2, OwnersInit, HoldersInit DEF OwnersInv
  <1>2. OwnersInv /\ [MCNext]_<<vars, kind, uniqueVars, objects, logVars, fileVars>> => OwnersInv'
    <2> SUFFICES ASSUME OwnersInv, [MCNext]_<<vars, kind, uniqueVars, objects, logVars, fileVars>>
                 PROVE  OwnersInv'
      OBVIOUS
    <2>1. UInv /\ (kind = "holders" => HInv)
      BY DEF OwnersInv
    <2>2. CASE UniqueStep
      BY <2>1, <2>2, OwnersNext, HoldersStutter DEF UniqueStep, OwnersInv
    <2>3. CASE HolderStep
      BY <2>1, <2>3, HoldersNext, OwnersStutter DEF HolderStep, OwnersInv
    <2>4. CASE ErrorStep
      BY <2>1, <2>4, OwnersStutter DEF ErrorStep, OwnersInv
    <2>5. CASE SharedStep \/ LogStep \/ FileStep \/ UNCHANGED <<vars, kind, uniqueVars, objects, logVars, fileVars>>
      BY <2>1, <2>5, OwnersStutter, HoldersStutter DEF SharedStep, LogStep, FileStep, OwnersInv
    <2> QED BY <2>2, <2>3, <2>4, <2>5 DEF MCNext
  <1>3. OwnersInv => OwnersMatch
    BY OwnersOne, HoldersMatch DEF OwnersInv, OwnersMatch
  <1> QED BY <1>1, <1>2, <1>3, PTL DEF MCSpec
-----------------------------------------------------------------------------
(***************************************************************************)
(* Loops over sequences: the folds of the models, and FlattenSeq.          *)
(***************************************************************************)
\* The order of numbers.
Less == {p \in Nat \X Nat : p[1] < p[2]}
\* A set of numbers that is not empty has a least member.
LEMMA LeastNumber ==
    ASSUME NEW T \in SUBSET Nat, T # {}
    PROVE  \E x \in T : \A y \in T : x <= y
  <1>1. IsWellFoundedOn(Less, Nat)
    <2>1. Less = OpToRel(<, Nat)
      BY Zenon DEF OpToRel, Less
    <2> QED BY <2>1, NatLessThanWellFounded, Zenon DEF OpToRel
  <1>2. PICK x \in T : \A y \in T : ~ (<<y, x>> \in Less)
    BY <1>1, WFMin, Zenon
  <1>3. \A y \in T : ~ (y < x)
    BY <1>2 DEF Less
  <1> QED BY <1>3

\* Induction over 0 .. n, for a set T of numbers.
LEMMA Climb ==
    ASSUME NEW n \in Nat, NEW T, 0 \in T, \A k \in 0 .. n - 1 : k \in T => k + 1 \in T
    PROVE  \A k \in 0 .. n : k \in T
  <1> DEFINE Bad == {k \in 0 .. n : k \notin T}
  <1> SUFFICES ASSUME Bad # {} PROVE FALSE
    OBVIOUS
  <1>1. PICK k \in Bad : \A j \in Bad : k <= j
    <2>1. Bad \in SUBSET Nat
      OBVIOUS
    <2> HIDE DEF Bad
    <2> QED BY <2>1, LeastNumber
  <1>2. k # 0
    OBVIOUS
  <1>3. k - 1 \in 0 .. n - 1 /\ k - 1 \notin Bad
    BY <1>1, <1>2
  <1>4. k - 1 + 1 \in T
    BY <1>3
  <1>5. k - 1 + 1 = k
    OBVIOUS
  <1> QED BY <1>4, <1>5

Largest(S) == CHOOSE x \in S : \A y \in S : x >= y

\* The subsets of 1 .. k, which a fold over a sequence works through from their
\* largest member.
Subs(k) == SUBSET (1 .. k)

\* A fold over subsets of 1 .. k goes on to one over subsets of 1 .. k + 1.
LEMMA LargestOf ==
    ASSUME NEW k \in Nat, NEW s \in Subs(k + 1), k + 1 \in s
    PROVE  Largest(s) = k + 1 /\ s \ {k + 1} \in Subs(k)
  <1>1. \A y \in s : k + 1 >= y
    BY DEF Subs
  <1>2. \A x \in s : (\A y \in s : x >= y) => x = k + 1
    BY <1>1 DEF Subs
  <1>3. Largest(s) = k + 1
    BY <1>1, <1>2 DEF Largest
  <1>4. \A y \in s \ {k + 1} : y \in 1 .. k
    BY DEF Subs
  <1> QED BY <1>3, <1>4 DEF Subs

\* A set of numbers up to n that is not empty has a largest member.
LEMMA LargestIn ==
    ASSUME NEW n \in Nat, NEW s \in Subs(n), s # {}
    PROVE  Largest(s) \in s /\ s \ {Largest(s)} \in Subs(n)
  <1> DEFINE T == {n - x : x \in s}
  <1>1. PICK y \in T : \A z \in T : y <= z
    <2>1. \A x \in s : n - x \in Nat
      BY DEF Subs
    <2>2. T \subseteq Nat
      BY <2>1
    <2>3. T # {}
      OBVIOUS
    <2> HIDE DEF T
    <2> QED BY <2>2, <2>3, LeastNumber
  <1>2. PICK x \in s : y = n - x
    OBVIOUS
  <1>3. \A z \in s : x >= z
    <2> SUFFICES ASSUME NEW z \in s PROVE x >= z
      OBVIOUS
    <2>1. n - x <= n - z
      BY <1>1, <1>2
    <2> QED BY <2>1 DEF Subs
  <1>4. Largest(s) \in s
    <2> HIDE DEF T
    <2> QED BY <1>3 DEF Largest
  <1> QED BY <1>4 DEF Subs

\* The equation of a fold of G, which starts with a.
Folds(g, G, a, k) ==
    g = [s \in Subs(k) |-> IF s = {} THEN a ELSE G[<<g[s \ {Largest(s)}], Largest(s)>>]]

\* A fold over the subsets of 1 .. k goes on to one over those of 1 .. k + 1.
LEMMA FoldsFrom ==
    ASSUME NEW A, NEW n \in Nat, NEW G \in [A \X (1 .. n) -> A], NEW a \in A, NEW k \in 0 .. n - 1,
           NEW g \in [Subs(k) -> A], Folds(g, G, a, k)
    PROVE  \E h \in [Subs(k + 1) -> A] : Folds(h, G, a, k + 1)
  <1> DEFINE h == [s \in Subs(k + 1) |-> IF k + 1 \in s THEN G[<<g[s \ {k + 1}], k + 1>>] ELSE g[s]]
  <1>1. \A s \in Subs(k + 1) : k + 1 \notin s => s \in Subs(k)
    BY DEF Subs
  <1>2. ASSUME NEW s \in Subs(k + 1), k + 1 \in s PROVE Largest(s) = k + 1 /\ s \ {k + 1} \in Subs(k)
    <2>1. k \in Nat
      OBVIOUS
    <2> HIDE DEF h
    <2> QED BY <1>2, <2>1, LargestOf
  <1>3. h \in [Subs(k + 1) -> A]
    BY <1>1, <1>2
  <1>4. \A s \in Subs(k) : s \in Subs(k + 1) /\ h[s] = g[s]
    BY DEF Subs
  <1>5. ASSUME NEW s \in Subs(k), s # {} PROVE s \ {Largest(s)} \in Subs(k)
    BY DEF Subs
  <1>6. \A s \in Subs(k) : g[s] = IF s = {} THEN a ELSE G[<<g[s \ {Largest(s)}], Largest(s)>>]
    BY DEF Folds
  <1>7. ASSUME NEW s \in Subs(k + 1)
        PROVE  h[s] = IF s = {} THEN a ELSE G[<<h[s \ {Largest(s)}], Largest(s)>>]
    <2>1. CASE k + 1 \in s
      <3>1. Largest(s) = k + 1 /\ s \ {k + 1} \in Subs(k) /\ h[s] = G[<<g[s \ {k + 1}], k + 1>>]
        BY <1>2, <2>1
      <3>2. h[s \ {k + 1}] = g[s \ {k + 1}]
        BY <3>1, <1>4
      <3> HIDE DEF h
      <3> QED BY <2>1, <3>1, <3>2
    <2>2. CASE k + 1 \notin s
      <3>1. s \in Subs(k) /\ h[s] = g[s]
        BY <1>1, <1>4, <2>2
      <3>2. s # {} => h[s \ {Largest(s)}] = g[s \ {Largest(s)}]
        BY <3>1, <1>4, <1>5
      <3> HIDE DEF h
      <3> QED BY <3>1, <3>2, <1>6
    <2> QED BY <2>1, <2>2
  <1>8. Folds(h, G, a, k + 1)
    <2> HIDE DEF h
    <2> QED BY <1>3, <1>7 DEF Folds
  <1> QED BY <1>3, <1>8

\* Every fold over the subsets of 1 .. n exists as a function.
LEMMA FoldExists ==
    ASSUME NEW A, NEW n \in Nat, NEW G \in [A \X (1 .. n) -> A], NEW a \in A
    PROVE  \E g \in [Subs(n) -> A] : Folds(g, G, a, n)
  <1> DEFINE T == {k \in 0 .. n : \E g \in [Subs(k) -> A] : Folds(g, G, a, k)}
  <1>1. 0 \in T
    <2> DEFINE g == [s \in Subs(0) |-> a]
    <2>1. \A s \in Subs(0) : s = {}
      BY DEF Subs
    <2>2. g \in [Subs(0) -> A]
      OBVIOUS
    <2>3. g = [s \in Subs(0) |-> IF s = {} THEN a ELSE G[<<g[s \ {Largest(s)}], Largest(s)>>]]
      BY <2>1
    <2> QED BY <2>2, <2>3 DEF Folds
  <1>2. ASSUME NEW k \in 0 .. n - 1, k \in T PROVE k + 1 \in T
    <2>1. PICK g \in [Subs(k) -> A] : Folds(g, G, a, k)
      BY <1>2
    <2>2. \E h \in [Subs(k + 1) -> A] : Folds(h, G, a, k + 1)
      BY <2>1, FoldsFrom
    <2> QED BY <2>2
  <1> HIDE DEF T
  <1>3. n \in T
    BY <1>1, <1>2, Climb
  <1> QED BY <1>3 DEF T

\* What obeys the equation of a fold where its values are in A, and a loop
\* that does G from 1 to n.
Obeys(g, A, G, a, n) ==
    /\ g[{}] = a
    /\ \A s \in Subs(n) : s # {} /\ g[s \ {Largest(s)}] \in A => g[s] = G[<<g[s \ {Largest(s)}], Largest(s)>>]
LoopOf(r, A, G, a, n, x) ==
    /\ r \in [0 .. n -> A]
    /\ r[0] = a
    /\ \A k \in 0 .. n - 1 : r[k + 1] = G[<<r[k], k + 1>>]
    /\ x = r[n]

\* A fold is, at the sets 1 .. k, such a loop.
LEMMA FoldSteps ==
    ASSUME NEW A, NEW n \in Nat, NEW G \in [A \X (1 .. n) -> A], NEW a \in A,
           NEW g, Obeys(g, A, G, a, n)
    PROVE  \E r : LoopOf(r, A, G, a, n, g[1 .. n])
  <1> DEFINE T == {k \in 0 .. n : g[1 .. k] \in A}
             r == [k \in 0 .. n |-> g[1 .. k]]
  <1>1. 0 \in T
    <2>1. 1 .. 0 = {}
      OBVIOUS
    <2> QED BY <2>1 DEF Obeys
  <1>2. ASSUME NEW k \in 0 .. n - 1, g[1 .. k] \in A
        PROVE  g[1 .. k + 1] = G[<<g[1 .. k], k + 1>>] /\ g[1 .. k + 1] \in A
    <2>1. 1 .. k + 1 \in Subs(n) /\ 1 .. k + 1 \in Subs(k + 1) /\ k + 1 \in 1 .. k + 1 /\ k \in Nat
      BY DEF Subs
    <2>2. Largest(1 .. k + 1) = k + 1
      BY <2>1, LargestOf
    <2>3. (1 .. k + 1) \ {k + 1} = 1 .. k
      OBVIOUS
    <2>4. g[1 .. k + 1] = G[<<g[1 .. k], k + 1>>]
      BY <1>2, <2>1, <2>2, <2>3 DEF Obeys
    <2> QED BY <1>2, <2>4
  <1>3. \A k \in 0 .. n : k \in T
    <2>1. ASSUME NEW k \in 0 .. n - 1, k \in T PROVE k + 1 \in T
      <3>1. g[1 .. k] \in A /\ k + 1 \in 0 .. n
        BY <2>1
      <3> QED BY <1>2, <3>1
    <2> HIDE DEF T
    <2> QED BY <1>1, <2>1, Climb
  <1>4. r \in [0 .. n -> A] /\ r[0] = a /\ g[1 .. n] = r[n]
    <2>1. 1 .. 0 = {}
      OBVIOUS
    <2> QED BY <1>3, <2>1 DEF Obeys
  <1>5. \A k \in 0 .. n - 1 : r[k + 1] = G[<<r[k], k + 1>>]
    BY <1>2, <1>3
  <1> HIDE DEF r
  <1> QED BY <1>4, <1>5 DEF LoopOf

\* What x leaves when it is divided by n.
LEMMA ModUnique == ASSUME NEW n \in Nat \ {0}, NEW x \in Nat, NEW q \in Int, NEW r \in 0 .. n - 1, x = n * q + r
   PROVE x % n = r
  BY SMTT(30)
\* Division with remainder.
LEMMA ModDiv == ASSUME NEW n \in Nat \ {0}, NEW x \in Int
   PROVE x \div n \in Int /\ x = n * (x \div n) + (x % n) /\ (x % n) \in 0 .. n - 1
  BY SMTT(30)

\* A number below the divisor is what it leaves.
LEMMA ModBelow ==
    ASSUME NEW n \in Nat \ {0}, NEW x \in 0 .. n - 1
    PROVE  x % n = x
  OBVIOUS

\* A whole turn changes no remainder.
LEMMA ModTurn == ASSUME NEW n \in Nat \ {0}, NEW x \in Nat
   PROVE (x + n) % n = x % n
  <1> DEFINE q == x \div n
             r == x % n
             y == x + n
  <1>1. x = n * q + r /\ q \in Int /\ r \in 0 .. n - 1
    BY ModDiv
  <1>2. y = n * (q + 1) + r /\ q + 1 \in Int /\ y \in Nat
    <2> HIDE DEF q, r
    <2> QED BY <1>1, SMTT(30)
  <1> HIDE DEF y, r, q
  <1>3. y % n = r
    BY <1>1, <1>2, ModUnique
  <1> QED BY <1>3 DEF y, r

\* The next remainder.
LEMMA ModNext == ASSUME NEW n \in Nat \ {0}, NEW x \in Nat
   PROVE (x + 1) % n = IF x % n = n - 1 THEN 0 ELSE (x % n) + 1
  <1> DEFINE q == x \div n
             r == x % n
             y == x + 1
  <1>1. x = n * q + r /\ q \in Int /\ r \in 0 .. n - 1
    BY ModDiv
  <1>2. CASE r = n - 1
    <2>1. y = n * (q + 1) + 0 /\ q + 1 \in Int /\ y \in Nat /\ 0 \in 0 .. n - 1
      <3> HIDE DEF q, r
      <3> QED BY <1>1, <1>2, SMTT(30)
    <2> HIDE DEF y, r, q
    <2>2. y % n = 0
      BY <2>1, ModUnique
    <2> QED BY <2>2, <1>2 DEF y, r
  <1>3. CASE r # n - 1
    <2>1. y = n * q + (r + 1) /\ r + 1 \in 0 .. n - 1 /\ y \in Nat
      <3> HIDE DEF q, r
      <3> QED BY <1>1, <1>3, SMTT(30)
    <2> HIDE DEF y, r, q
    <2>2. y % n = r + 1
      BY <1>1, <2>1, ModUnique
    <2> QED BY <2>2, <1>3 DEF y, r
  <1> QED BY <1>2, <1>3

\* The equation of FlattenSeq, and what it joins.
Joins(f, ss) == f = [i \in 1 .. Len(ss) |-> IF i = 1 THEN ss[i] ELSE f[i - 1] \o ss[i]]
JoinedBy(f, S, ss) ==
    /\ f[1] = ss[1]
    /\ \A i \in 1 .. Len(ss) - 1 : f[i + 1] = f[i] \o ss[i + 1]
    /\ FlattenSeq(ss) = f[Len(ss)]
    /\ FlattenSeq(ss) \in Seq(S)

\* FlattenSeq is a loop: a function that joins the sequences one by one.
LEMMA FlattenSteps ==
    ASSUME NEW S, NEW ss \in Seq(Seq(S)), ss # <<>>
    PROVE  \E f : JoinedBy(f, S, ss)
  <1> DEFINE n == Len(ss)
             A == Seq(S)
             G == [p \in A \X (1 .. n) |-> IF p[2] = 1 THEN ss[1] ELSE p[1] \o ss[p[2]]]
             f == CHOOSE h : Joins(h, ss)
  <1>1. n \in Nat /\ n # 0 /\ (\A i \in 1 .. n : ss[i] \in A) /\ <<>> \in A /\ 1 \in 1 .. n
    OBVIOUS
  <1>2. FlattenSeq(ss) = f[n]
    BY <1>1 DEF FlattenSeq, Joins
  <1>3. \A m \in A, k \in 1 .. n : (IF k = 1 THEN ss[1] ELSE m \o ss[k]) \in A
    BY <1>1
  <1>4. G \in [A \X (1 .. n) -> A]
    <2> HIDE DEF n, A
    <2> QED BY <1>3
  <1>5. PICK g \in [Subs(n) -> A] : Folds(g, G, <<>>, n)
    <2> HIDE DEF G, n, A
    <2> QED BY <1>1, <1>4, FoldExists
  <1>6. Obeys(g, A, G, <<>>, n)
    <2>1. {} \in Subs(n)
      BY DEF Subs
    <2> HIDE DEF G, n, A
    <2> QED BY <1>5, <2>1 DEF Folds, Obeys
  <1>7. PICK r : LoopOf(r, A, G, <<>>, n, g[1 .. n])
    <2> HIDE DEF G, n, A
    <2> QED BY <1>1, <1>4, <1>6, FoldSteps
  <1>8. /\ \A k \in 0 .. n : r[k] \in A
        /\ r[1] = ss[1]
        /\ \A k \in 1 .. n - 1 : r[k + 1] = r[k] \o ss[k + 1]
    <2>1. \A k \in 0 .. n : r[k] \in A
      BY <1>7 DEF LoopOf
    <2>2. ASSUME NEW k \in 0 .. n - 1 PROVE r[k + 1] = IF k = 0 THEN ss[1] ELSE r[k] \o ss[k + 1]
      <3>1. k \in 0 .. n /\ k + 1 \in 1 .. n /\ (k + 1 = 1 <=> k = 0)
        BY <1>1
      <3>2. r[k + 1] = G[<<r[k], k + 1>>] /\ r[k] \in A
        BY <1>7, <2>1, <3>1 DEF LoopOf
      <3>3. \A m \in A, j \in 1 .. n : G[<<m, j>>] = IF j = 1 THEN ss[1] ELSE m \o ss[j]
        <4> HIDE DEF A, n
        <4> QED OBVIOUS
      <3> HIDE DEF G, A, n
      <3>4. G[<<r[k], k + 1>>] = IF k + 1 = 1 THEN ss[1] ELSE r[k] \o ss[k + 1]
        BY <3>1, <3>2, <3>3
      <3> QED BY <3>1, <3>2, <3>4
    <2> HIDE DEF G, A, n
    <2>3. r[0 + 1] = ss[1]
      <3>1. 0 \in 0 .. n - 1
        BY <1>1
      <3> QED BY <3>1, <2>2
    <2>4. r[1] = ss[1]
      <3>1. 0 + 1 = 1
        OBVIOUS
      <3> QED BY <2>3, <3>1
    <2>5. ASSUME NEW k \in 1 .. n - 1 PROVE r[k + 1] = r[k] \o ss[k + 1]
      <3>1. k \in 0 .. n - 1 /\ k # 0
        BY <1>1
      <3> QED BY <3>1, <2>2
    <2> QED BY <2>1, <2>4, <2>5
  <1> HIDE DEF G, A
  <1>9. \E h : Joins(h, ss)
    <2> DEFINE h == [i \in 1 .. n |-> r[i]]
    <2>1. \A i \in 1 .. n : i = 1 \/ (i - 1 \in 1 .. n /\ i - 1 \in 1 .. n - 1 /\ i - 1 + 1 = i)
      BY <1>1
    <2>2. \A i \in 1 .. n : h[i] = IF i = 1 THEN ss[i] ELSE h[i - 1] \o ss[i]
      <3> HIDE DEF n
      <3>1. ASSUME NEW i \in 1 .. n, i # 1 PROVE r[i] = r[i - 1] \o ss[i]
        <4>1. i - 1 \in 1 .. n - 1 /\ i - 1 + 1 = i
          BY <2>1, <3>1
        <4>2. r[i - 1 + 1] = r[i - 1] \o ss[i - 1 + 1]
          BY <4>1, <1>8
        <4> QED BY <4>1, <4>2
      <3>2. \A i \in 1 .. n : h[i] = r[i]
        OBVIOUS
      <3>3. \A i \in 1 .. n : i # 1 => h[i - 1] = r[i - 1]
        BY <2>1, <3>2
      <3> HIDE DEF h
      <3> QED BY <1>8, <3>1, <3>2, <3>3
    <2>3. h = [i \in 1 .. n |-> IF i = 1 THEN ss[i] ELSE h[i - 1] \o ss[i]]
      <3> HIDE DEF n
      <3> QED BY <2>2
    <2> HIDE DEF h
    <2> QED BY <2>3 DEF Joins
  <1>10. Joins(f, ss)
    <2> HIDE DEF n
    <2> QED BY <1>9
  <1> HIDE DEF f
  <1>11. \A i \in 1 .. n : f[i] = IF i = 1 THEN ss[i] ELSE f[i - 1] \o ss[i]
    BY <1>10 DEF Joins
  <1> HIDE DEF n
  <1>12. f[1] = ss[1]
    BY <1>1, <1>11
  <1>13. ASSUME NEW i \in 1 .. n - 1 PROVE f[i + 1] = f[i] \o ss[i + 1]
    <2>1. i + 1 \in 1 .. n /\ i + 1 # 1 /\ i + 1 - 1 = i
      BY <1>1
    <2> DEFINE j == i + 1
    <2>2. j \in 1 .. n /\ j # 1 /\ j - 1 = i
      BY <2>1
    <2> HIDE DEF j
    <2>3. f[j] = f[j - 1] \o ss[j]
      BY <2>2, <1>11, Zenon
    <2>4. f[j] = f[i] \o ss[j]
      BY <2>2, <2>3
    <2> QED BY <2>4 DEF j
  <1>14. f[n] \in Seq(S)
    <2> DEFINE T == {0} \cup {k \in 1 .. n : f[k] \in Seq(S)}
    <2>1. ASSUME NEW k \in 0 .. n - 1, k \in T PROVE k + 1 \in T
      <3>1. CASE k = 0
        BY <3>1, <1>1, <1>12 DEF A
      <3>2. CASE k # 0
        <4>1. k \in 1 .. n - 1 /\ k + 1 \in 1 .. n /\ f[k] \in Seq(S)
          BY <3>2, <2>1, <1>1
        <4>2. f[k + 1] = f[k] \o ss[k + 1] /\ ss[k + 1] \in Seq(S)
          BY <4>1, <1>13, <1>1 DEF A
        <4>3. f[k] \o ss[k + 1] \in Seq(S)
          BY <4>1, <4>2, ConcatProperties
        <4> QED BY <4>1, <4>2, <4>3
      <3> QED BY <3>1, <3>2
    <2>2. 0 \in T
      OBVIOUS
    <2> HIDE DEF T
    <2>3. \A k \in 0 .. n : k \in T
      BY <1>1, <2>1, <2>2, Climb
    <2>4. n \in T
      BY <1>1, <2>3
    <2> QED BY <2>4, <1>1 DEF T
  <1> QED BY <1>2, <1>12, <1>13, <1>14 DEF JoinedBy, n

\* One more sequence comes at the end.
LEMMA FlattenNext ==
    ASSUME NEW S, NEW ss \in Seq(Seq(S)), NEW x \in Seq(S)
    PROVE  /\ FlattenSeq(ss) \in Seq(S)
           /\ FlattenSeq(Append(ss, x)) = FlattenSeq(ss) \o x
  <1> DEFINE u == Append(ss, x)
             n == Len(ss)
  <1>1. /\ u \in Seq(Seq(S)) /\ u # <<>> /\ Len(u) = n + 1 /\ n \in Nat
        /\ \A i \in 1 .. n : u[i] = ss[i]
        /\ u[n + 1] = x
    BY AppendProperties
  <1>2. PICK g : JoinedBy(g, S, u)
    <2> HIDE DEF u
    <2> QED BY <1>1, FlattenSteps
  <1>3. CASE ss = <<>>
    <2>1. FlattenSeq(ss) = <<>> /\ n = 0
      BY <1>3 DEF FlattenSeq
    <2>2. FlattenSeq(u) = x
      <3> HIDE DEF u, n
      <3> QED BY <1>1, <1>2, <2>1 DEF JoinedBy
    <2> QED BY <2>1, <2>2, ConcatEmptySeq
  <1>4. CASE ss # <<>>
    <2>1. PICK f : JoinedBy(f, S, ss)
      BY <1>4, FlattenSteps
    <2> DEFINE T == {0} \cup {k \in 1 .. n : g[k] = f[k]}
    <2>2. n # 0
      BY <1>4
    <2>3. /\ f[1] = ss[1] /\ FlattenSeq(ss) = f[n] /\ FlattenSeq(ss) \in Seq(S)
          /\ \A i \in 1 .. n - 1 : f[i + 1] = f[i] \o ss[i + 1]
      BY <2>1 DEF JoinedBy
    <2> HIDE DEF u, n
    <2>4. /\ g[1] = u[1] /\ FlattenSeq(u) = g[n + 1]
          /\ \A i \in 1 .. n : g[i + 1] = g[i] \o u[i + 1]
      <3>1. Len(u) - 1 = n
        BY <1>1
      <3>2. \A i \in 1 .. Len(u) - 1 : g[i + 1] = g[i] \o u[i + 1]
        BY <1>2 DEF JoinedBy
      <3>3. g[1] = u[1] /\ FlattenSeq(u) = g[n + 1]
        BY <1>1, <1>2 DEF JoinedBy
      <3> QED BY <3>1, <3>2, <3>3
    <2>5. ASSUME NEW k \in 0 .. n - 1, k \in T PROVE k + 1 \in T
      <3>1. CASE k = 0
        <4>1. 1 \in 1 .. n
          BY <1>1, <2>2
        <4> QED BY <3>1, <4>1, <1>1, <2>3, <2>4
      <3>2. CASE k # 0
        <4>1. k \in 1 .. n - 1 /\ k \in 1 .. n /\ k + 1 \in 1 .. n /\ g[k] = f[k]
          BY <3>2, <2>5, <1>1
        <4>2. g[k + 1] = g[k] \o u[k + 1] /\ f[k + 1] = f[k] \o ss[k + 1] /\ u[k + 1] = ss[k + 1]
          BY <4>1, <2>3, <2>4, <1>1
        <4> QED BY <4>1, <4>2
      <3> QED BY <3>1, <3>2
    <2>6. 0 \in T
      OBVIOUS
    <2> HIDE DEF T
    <2>7. \A k \in 0 .. n : k \in T
      BY <1>1, <2>5, <2>6, Climb
    <2>8. n \in T /\ n \in 1 .. n
      BY <1>1, <2>2, <2>7
    <2>9. g[n] = f[n]
      BY <2>8, <2>2 DEF T
    <2>10. g[n + 1] = g[n] \o u[n + 1]
      BY <2>4, <2>8
    <2> QED BY <2>3, <2>4, <2>9, <2>10, <1>1 DEF u
  <1> QED BY <1>3, <1>4

\* A part of a sequence and the element behind it.
LEMMA PartAndNext ==
    ASSUME NEW S, NEW s \in Seq(S), NEW i \in 0 .. Len(s) - 1, NEW m \in 1 .. i + 1
    PROVE  /\ SubSeq(s, m, i) \in Seq(S) /\ s[i + 1] \in S
           /\ SubSeq(s, m, i + 1) = Append(SubSeq(s, m, i), s[i + 1])
  <1>1. m \in 1 .. Len(s) /\ i + 1 \in m .. Len(s) /\ i + 1 \in 1 .. Len(s) /\ i + 1 - 1 = i
    OBVIOUS
  <1>2. SubSeq(s, m, i + 1) = SubSeq(s, m, i + 1 - 1) \o <<s[i + 1]>>
    BY <1>1, SubSeqRecursiveSecond
  <1>3. SubSeq(s, m, i) \in Seq(S) /\ s[i + 1] \in S
    <2>1. s[i + 1] \in S
      BY <1>1
    <2>2. \A j \in m .. i : s[j] \in S
      BY <1>1
    <2>3. m \in Int /\ i \in Int
      OBVIOUS
    <2> QED BY <2>1, <2>2, <2>3, SubSeqProperties
  <1>4. Append(SubSeq(s, m, i), s[i + 1]) = SubSeq(s, m, i) \o <<s[i + 1]>>
    BY <1>3, AppendIsConcat
  <1> QED BY <1>1, <1>2, <1>3, <1>4

\* An element behind two sequences is one behind the second.
Extends(S, s, t, x) ==
    /\ Append(s \o t, x) = s \o Append(t, x)
    /\ Append(t, x) = t \o <<x>>
    /\ Append(t, x) \in Seq(S) /\ Len(Append(t, x)) = Len(t) + 1
    /\ s \o t \in Seq(S)

\* An element appended to two joined sequences is appended to the second.
LEMMA AppendJoined ==
    ASSUME NEW S, NEW s \in Seq(S), NEW t \in Seq(S), NEW x \in S
    PROVE  Extends(S, s, t, x)
  BY DEF Extends

-----------------------------------------------------------------------------
(***************************************************************************)
(* Errors (Errors.tla).                                                    *)
(***************************************************************************)
\* The operators of the library are the same ones here and in the instance.
ESame == \A S : E!Max(S) = Largest(S)
\* Errors takes the largest member of a set as the folds do.
LEMMA ESameMax == ESame
  BY DEF ESame, E!Max, Largest

CodeType == [value : Int, category : Int]
CtxType == [code : CodeType, message : Seq(Int)]
ChainType == [entries : [0 .. MAX_DEPTH - 1 -> CtxType], size : 0 .. MAX_DEPTH]
ResultType == [has : BOOLEAN, value : Int, ctx : CtxType]

\* A chain that stands for the sequence e, and a result that stands for x.
ChainIs(c, e) ==
    /\ c \in ChainType /\ e \in Seq(CtxType)
    /\ c.size = Len(e)
    /\ \A i \in 0 .. c.size - 1 : c.entries[i] = e[i + 1]
ResultIs(r, x) ==
    /\ r \in ResultType
    /\ r.has => x = r.value
    /\ ~r.has => x = r.ctx /\ r.value = 0

EInv ==
    /\ this \in [Wrappers -> [chain : ChainType, result : ResultType]]
    /\ expected \in [Wrappers -> [chain : Seq(CtxType), outcome : Int \cup CtxType]]
    /\ \A o \in Wrappers : /\ ChainIs(this[o].chain, expected[o].chain)
                           /\ ResultIs(this[o].result, expected[o].outcome)

\* The smaller of two numbers.
LEMMA MinOf == ASSUME NEW a \in Int, NEW b \in Int PROVE E!Min({a, b}) = IF a <= b THEN a ELSE b
  BY DEF E!Min

\* The contexts that are made.
LEMMA CtxMade ==
    ASSUME NEW v \in Int, NEW c \in Int, NEW s \in Seq(Int)
    PROVE  E!Context(E!ErrorCode(v, c), s) \in CtxType
  <1>1. SubSeq(s, 1, E!Min({Len(s), TextSize - 1})) \in Seq(Int)
    <2>1. \A x \in Int : x <= Len(s) => SubSeq(s, 1, x) \in Seq(Int)
      BY SMT
    <2> QED BY <2>1, MinOf, ErrorsAssumption
  <1> QED BY <1>1 DEF E!Context, E!ErrorCode, E!CopyStr, CtxType, CodeType

\* The contexts a program pushes, and the empty one, are contexts.
LEMMA CtxsMade == E!Contexts \subseteq CtxType /\ E!EmptyContext \in CtxType
  <1>1. E!NoMessage \in Seq(Int) /\ E!Generic \in Int /\ E!Other \in Int
    BY DEF E!NoMessage, E!Generic, E!Other
  <1>2. \A v \in {0, 4} : E!Context(E!ErrorCode(v, E!Generic), E!NoMessage) \in CtxType
    BY <1>1, CtxMade
  <1>3. ASSUME NEW v \in Reasons PROVE E!Context(E!ErrorCode(v, E!Other), <<v, v, v>>) \in CtxType
    <2> DEFINE t == <<v, v, v>>
    <2>1. v \in Int /\ t \in Seq(Int)
      BY ErrorsAssumption
    <2> HIDE DEF t
    <2>2. E!Context(E!ErrorCode(v, E!Other), t) \in CtxType
      BY <1>1, <2>1, CtxMade
    <2> QED BY <2>2 DEF t
  <1>4. E!EmptyContext \in CtxType
    BY <1>2 DEF E!EmptyContext, E!Ok
  <1> QED BY <1>2, <1>3, <1>4 DEF E!Contexts

\* The first n elements.
LEMMA FirstOf ==
    ASSUME NEW s \in Seq(CtxType), NEW n \in Nat, n <= Len(s)
    PROVE  /\ SubSeq(s, 1, n) \in Seq(CtxType) /\ Len(SubSeq(s, 1, n)) = n
           /\ \A i \in 1 .. n : SubSeq(s, 1, n)[i] = s[i]
  BY SMT

\* The first MAX_DEPTH elements.
Cut(s) == SubSeq(s, 1, E!Min({Len(s), MAX_DEPTH}))
\* What a chain keeps of a sequence of errors: its first MAX_DEPTH.
LEMMA CutIs ==
    ASSUME NEW s \in Seq(CtxType)
    PROVE  /\ Cut(s) \in Seq(CtxType)
           /\ Len(Cut(s)) = IF Len(s) <= MAX_DEPTH THEN Len(s) ELSE MAX_DEPTH
           /\ \A i \in 1 .. Len(Cut(s)) : Cut(s)[i] = s[i]
  <1> DEFINE n == IF Len(s) <= MAX_DEPTH THEN Len(s) ELSE MAX_DEPTH
  <1>1. Cut(s) = SubSeq(s, 1, n) /\ n \in Nat /\ n <= Len(s)
    BY MinOf, ErrorsAssumption DEF Cut
  <1> HIDE DEF n
  <1> QED BY <1>1, FirstOf DEF n

\* push() either appends or leaves a full chain as it was.
LEMMA PushedIs ==
    ASSUME NEW c \in ChainType, NEW x \in CtxType
    PROVE  /\ E!Pushed(c, x) \in ChainType
           /\ E!Pushed(c, x).size = IF c.size < MAX_DEPTH THEN c.size + 1 ELSE c.size
           /\ \A i \in 0 .. E!Pushed(c, x).size - 1 :
                 E!Pushed(c, x).entries[i] = IF i < c.size THEN c.entries[i] ELSE x
  BY ErrorsAssumption DEF E!Pushed, ChainType

\* push() keeps the chain what its calls put there, cut at MAX_DEPTH.
LEMMA PushIs ==
    ASSUME NEW c, NEW e, ChainIs(c, e), NEW x \in CtxType
    PROVE  ChainIs(E!Pushed(c, x), Cut(Append(e, x)))
  <1>1. Append(e, x) \in Seq(CtxType) /\ Len(Append(e, x)) = Len(e) + 1
        /\ \A i \in 1 .. Len(e) + 1 : Append(e, x)[i] = IF i <= Len(e) THEN e[i] ELSE x
    BY DEF ChainIs
  <1> DEFINE s == Append(e, x)
  <1>2. s \in Seq(CtxType) /\ Len(s) = Len(e) + 1 /\ Len(e) \in Nat
        /\ \A i \in 1 .. Len(e) + 1 : s[i] = IF i <= Len(e) THEN e[i] ELSE x
    BY <1>1 DEF ChainIs
  <1> HIDE DEF s
  <1>3. ChainIs(E!Pushed(c, x), Cut(s))
    <2>1. c \in ChainType /\ c.size = Len(e) /\ c.size \in 0 .. MAX_DEPTH
          /\ \A i \in 0 .. c.size - 1 : c.entries[i] = e[i + 1]
      BY DEF ChainIs, ChainType
    <2> DEFINE p == E!Pushed(c, x)
               t == Cut(s)
    <2>2. /\ p \in ChainType
          /\ p.size = IF c.size < MAX_DEPTH THEN c.size + 1 ELSE c.size
          /\ \A i \in 0 .. p.size - 1 : p.entries[i] = IF i < c.size THEN c.entries[i] ELSE x
      BY <2>1, PushedIs
    <2>3. /\ t \in Seq(CtxType)
          /\ Len(t) = IF Len(s) <= MAX_DEPTH THEN Len(s) ELSE MAX_DEPTH
          /\ \A i \in 1 .. Len(t) : t[i] = s[i]
      BY <1>2, CutIs
    <2> HIDE DEF p, t
    <2>4. p.size = Len(t)
      BY <2>1, <2>2, <2>3, <1>2, ErrorsAssumption
    <2>5. \A i \in 0 .. p.size - 1 : p.entries[i] = t[i + 1]
      BY <2>1, <2>2, <2>3, <2>4, <1>2, ErrorsAssumption
    <2>6. ChainIs(p, t)
      BY <2>2, <2>3, <2>4, <2>5 DEF ChainIs
    <2> QED BY <2>6 DEF p, t
  <1> QED BY <1>3 DEF s

\* What the loop of merge() does.
LEMMA MergedSteps ==
    ASSUME NEW c \in ChainType, NEW d \in ChainType
    PROVE  \E r : /\ r \in [0 .. d.size -> ChainType]
                  /\ r[0] = c
                  /\ \A k \in 0 .. d.size - 1 : r[k + 1] = E!Pushed(r[k], d.entries[k])
                  /\ E!Merged(c, d) = r[d.size]
  <1> DEFINE A == ChainType
             n == d.size
             s == [k \in 1 .. n - 1 - 0 + 1 |-> 0 + k - 1]
             G == [p \in A \X (1 .. n) |-> E!Pushed(p[1], d.entries[s[p[2]]])]
             iter == CHOOSE it : it = [x \in SUBSET DOMAIN s |-> IF x = {} THEN c ELSE
                         E!Pushed(it[x \ {E!Max(x)}], d.entries[s[E!Max(x)]])]
  <1>1. n \in Nat /\ DOMAIN s = 1 .. n /\ \A k \in 1 .. n : s[k] = k - 1
    BY ErrorsAssumption DEF ChainType
  <1>2. E!Merged(c, d) = iter[DOMAIN s]
    BY DEF E!Merged, E!Upto, E!FoldLeft, E!MapThenFoldSet
  <1>3. G \in [A \X (1 .. n) -> A] /\ c \in A
    <2>1. \A k \in 1 .. n : d.entries[s[k]] \in CtxType
      BY <1>1, ErrorsAssumption DEF ChainType
    <2>2. \A m \in A, k \in 1 .. n : E!Pushed(m, d.entries[s[k]]) \in A
      BY <2>1, PushedIs
    <2> HIDE DEF s, n, A
    <2> QED BY <2>2 DEF A
  <1>4. PICK g \in [Subs(n) -> A] : Folds(g, G, c, n)
    <2> HIDE DEF G, n, A
    <2> QED BY <1>1, <1>3, FoldExists
  <1>5. \A x \in Subs(n) : x # {} => E!Max(x) \in x /\ x \ {E!Max(x)} \in Subs(n)
    <2> HIDE DEF n
    <2> QED BY <1>1, LargestIn, ESameMax DEF ESame
  <1>6. g = [x \in SUBSET DOMAIN s |-> IF x = {} THEN c ELSE
                         E!Pushed(g[x \ {E!Max(x)}], d.entries[s[E!Max(x)]])]
    <2>1. ASSUME NEW x \in Subs(n), x # {}
          PROVE  G[<<g[x \ {E!Max(x)}], E!Max(x)>>] = E!Pushed(g[x \ {E!Max(x)}], d.entries[s[E!Max(x)]])
      <3>1. g[x \ {E!Max(x)}] \in A /\ E!Max(x) \in 1 .. n
        BY <1>5, <2>1 DEF Subs
      <3> HIDE DEF n, s, A
      <3> QED BY <3>1
    <2>2. DOMAIN s = 1 .. n
      BY <1>1
    <2> HIDE DEF G, n, s, A
    <2> QED BY <1>4, <2>1, <2>2, ESameMax DEF Folds, Subs, ESame
  <1>7. iter = [x \in SUBSET DOMAIN s |-> IF x = {} THEN c ELSE
                         E!Pushed(iter[x \ {E!Max(x)}], d.entries[s[E!Max(x)]])]
    <2> HIDE DEF s
    <2> QED BY <1>6
  <1>8. Obeys(iter, A, G, c, n)
    <2>1. DOMAIN s = 1 .. n
      BY <1>1
    <2>2. ASSUME NEW x \in Subs(n), x # {}, iter[x \ {E!Max(x)}] \in A
          PROVE  iter[x] = G[<<iter[x \ {E!Max(x)}], E!Max(x)>>]
      <3>1. E!Max(x) \in 1 .. n
        BY <1>5, <2>2 DEF Subs
      <3>2. iter[x] = E!Pushed(iter[x \ {E!Max(x)}], d.entries[s[E!Max(x)]])
        <4> HIDE DEF iter, s, n, A
        <4> QED BY <1>7, <2>1, <2>2 DEF Subs
      <3> HIDE DEF iter, s, n, A
      <3> QED BY <2>2, <3>1, <3>2
    <2>3. iter[{}] = c
      <3> HIDE DEF iter, s, n, A
      <3> QED BY <1>7
    <2> HIDE DEF iter, s, n, G, A
    <2> QED BY <2>2, <2>3, ESameMax DEF Obeys, ESame
  <1>9. PICK r : LoopOf(r, A, G, c, n, iter[1 .. n])
    <2> HIDE DEF iter, G, n, s, A
    <2> QED BY <1>1, <1>3, <1>8, FoldSteps
  <1>10. \A k \in 0 .. n - 1 : r[k + 1] = E!Pushed(r[k], d.entries[k])
    <2> SUFFICES ASSUME NEW k \in 0 .. n - 1 PROVE r[k + 1] = E!Pushed(r[k], d.entries[k])
      OBVIOUS
    <2>1. k + 1 \in 1 .. n /\ r[k] \in A /\ s[k + 1] = k
      <3>1. \A y \in 0 .. n - 1 : y + 1 \in 1 .. n /\ y + 1 - 1 = y /\ y \in 0 .. n
        BY <1>1
      <3> HIDE DEF n, s, A
      <3> QED BY <1>1, <1>9, <3>1 DEF LoopOf
    <2> HIDE DEF n, s, A
    <2> QED BY <1>9, <2>1 DEF LoopOf
  <1> HIDE DEF iter, s, G
  <1> QED BY <1>1, <1>2, <1>9, <1>10 DEF LoopOf


\* What the loop of merge() of a chain with itself does.
LEMMA SelfSteps ==
    ASSUME NEW c \in ChainType, c.size > 0
    PROVE  \E r : /\ r \in [0 .. MAX_DEPTH - c.size -> ChainType]
                  /\ r[0] = c
                  /\ \A k \in 0 .. MAX_DEPTH - c.size - 1 : r[k + 1] = E!Pushed(r[k], r[k].entries[k])
                  /\ E!MergedWithItself(c) = r[MAX_DEPTH - c.size]
  <1> DEFINE A == ChainType
             n == MAX_DEPTH - c.size
             s == [k \in 1 .. n - 1 - 0 + 1 |-> 0 + k - 1]
             G == [p \in A \X (1 .. n) |-> E!Pushed(p[1], p[1].entries[s[p[2]]])]
             iter == CHOOSE it : it = [x \in SUBSET DOMAIN s |-> IF x = {} THEN c ELSE
                         E!Pushed(it[x \ {E!Max(x)}], it[x \ {E!Max(x)}].entries[s[E!Max(x)]])]
  <1>1. n \in Nat /\ DOMAIN s = 1 .. n /\ \A k \in 1 .. n : s[k] = k - 1
    BY ErrorsAssumption DEF ChainType
  <1>2. E!MergedWithItself(c) = iter[DOMAIN s]
    BY ErrorsAssumption DEF ChainType, E!MergedWithItself, E!Upto, E!FoldLeft, E!MapThenFoldSet
  <1>3. G \in [A \X (1 .. n) -> A] /\ c \in A
    <2>1. \A m \in A, k \in 1 .. n : m.entries[s[k]] \in CtxType
      BY <1>1, ErrorsAssumption DEF ChainType
    <2>2. \A m \in A, k \in 1 .. n : E!Pushed(m, m.entries[s[k]]) \in A
      BY <2>1, PushedIs
    <2> HIDE DEF s, n, A
    <2> QED BY <2>2 DEF A
  <1>4. PICK g \in [Subs(n) -> A] : Folds(g, G, c, n)
    <2> HIDE DEF G, n, A
    <2> QED BY <1>1, <1>3, FoldExists
  <1>5. \A x \in Subs(n) : x # {} => E!Max(x) \in x /\ x \ {E!Max(x)} \in Subs(n)
    <2> HIDE DEF n
    <2> QED BY <1>1, LargestIn, ESameMax DEF ESame
  <1>6. g = [x \in SUBSET DOMAIN s |-> IF x = {} THEN c ELSE
                         E!Pushed(g[x \ {E!Max(x)}], g[x \ {E!Max(x)}].entries[s[E!Max(x)]])]
    <2>1. ASSUME NEW x \in Subs(n), x # {}
          PROVE  G[<<g[x \ {E!Max(x)}], E!Max(x)>>] = E!Pushed(g[x \ {E!Max(x)}], g[x \ {E!Max(x)}].entries[s[E!Max(x)]])
      <3>1. g[x \ {E!Max(x)}] \in A /\ E!Max(x) \in 1 .. n
        BY <1>5, <2>1 DEF Subs
      <3> HIDE DEF n, s, A
      <3> QED BY <3>1
    <2>2. DOMAIN s = 1 .. n
      BY <1>1
    <2> HIDE DEF G, n, s, A
    <2> QED BY <1>4, <2>1, <2>2, ESameMax DEF Folds, Subs, ESame
  <1>7. iter = [x \in SUBSET DOMAIN s |-> IF x = {} THEN c ELSE
                         E!Pushed(iter[x \ {E!Max(x)}], iter[x \ {E!Max(x)}].entries[s[E!Max(x)]])]
    <2> HIDE DEF s
    <2> QED BY <1>6
  <1>8. Obeys(iter, A, G, c, n)
    <2>1. DOMAIN s = 1 .. n
      BY <1>1
    <2>2. ASSUME NEW x \in Subs(n), x # {}, iter[x \ {E!Max(x)}] \in A
          PROVE  iter[x] = G[<<iter[x \ {E!Max(x)}], E!Max(x)>>]
      <3>1. E!Max(x) \in 1 .. n
        BY <1>5, <2>2 DEF Subs
      <3>2. iter[x] = E!Pushed(iter[x \ {E!Max(x)}], iter[x \ {E!Max(x)}].entries[s[E!Max(x)]])
        <4> HIDE DEF iter, s, n, A
        <4> QED BY <1>7, <2>1, <2>2 DEF Subs
      <3> HIDE DEF iter, s, n, A
      <3> QED BY <2>2, <3>1, <3>2
    <2>3. iter[{}] = c
      <3> HIDE DEF iter, s, n, A
      <3> QED BY <1>7
    <2> HIDE DEF iter, s, n, G, A
    <2> QED BY <2>2, <2>3, ESameMax DEF Obeys, ESame
  <1>9. PICK r : LoopOf(r, A, G, c, n, iter[1 .. n])
    <2> HIDE DEF iter, G, n, s, A
    <2> QED BY <1>1, <1>3, <1>8, FoldSteps
  <1>10. \A k \in 0 .. n - 1 : r[k + 1] = E!Pushed(r[k], r[k].entries[k])
    <2> SUFFICES ASSUME NEW k \in 0 .. n - 1 PROVE r[k + 1] = E!Pushed(r[k], r[k].entries[k])
      OBVIOUS
    <2>1. k + 1 \in 1 .. n /\ r[k] \in A /\ s[k + 1] = k
      <3>1. \A y \in 0 .. n - 1 : y + 1 \in 1 .. n /\ y + 1 - 1 = y /\ y \in 0 .. n
        BY <1>1
      <3> HIDE DEF n, s, A
      <3> QED BY <1>1, <1>9, <3>1 DEF LoopOf
    <2> HIDE DEF n, s, A
    <2> QED BY <1>9, <2>1 DEF LoopOf
  <1> HIDE DEF iter, s, G
  <1> QED BY <1>1, <1>2, <1>9, <1>10 DEF LoopOf


\* merge() appends as much of the other chain as there is room for.
LEMMA MergedIs ==
    ASSUME NEW c \in ChainType, NEW d \in ChainType
    PROVE  /\ E!Merged(c, d) \in ChainType
           /\ E!Merged(c, d).size = IF c.size + d.size <= MAX_DEPTH THEN c.size + d.size ELSE MAX_DEPTH
           /\ \A i \in 0 .. E!Merged(c, d).size - 1 :
                 E!Merged(c, d).entries[i] = IF i < c.size THEN c.entries[i] ELSE d.entries[i - c.size]
  <1> DEFINE Done(m, k) ==
                /\ m.size = IF c.size + k <= MAX_DEPTH THEN c.size + k ELSE MAX_DEPTH
                /\ \A i \in 0 .. m.size - 1 :
                      m.entries[i] = IF i < c.size THEN c.entries[i] ELSE d.entries[i - c.size]
  <1>1. PICK r : /\ r \in [0 .. d.size -> ChainType]
                 /\ r[0] = c
                 /\ \A k \in 0 .. d.size - 1 : r[k + 1] = E!Pushed(r[k], d.entries[k])
                 /\ E!Merged(c, d) = r[d.size]
    BY MergedSteps
  <1>2. c.size \in 0 .. MAX_DEPTH /\ d.size \in 0 .. MAX_DEPTH
    BY DEF ChainType
  <1> DEFINE T == {k \in 0 .. d.size : Done(r[k], k)}
  <1>3. 0 \in T
    BY <1>1, <1>2, ErrorsAssumption
  <1>4. ASSUME NEW k \in 0 .. d.size - 1, k \in T PROVE k + 1 \in T
    <2> DEFINE m == r[k]
               x == d.entries[k]
               p == E!Pushed(m, x)
    <2>1. m \in ChainType /\ x \in CtxType /\ Done(m, k) /\ r[k + 1] = p /\ k + 1 \in 0 .. d.size
      BY <1>1, <1>2, <1>4, ErrorsAssumption DEF ChainType
    <2>2. /\ p.size = IF m.size < MAX_DEPTH THEN m.size + 1 ELSE m.size
          /\ \A i \in 0 .. p.size - 1 : p.entries[i] = IF i < m.size THEN m.entries[i] ELSE x
      BY <2>1, PushedIs
    <2>3. Done(p, k + 1)
      <3> HIDE DEF m, p
      <3>1. p.size = IF c.size + (k + 1) <= MAX_DEPTH THEN c.size + (k + 1) ELSE MAX_DEPTH
        BY <2>1, <2>2, <1>2, ErrorsAssumption
      <3>2. ASSUME NEW i \in 0 .. p.size - 1
            PROVE  p.entries[i] = IF i < c.size THEN c.entries[i] ELSE d.entries[i - c.size]
        <4>1. i < m.size \/ (i = m.size /\ i = c.size + k)
          BY <2>1, <2>2, <1>2, <3>1, ErrorsAssumption
        <4>2. CASE i < m.size
          BY <4>2, <2>1, <2>2, <1>2, ErrorsAssumption
        <4>3. CASE i = m.size /\ i = c.size + k
          <5>1. i - c.size = k /\ ~(i < c.size) /\ ~(i < m.size)
            BY <4>3, <1>2
          <5> QED BY <5>1, <2>2
        <4> QED BY <4>1, <4>2, <4>3
      <3> QED BY <3>1, <3>2
    <2> HIDE DEF Done, p
    <2> QED BY <2>1, <2>3
  <1>5. d.size \in T
    <2> HIDE DEF T
    <2>1. d.size \in Nat
      BY <1>2
    <2> QED BY <2>1, <1>3, <1>4, Climb
  <1> QED BY <1>1, <1>5, <1>2

\* merge() of another chain appends its entries, cut at MAX_DEPTH.
LEMMA MergeIs ==
    ASSUME NEW c, NEW e, ChainIs(c, e), NEW d, NEW f, ChainIs(d, f)
    PROVE  ChainIs(E!Merged(c, d), Cut(e \o f))
  <1> DEFINE p == E!Merged(c, d)
             s == e \o f
             t == Cut(s)
  <1>1. /\ c \in ChainType /\ c.size = Len(e) /\ c.size \in 0 .. MAX_DEPTH /\ e \in Seq(CtxType)
        /\ \A i \in 0 .. c.size - 1 : c.entries[i] = e[i + 1]
    BY DEF ChainIs, ChainType
  <1>2. /\ d \in ChainType /\ d.size = Len(f) /\ d.size \in 0 .. MAX_DEPTH /\ f \in Seq(CtxType)
        /\ \A i \in 0 .. d.size - 1 : d.entries[i] = f[i + 1]
    BY DEF ChainIs, ChainType
  <1>3. /\ s \in Seq(CtxType) /\ Len(s) = Len(e) + Len(f)
        /\ \A i \in 1 .. Len(s) : s[i] = IF i <= Len(e) THEN e[i] ELSE f[i - Len(e)]
    BY <1>1, <1>2
  <1>4. /\ p \in ChainType
        /\ p.size = IF c.size + d.size <= MAX_DEPTH THEN c.size + d.size ELSE MAX_DEPTH
        /\ \A i \in 0 .. p.size - 1 :
              p.entries[i] = IF i < c.size THEN c.entries[i] ELSE d.entries[i - c.size]
    BY <1>1, <1>2, MergedIs
  <1> HIDE DEF p, s
  <1>5. /\ t \in Seq(CtxType)
        /\ Len(t) = IF Len(s) <= MAX_DEPTH THEN Len(s) ELSE MAX_DEPTH
        /\ \A i \in 1 .. Len(t) : t[i] = s[i]
    BY <1>3, CutIs
  <1> HIDE DEF t
  <1>6. p.size = Len(t)
    BY <1>1, <1>2, <1>3, <1>4, <1>5, ErrorsAssumption
  <1>7. ASSUME NEW i \in 0 .. p.size - 1 PROVE p.entries[i] = t[i + 1]
    <2>1. i + 1 \in 1 .. Len(t) /\ i + 1 \in 1 .. Len(s) /\ i \in 0 .. c.size + d.size - 1
      BY <1>1, <1>2, <1>3, <1>4, <1>5, <1>6, ErrorsAssumption
    <2>2. t[i + 1] = IF i < c.size THEN e[i + 1] ELSE f[i + 1 - Len(e)]
      BY <2>1, <1>1, <1>3, <1>5
    <2>3. CASE i < c.size
      BY <2>1, <2>2, <2>3, <1>1, <1>4
    <2>4. CASE ~(i < c.size)
      <3>1. i - c.size \in 0 .. d.size - 1 /\ i + 1 - Len(e) = i - c.size + 1
        BY <2>1, <2>4, <1>1, <1>2
      <3> QED BY <3>1, <2>2, <2>4, <1>2, <1>4
    <2> QED BY <2>3, <2>4
  <1>8. ChainIs(p, t)
    BY <1>4, <1>5, <1>6, <1>7 DEF ChainIs
  <1> QED BY <1>8 DEF p, s, t

\* What a chain that is merged with itself holds: its contexts over and over.
Repeated(e) == [i \in 1 .. MAX_DEPTH |-> e[((i - 1) % Len(e)) + 1]]

\* merge() of a chain with itself reads entries that it is writing.
LEMMA SelfIs ==
    ASSUME NEW c, NEW e, ChainIs(c, e), e # <<>>
    PROVE  ChainIs(E!MergedWithItself(c), Cut(Repeated(e)))
  <1> DEFINE n == MAX_DEPTH - c.size
             size == c.size
             Done(m, k) ==
                /\ m.size = size + k
                /\ \A i \in 0 .. m.size - 1 : m.entries[i] = e[(i % size) + 1]
  <1>1. /\ c \in ChainType /\ c.size = Len(e) /\ c.size \in 1 .. MAX_DEPTH /\ e \in Seq(CtxType)
        /\ \A i \in 0 .. c.size - 1 : c.entries[i] = e[i + 1]
    <2>1. Len(e) # 0
      BY DEF ChainIs
    <2> QED BY <2>1 DEF ChainIs, ChainType
  <1>2. PICK r : /\ r \in [0 .. n -> ChainType]
                 /\ r[0] = c
                 /\ \A k \in 0 .. n - 1 : r[k + 1] = E!Pushed(r[k], r[k].entries[k])
                 /\ E!MergedWithItself(c) = r[n]
    BY <1>1, SelfSteps
  <1>3. \A i \in 0 .. size - 1 : i % size = i
    BY <1>1, ModBelow
  <1>4. \A i \in Nat : i % size \in 0 .. size - 1 /\ (i + size) % size = i % size
    <2> SUFFICES ASSUME NEW i \in Nat PROVE i % size \in 0 .. size - 1 /\ (i + size) % size = i % size
      OBVIOUS
    <2>1. size \in Nat \ {0} /\ i \in Int
      BY <1>1
    <2> HIDE DEF size
    <2>2. i % size \in 0 .. size - 1
      BY <2>1, ModDiv
    <2> QED BY <2>1, <2>2, ModTurn
  <1> DEFINE T == {k \in 0 .. n : Done(r[k], k)}
  <1>5. 0 \in T
    <2>1. Done(c, 0)
      BY <1>1, <1>3
    <2> HIDE DEF Done
    <2> QED BY <1>1, <1>2, <2>1, ErrorsAssumption
  <1>6. ASSUME NEW k \in 0 .. n - 1, k \in T PROVE k + 1 \in T
    <2> DEFINE m == r[k]
               x == m.entries[k]
               p == E!Pushed(m, x)
    <2>1. k \in 0 .. n /\ k + 1 \in 0 .. n /\ k \in Nat /\ n \in Nat
      BY <1>1, <1>6, ErrorsAssumption
    <2>6. m \in ChainType /\ r[k + 1] = p /\ Done(m, k)
      <3> HIDE DEF n, Done
      <3> QED BY <1>2, <1>6, <2>1
    <2>2. x \in CtxType /\ m.size < MAX_DEPTH /\ x = e[(k % size) + 1]
      <3>1. m.size = size + k /\ k \in 0 .. m.size - 1 /\ m.size < MAX_DEPTH
        BY <2>1, <2>6, <1>1, ErrorsAssumption
      <3>2. m.entries \in [0 .. MAX_DEPTH - 1 -> CtxType] /\ k \in 0 .. MAX_DEPTH - 1
        BY <3>1, <2>1, <2>6, ErrorsAssumption DEF ChainType
      <3> HIDE DEF m
      <3> QED BY <2>6, <3>1, <3>2
    <2>3. /\ p.size = m.size + 1
          /\ \A i \in 0 .. p.size - 1 : p.entries[i] = IF i < m.size THEN m.entries[i] ELSE x
      BY <2>2, <2>6, PushedIs
    <2>4. (k + size) % size = k % size
      BY <2>1, <1>4
    <2>5. Done(p, k + 1)
      <3> HIDE DEF m, p, x
      <3>1. p.size = size + (k + 1)
        BY <2>1, <2>6, <2>3, <1>1
      <3>2. ASSUME NEW i \in 0 .. p.size - 1 PROVE p.entries[i] = e[(i % size) + 1]
        <4>1. i < m.size \/ (i = m.size /\ i = k + size)
          <5>1. m.size = size + k /\ p.size = m.size + 1 /\ size \in Nat
            BY <2>6, <2>3, <1>1
          <5> HIDE DEF Done, size
          <5> QED BY <5>1, <2>1
        <4>2. CASE i < m.size
          BY <4>2, <2>1, <2>6, <2>3, <1>1
        <4>3. CASE i = m.size /\ i = k + size
          <5>1. ~(i < m.size)
            BY <4>3, <2>1, <2>6, <1>1
          <5> QED BY <5>1, <2>2, <2>3, <2>4, <4>3
        <4> QED BY <4>1, <4>2, <4>3
      <3> QED BY <3>1, <3>2
    <2> HIDE DEF Done, p, n
    <2> QED BY <2>1, <2>5, <2>6
  <1>7. Done(E!MergedWithItself(c), n)
    <2>1. n \in T
      <3>1. n \in Nat
        BY <1>1, ErrorsAssumption
      <3> HIDE DEF T, n, Done
      <3>2. \A k \in 0 .. n - 1 : k \in T => k + 1 \in T
        BY <1>6
      <3>3. \A k \in 0 .. n : k \in T
        BY <3>1, <3>2, <1>5, Climb
      <3> QED BY <3>1, <3>3
    <2> HIDE DEF Done
    <2> QED BY <1>2, <2>1
  <1> DEFINE p == E!MergedWithItself(c)
             s == Repeated(e)
             t == Cut(s)
  <1>8. p \in ChainType
    BY <1>1, <1>2, ErrorsAssumption
  <1>9. s \in Seq(CtxType) /\ Len(s) = MAX_DEPTH /\ \A i \in 1 .. MAX_DEPTH : s[i] = e[((i - 1) % size) + 1]
    <2>1. \A i \in 1 .. MAX_DEPTH : e[((i - 1) % Len(e)) + 1] \in CtxType
      <3> SUFFICES ASSUME NEW i \in 1 .. MAX_DEPTH PROVE e[((i - 1) % Len(e)) + 1] \in CtxType
        OBVIOUS
      <3>1. (i - 1) % size \in 0 .. size - 1
        BY <1>4, ErrorsAssumption
      <3>2. ((i - 1) % size) + 1 \in 1 .. Len(e)
        BY <3>1, <1>1
      <3> QED BY <3>2, <1>1
    <2> QED BY <2>1, <1>1, ErrorsAssumption DEF Repeated
  <1> HIDE DEF p, s
  <1>10. /\ t \in Seq(CtxType) /\ Len(t) = MAX_DEPTH
         /\ \A i \in 1 .. Len(t) : t[i] = s[i]
    BY <1>9, CutIs, ErrorsAssumption
  <1> HIDE DEF t
  <1>11. p.size = Len(t)
    BY <1>1, <1>7, <1>10, ErrorsAssumption DEF p
  <1>12. ASSUME NEW i \in 0 .. p.size - 1 PROVE p.entries[i] = t[i + 1]
    <2>1. i + 1 \in 1 .. MAX_DEPTH /\ i + 1 - 1 = i
      BY <1>10, <1>11, ErrorsAssumption
    <2>2. p.entries[i] = e[(i % size) + 1]
      BY <1>7 DEF p
    <2> QED BY <2>1, <2>2, <1>9, <1>10
  <1>13. ChainIs(p, t)
    BY <1>8, <1>10, <1>11, <1>12 DEF ChainIs
  <1> QED BY <1>13 DEF p, s, t


\* pop() and clear() only change how much of the array counts.
LEMMA PopIs ==
    ASSUME NEW c, NEW e, ChainIs(c, e)
    PROVE  ChainIs(E!Popped(c), Cut(IF e = <<>> THEN e ELSE E!Front(e)))
  <1>1. /\ c \in ChainType /\ c.size = Len(e) /\ c.size \in 0 .. MAX_DEPTH /\ e \in Seq(CtxType)
        /\ \A i \in 0 .. c.size - 1 : c.entries[i] = e[i + 1]
    BY DEF ChainIs, ChainType
  <1> DEFINE s == IF e = <<>> THEN e ELSE E!Front(e)
             t == Cut(s)
             p == E!Popped(c)
  <1>2. /\ s \in Seq(CtxType) /\ Len(s) = IF c.size > 0 THEN c.size - 1 ELSE 0
        /\ \A i \in 1 .. Len(s) : s[i] = e[i]
    <2>1. CASE e = <<>>
      BY <2>1, <1>1
    <2>2. CASE e # <<>>
      <3>1. PICK n \in Nat : n = Len(e) - 1
        BY <2>2, <1>1
      <3>2. s = SubSeq(e, 1, n) /\ n <= Len(e) /\ c.size > 0 /\ n = c.size - 1
        BY <2>2, <3>1, <1>1 DEF E!Front
      <3> HIDE DEF s
      <3> QED BY <3>1, <3>2, <1>1, FirstOf
    <2> QED BY <2>1, <2>2
  <1>3. p \in ChainType /\ p.size = (IF c.size > 0 THEN c.size - 1 ELSE 0) /\ p.entries = c.entries
    BY <1>1, ErrorsAssumption DEF E!Popped, ChainType
  <1> HIDE DEF s, p
  <1>4. /\ t \in Seq(CtxType) /\ Len(t) = Len(s)
        /\ \A i \in 1 .. Len(t) : t[i] = s[i]
    BY <1>1, <1>2, CutIs, ErrorsAssumption
  <1> HIDE DEF t
  <1>5. ChainIs(p, t)
    BY <1>1, <1>2, <1>3, <1>4 DEF ChainIs
  <1> QED BY <1>5 DEF p, s, t

\* clear() leaves an empty chain.
LEMMA ClearIs ==
    ASSUME NEW c \in ChainType
    PROVE  ChainIs([c EXCEPT !.size = 0], Cut(<<>>))
  <1>1. [c EXCEPT !.size = 0] \in ChainType /\ [c EXCEPT !.size = 0].size = 0
    BY ErrorsAssumption DEF ChainType
  <1>2. Cut(<<>>) \in Seq(CtxType) /\ Len(Cut(<<>>)) = 0
    <2>1. E!Min({0, MAX_DEPTH}) = 0
      BY MinOf, ErrorsAssumption
    <2>2. Cut(<<>>) = SubSeq(<<>>, 1, 0)
      BY <2>1 DEF Cut
    <2> QED BY <2>2
  <1> QED BY <1>1, <1>2 DEF ChainIs

\* A sequence that fits is not cut.
LEMMA CutFits ==
    ASSUME NEW c, NEW e, ChainIs(c, e)
    PROVE  ChainIs(c, Cut(e))
  <1>1. /\ c \in ChainType /\ c.size = Len(e) /\ c.size \in 0 .. MAX_DEPTH /\ e \in Seq(CtxType)
        /\ \A i \in 0 .. c.size - 1 : c.entries[i] = e[i + 1]
    BY DEF ChainIs, ChainType
  <1>2. /\ Cut(e) \in Seq(CtxType) /\ Len(Cut(e)) = Len(e)
        /\ \A i \in 1 .. Len(Cut(e)) : Cut(e)[i] = e[i]
    BY <1>1, CutIs, ErrorsAssumption
  <1> QED BY <1>1, <1>2 DEF ChainIs

\* An object whose chain is replaced.
LEMMA ChainChanged ==
    ASSUME EInv, NEW o \in Wrappers, NEW c, NEW e, ChainIs(c, Cut(e)), E!ChangeChain(o, c, e)
    PROVE  EInv'
  <1> DEFINE x == [this[o] EXCEPT !.chain = c]
             y == [expected[o] EXCEPT !.chain = Cut(e)]
  <1>1. /\ x \in [chain : ChainType, result : ResultType] /\ x.chain = c /\ x.result = this[o].result
        /\ y \in [chain : Seq(CtxType), outcome : Int \cup CtxType]
        /\ y.chain = Cut(e) /\ y.outcome = expected[o].outcome
    BY DEF EInv, ChainIs
  <1>2. this' = [this EXCEPT ![o] = x] /\ expected' = [expected EXCEPT ![o] = y]
    BY DEF E!ChangeChain, E!Update, Cut
  <1> HIDE DEF x, y
  <1>3. ASSUME NEW p \in Wrappers
        PROVE  ChainIs(this'[p].chain, expected'[p].chain) /\ ResultIs(this'[p].result, expected'[p].outcome)
    <2>1. CASE p = o
      BY <2>1, <1>1, <1>2 DEF EInv
    <2>2. CASE p # o
      BY <2>2, <1>2 DEF EInv
    <2> QED BY <2>1, <2>2
  <1>4. /\ this' \in [Wrappers -> [chain : ChainType, result : ResultType]]
        /\ expected' \in [Wrappers -> [chain : Seq(CtxType), outcome : Int \cup CtxType]]
    BY <1>1, <1>2 DEF EInv
  <1> QED BY <1>3, <1>4 DEF EInv, ChainIs, ResultIs

\* An object whose result is replaced.
LEMMA ResultChanged ==
    ASSUME EInv, NEW o \in Wrappers, NEW r, NEW e, ResultIs(r, e), e \in Int \cup CtxType, E!Answer(o, r, e)
    PROVE  EInv'
  <1> DEFINE x == [this[o] EXCEPT !.result = r]
             y == [expected[o] EXCEPT !.outcome = e]
  <1>1. /\ x \in [chain : ChainType, result : ResultType] /\ x.chain = this[o].chain /\ x.result = r
        /\ y \in [chain : Seq(CtxType), outcome : Int \cup CtxType]
        /\ y.chain = expected[o].chain /\ y.outcome = e
    BY DEF EInv, ResultIs
  <1>2. this' = [this EXCEPT ![o] = x] /\ expected' = [expected EXCEPT ![o] = y]
    BY DEF E!Answer, E!Update
  <1> HIDE DEF x, y
  <1>3. ASSUME NEW p \in Wrappers
        PROVE  ChainIs(this'[p].chain, expected'[p].chain) /\ ResultIs(this'[p].result, expected'[p].outcome)
    <2>1. CASE p = o
      BY <2>1, <1>1, <1>2 DEF EInv
    <2>2. CASE p # o
      BY <2>2, <1>2 DEF EInv
    <2> QED BY <2>1, <2>2
  <1>4. /\ this' \in [Wrappers -> [chain : ChainType, result : ResultType]]
        /\ expected' \in [Wrappers -> [chain : Seq(CtxType), outcome : Int \cup CtxType]]
    BY <1>1, <1>2 DEF EInv
  <1> QED BY <1>3, <1>4 DEF EInv, ChainIs, ResultIs

\* The context on top of a chain.
LEMMA TopIs ==
    ASSUME NEW c, NEW e, ChainIs(c, e)
    PROVE  /\ E!Top(c) = IF e = <<>> THEN E!EmptyContext ELSE E!Last(e)
           /\ E!Top(c) \in CtxType
  <1>1. /\ c \in ChainType /\ c.size = Len(e) /\ c.size \in 0 .. MAX_DEPTH /\ e \in Seq(CtxType)
        /\ \A i \in 0 .. c.size - 1 : c.entries[i] = e[i + 1]
    BY DEF ChainIs, ChainType
  <1>2. CASE e = <<>>
    BY <1>1, <1>2, CtxsMade DEF E!Top
  <1>3. CASE e # <<>>
    <2>1. c.size > 0 /\ c.size - 1 \in 0 .. c.size - 1 /\ c.size - 1 + 1 = Len(e)
      BY <1>1, <1>3
    <2>2. c.entries[c.size - 1] = e[Len(e)] /\ e[Len(e)] \in CtxType
      BY <1>1, <2>1
    <2> QED BY <1>3, <2>1, <2>2 DEF E!Top, E!Last
  <1> QED BY <1>2, <1>3

\* What ok() and err() make.
LEMMA ResultsMade ==
    /\ E!NoResult \in ResultType /\ ResultIs(E!NoResult, E!EmptyContext)
    /\ \A x \in Reasons : x \in Int /\ ResultIs(E!ResultOk(x), x)
    /\ \A x \in CtxType : ResultIs(E!ResultErr(x), x)
  <1>1. E!NoResult \in ResultType /\ ~E!NoResult.has /\ E!NoResult.value = 0 /\ E!NoResult.ctx = E!EmptyContext
    BY CtxsMade DEF E!NoResult, ResultType, E!Default
  <1>2. ASSUME NEW x \in Reasons PROVE x \in Int /\ ResultIs(E!ResultOk(x), x)
    <2>1. x \in Int
      BY ErrorsAssumption
    <2>2. E!ResultOk(x) \in ResultType /\ E!ResultOk(x).has /\ E!ResultOk(x).value = x
      BY <1>1, <2>1 DEF E!ResultOk, ResultType
    <2> QED BY <2>1, <2>2 DEF ResultIs
  <1>3. ASSUME NEW x \in CtxType PROVE ResultIs(E!ResultErr(x), x)
    <2>1. E!ResultErr(x) \in ResultType /\ ~E!ResultErr(x).has /\ E!ResultErr(x).value = 0 /\ E!ResultErr(x).ctx = x
      BY <1>1 DEF E!ResultErr, ResultType
    <2> QED BY <2>1 DEF ResultIs
  <1> QED BY <1>1, <1>2, <1>3 DEF ResultIs

\* A chain begins empty and a result begins with a value.
LEMMA ErrorsInit == E!Init => EInv
  <1> SUFFICES ASSUME E!Init PROVE EInv
    OBVIOUS
  <1>1. E!NoChain \in ChainType /\ E!NoChain.size = 0
    BY CtxsMade, ErrorsAssumption DEF E!NoChain, ChainType
  <1>2. ChainIs(E!NoChain, <<>>)
    BY <1>1 DEF ChainIs
  <1>3. E!NoResult \in ResultType /\ ResultIs(E!NoResult, E!EmptyContext)
    BY ResultsMade
  <1> QED BY <1>1, <1>2, <1>3, CtxsMade DEF E!Init, EInv

\* Every call on a chain or a result keeps what it holds what was put there.
LEMMA ErrorsNext == EInv /\ E!Next => EInv'
  <1> SUFFICES ASSUME EInv, E!Next PROVE EInv'
    OBVIOUS
  <1>1. PICK o \in Wrappers :
            \/ E!Push(o) \/ E!Pop(o) \/ E!Clear(o) \/ E!MergeSelf(o)
            \/ E!AnswerOk(o) \/ E!AnswerErr(o)
            \/ \E p \in Wrappers : E!Merge(o, p) \/ E!CopyChain(o, p)
    BY DEF E!Next
  <1> DEFINE c == this[o].chain
             e == expected[o].chain
  <1>2. \A p \in Wrappers : ChainIs(this[p].chain, expected[p].chain)
    BY DEF EInv
  <1>3. ChainIs(c, e) /\ c \in ChainType
    BY <1>2 DEF ChainIs
  <1>4. CASE E!Push(o)
    <2>1. PICK ctx \in E!Contexts : E!ChangeChain(o, E!Pushed(c, ctx), Append(e, ctx))
      BY <1>4 DEF E!Push
    <2>2. ChainIs(E!Pushed(c, ctx), Cut(Append(e, ctx)))
      BY <1>3, CtxsMade, PushIs
    <2> QED BY <2>1, <2>2, ChainChanged
  <1>5. CASE E!Pop(o)
    <2>1. E!ChangeChain(o, E!Popped(c), IF e = <<>> THEN e ELSE E!Front(e))
      BY <1>5 DEF E!Pop
    <2>2. ChainIs(E!Popped(c), Cut(IF e = <<>> THEN e ELSE E!Front(e)))
      BY <1>3, PopIs
    <2> HIDE DEF c, e
    <2> QED BY <2>1, <2>2, ChainChanged
  <1>6. CASE E!Clear(o)
    BY <1>3, <1>6, ClearIs, ChainChanged DEF E!Clear
  <1>7. CASE E!MergeSelf(o)
    <2>1. CASE e = <<>>
      <3>1. E!MergedWithItself(c) = c
        BY <1>3, <2>1 DEF E!MergedWithItself, ChainIs
      <3>2. E!ChangeChain(o, c, e) /\ ChainIs(c, Cut(e))
        BY <1>3, <1>7, <2>1, <3>1, CutFits DEF E!MergeSelf
      <3> QED BY <3>2, ChainChanged
    <2>2. CASE e # <<>>
      <3>1. E!ChangeChain(o, E!MergedWithItself(c), Repeated(e))
        BY <1>7, <2>2 DEF E!MergeSelf, Repeated
      <3>2. ChainIs(E!MergedWithItself(c), Cut(Repeated(e)))
        BY <1>3, <2>2, SelfIs
      <3> QED BY <3>1, <3>2, ChainChanged
    <2> QED BY <2>1, <2>2
  <1>8. CASE E!AnswerOk(o)
    <2>1. PICK x \in Reasons : E!Answer(o, E!ResultOk(x), x)
      BY <1>8 DEF E!AnswerOk
    <2>2. x \in Int /\ ResultIs(E!ResultOk(x), x)
      BY ResultsMade
    <2> QED BY <2>1, <2>2, ResultChanged
  <1>9. CASE E!AnswerErr(o)
    <2> DEFINE x == E!Top(c)
    <2>1. x = (IF e = <<>> THEN E!EmptyContext ELSE E!Last(e)) /\ x \in CtxType
      BY <1>3, TopIs
    <2>2. E!Answer(o, E!ResultErr(x), x)
      BY <1>9, <2>1 DEF E!AnswerErr
    <2> HIDE DEF x
    <2>3. ResultIs(E!ResultErr(x), x)
      BY <2>1, ResultsMade
    <2> QED BY <2>1, <2>2, <2>3, ResultChanged
  <1>10. ASSUME NEW p \in Wrappers, E!Merge(o, p) PROVE EInv'
    <2>1. ChainIs(E!Merged(c, this[p].chain), Cut(e \o expected[p].chain))
      BY <1>2, <1>3, MergeIs
    <2> QED BY <1>10, <2>1, ChainChanged DEF E!Merge
  <1>11. ASSUME NEW p \in Wrappers, E!CopyChain(o, p) PROVE EInv'
    BY <1>2, <1>11, CutFits, ChainChanged DEF E!CopyChain
  <1> QED BY <1>1, <1>4, <1>5, <1>6, <1>7, <1>8, <1>9, <1>10, <1>11



\* The length of a text and another.
LEMMA JoinedLength ==
    \A S : \A a \in Seq(S), s \in Seq(S) : Len(a \o s) = Len(a) + Len(s) /\ Len(s) \in Nat
  OBVIOUS

\* A text of two numbers and another text is not a text of one element.
LEMMA LongerThanOne ==
    ASSUME NEW R, NEW a \in Seq(R), Len(a) = 2, NEW s \in Seq(R)
    PROVE  \A x : a \o s # <<x>>
  <1> SUFFICES ASSUME NEW x PROVE a \o s # <<x>>
    OBVIOUS
  <1>1. Len(a \o s) = Len(a) + Len(s) /\ Len(s) \in Nat
    BY JoinedLength, Zenon
  <1> DEFINE u == a \o s
             v == <<x>>
  <1>2. Len(v) = 1
    OBVIOUS
  <1>3. Len(u) # Len(v)
    <2> HIDE DEF v
    <2> QED BY <1>1, <1>2
  <1> HIDE DEF u, v
  <1>4. u # v
    BY <1>3
  <1> QED BY <1>4 DEF u, v

\* format() of an error says more than that of a success.
LEMMA Formats ==
    ASSUME NEW x \in CtxType
    PROVE  E!IsError(x.code) <=> E!Format(x) # <<"[OK]">>
  <1>1. CASE ~E!IsError(x.code)
    BY <1>1 DEF E!Format
  <1>2. CASE E!IsError(x.code)
    <2> DEFINE p == x.code.category
               q == x.code.value
               b == E!MessageOf(x)
    <2>1. p \in Int /\ q \in Int /\ x.message \in Seq(Int)
      BY DEF CtxType, CodeType
    <2>2. b = x.message \/ b = <<"unknown error code">> \/ b = <<p, q>>
      <3>1. b = x.message \/ b = E!Message(x.code)
        BY DEF E!MessageOf
      <3>2. E!Message(x.code) = <<"unknown error code">> \/ E!Message(x.code) = <<p, q>>
        BY Zenon DEF E!Message
      <3> HIDE DEF b, p, q
      <3> QED BY <3>1, <3>2, Zenon
    <2>3. E!Format(x) = <<p, q>> \o b
      BY <1>2 DEF E!Format
    <2> HIDE DEF p, q, b
    <2>4. <<p, q>> \in Seq(Int)
      BY <2>1
    <2>5. PICK R : <<p, q>> \in Seq(R) /\ b \in Seq(R)
      <3>1. CASE b = <<"unknown error code">>
        <4> DEFINE R == {p, q, "unknown error code"}
        <4>1. <<p, q>> \in Seq(R)
          OBVIOUS
        <4>2. <<"unknown error code">> \in Seq(R)
          OBVIOUS
        <4> HIDE DEF R
        <4> QED BY <3>1, <4>1, <4>2, Zenon
      <3>2. CASE b = x.message
        BY <3>2, <2>1, <2>4, Zenon
      <3>3. CASE b = <<p, q>>
        BY <3>3, <2>4, Zenon
      <3> QED BY <2>2, <3>1, <3>2, <3>3, Zenon
    <2>6. \A y : <<p, q>> \o b # <<y>>
      <3> DEFINE a == <<p, q>>
      <3>1. a \in Seq(R) /\ Len(a) = 2
        BY <2>5
      <3> HIDE DEF a
      <3>2. \A y : a \o b # <<y>>
        BY <2>5, <3>1, LongerThanOne
      <3> QED BY <3>2 DEF a
    <2> QED BY <1>2, <2>3, <2>6
  <1> QED BY <1>1, <1>2

\* An entry is printed as the last, or as the only one.
PrintedLast(c, i) == E!Prefix(c, i) \in {"Error", "Final"}

\* print() names exactly the last entry of a chain as the final one.
LEMMA LastMarked ==
    ASSUME NEW c, c.size \in Nat, NEW i \in 0 .. c.size - 1
    PROVE  PrintedLast(c, i) <=> (i = c.size - 1)
  <1>2. CASE i = 0 /\ c.size = 1
    BY <1>2 DEF E!Prefix, PrintedLast
  <1>3. CASE i = 0 /\ c.size # 1
    <2>1. ~PrintedLast(c, i)
      BY <1>3 DEF E!Prefix, PrintedLast
    <2> QED BY <1>3, <2>1
  <1>4. CASE i # 0 /\ i = c.size - 1
    BY <1>4 DEF E!Prefix, PrintedLast
  <1>5. CASE i # 0 /\ i # c.size - 1
    BY <1>5 DEF E!Prefix, PrintedLast
  <1> QED BY <1>2, <1>3, <1>4, <1>5

\* Codes are ordered.
LEMMA CodesOrdered ==
    ASSUME NEW f \in CodeType, NEW g \in CodeType
    PROVE  f # g <=> (E!CodeLess(f, g) # E!CodeLess(g, f))
  <1>1. f = g <=> f.value = g.value /\ f.category = g.category
    BY DEF CodeType
  <1>2. f.value \in Int /\ g.value \in Int /\ f.category \in Int /\ g.category \in Int
    BY DEF CodeType
  <1> QED BY <1>1, <1>2 DEF E!CodeLess

\* The representation says what ErrorsMatch says.
LEMMA ErrorsRight == EInv => E!ErrorsMatch
  <1> SUFFICES ASSUME EInv, NEW o \in Wrappers
               PROVE  LET c == this[o].chain
                          e == expected[o].chain
                          r == this[o].result
                          outcome == expected[o].outcome
                      IN  /\ c.size = Len(e)
                          /\ \A i \in 0 .. MAX_DEPTH : E!EntryAt(c, i) = IF i < Len(e) THEN e[i + 1] ELSE E!EmptyContext
                          /\ e # <<>> => E!Top(c) = E!Last(e) /\ E!RootCause(c) = e[1]
                          /\ E!ChainFailed(c) <=> e # <<>> /\ E!Format(E!Last(e)) # <<"[OK]">>
                          /\ {i \in 0 .. c.size - 1 : E!Prefix(c, i) \in {"Error", "Final"}} = {c.size - 1} \ {-1}
                          /\ IF r.has THEN outcome = r.value /\ E!ResultOr(r, 0) = outcome
                             ELSE outcome = r.ctx /\ E!ResultOr(r, 0) = 0
                          /\ \A p \in Wrappers :
                                LET f == E!Top(c).code
                                    g == E!Top(this[p].chain).code
                                IN  f # g <=> (E!CodeLess(f, g) # E!CodeLess(g, f))
    BY DEF E!ErrorsMatch
  <1> DEFINE c == this[o].chain
             e == expected[o].chain
             r == this[o].result
             outcome == expected[o].outcome
  <1>1. ChainIs(c, e) /\ ResultIs(r, outcome) /\ \A p \in Wrappers : ChainIs(this[p].chain, expected[p].chain)
    BY DEF EInv
  <1> HIDE DEF c, e, r, outcome
  <1>2. /\ c \in ChainType /\ c.size = Len(e) /\ c.size \in 0 .. MAX_DEPTH /\ e \in Seq(CtxType)
        /\ \A i \in 0 .. c.size - 1 : c.entries[i] = e[i + 1]
    BY <1>1 DEF ChainIs, ChainType
  <1>3. E!Top(c) = (IF e = <<>> THEN E!EmptyContext ELSE E!Last(e)) /\ E!Top(c) \in CtxType
    BY <1>1, TopIs
  <1>4. \A i \in 0 .. MAX_DEPTH : E!EntryAt(c, i) = IF i < Len(e) THEN e[i + 1] ELSE E!EmptyContext
    BY <1>2 DEF E!EntryAt
  <1>5. e # <<>> => E!Top(c) = E!Last(e) /\ E!RootCause(c) = e[1] /\ c.size > 0
    <2> SUFFICES ASSUME e # <<>> PROVE E!RootCause(c) = e[1] /\ c.size > 0
      BY <1>3
    <2>1. c.size > 0 /\ 0 \in 0 .. c.size - 1 /\ 0 + 1 = 1
      BY <1>2
    <2>2. c.entries[0] = e[1]
      BY <1>2, <2>1
    <2> QED BY <2>1, <2>2 DEF E!RootCause
  <1>6. E!ChainFailed(c) <=> e # <<>> /\ E!Format(E!Last(e)) # <<"[OK]">>
    <2>1. CASE e = <<>>
      <3>1. ~(c.size > 0)
        BY <1>2, <2>1
      <3> QED BY <3>1, <2>1 DEF E!ChainFailed
    <2>2. CASE e # <<>>
      <3>1. E!Top(c) = E!Last(e) /\ c.size > 0 /\ E!Top(c) \in CtxType
        BY <1>3, <1>5, <2>2
      <3>2. E!IsError(E!Top(c).code) <=> E!Format(E!Top(c)) # <<"[OK]">>
        BY <3>1, Formats
      <3>3. E!ChainFailed(c) <=> E!IsError(E!Top(c).code)
        BY <3>1 DEF E!ChainFailed
      <3> QED BY <2>2, <3>1, <3>2, <3>3
    <2> QED BY <2>1, <2>2
  <1>7. IF r.has THEN outcome = r.value /\ E!ResultOr(r, 0) = outcome
        ELSE outcome = r.ctx /\ E!ResultOr(r, 0) = 0
    BY <1>1 DEF ResultIs, E!ResultOr
  <1>8. ASSUME NEW p \in Wrappers
        PROVE  E!Top(c).code # E!Top(this[p].chain).code
                  <=> (E!CodeLess(E!Top(c).code, E!Top(this[p].chain).code) # E!CodeLess(E!Top(this[p].chain).code, E!Top(c).code))
    <2>1. E!Top(this[p].chain) \in CtxType
      BY <1>1, TopIs
    <2>2. E!Top(c).code \in CodeType /\ E!Top(this[p].chain).code \in CodeType
      BY <1>3, <2>1 DEF CtxType
    <2> QED BY <2>2, CodesOrdered
  <1>9. {i \in 0 .. c.size - 1 : E!Prefix(c, i) \in {"Error", "Final"}} = {c.size - 1} \ {-1}
    <2>1. c.size \in Nat
      BY <1>2
    <2>2. \A i \in 0 .. c.size - 1 : PrintedLast(c, i) <=> (i = c.size - 1)
      BY <2>1, LastMarked
    <2>3. {i \in 0 .. c.size - 1 : PrintedLast(c, i)} = {c.size - 1} \ {-1}
      BY <2>1, <2>2
    <2> QED BY <2>3 DEF PrintedLast
  <1> QED BY <1>2, <1>4, <1>5, <1>6, <1>7, <1>8, <1>9 DEF c, e, r, outcome

-----------------------------------------------------------------------------
(***************************************************************************)
(* Files (FileIO.tla).                                                     *)
(***************************************************************************)
\* The operators of the library are the same ones here and in the instance.
FSame == \A S : F!Max(S) = Largest(S)
\* FileIO takes the largest member of a set as the folds do.
LEMMA FSameMax == FSame
  BY DEF FSame, F!Max, Largest

\* One more sequence comes at the end.
LEMMA FFlattenNext ==
    ASSUME NEW S, NEW ss \in Seq(Seq(S)), NEW x \in Seq(S)
    PROVE  /\ F!FlattenSeq(ss) \in Seq(S)
           /\ F!FlattenSeq(Append(ss, x)) = F!FlattenSeq(ss) \o x
  <1>1. \A t : F!FlattenSeq(t) = FlattenSeq(t)
    BY DEF F!FlattenSeq, FlattenSeq
  <1> QED BY <1>1, FlattenNext

\* The steps of Dropping(s, dropped).
DroppedBy(r, S, s, dropped) ==
    /\ r \in [0 .. Len(s) -> Seq(S)]
    /\ r[0] = <<>>
    /\ \A k \in 0 .. Len(s) - 1 : r[k + 1] = F!Kept(r[k], s[k + 1], dropped)
    /\ F!Dropping(s, dropped) = r[Len(s)]

\* Characters are dropped, or kept, one after the other.
LEMMA DroppingSteps ==
    ASSUME NEW S, NEW s \in Seq(S), NEW dropped
    PROVE  \E r : DroppedBy(r, S, s, dropped)
  <1> DEFINE A == Seq(S)
             n == Len(s)
             G == [p \in A \X (1 .. n) |-> F!Kept(p[1], s[p[2]], dropped)]
             iter == CHOOSE it : it = [x \in SUBSET DOMAIN s |-> IF x = {} THEN <<>> ELSE
                         F!Kept(it[x \ {F!Max(x)}], s[F!Max(x)], dropped)]
  <1>1. n \in Nat /\ DOMAIN s = 1 .. n
    OBVIOUS
  <1>2. F!Dropping(s, dropped) = iter[DOMAIN s]
    BY DEF F!Dropping, F!FoldLeft, F!MapThenFoldSet
  <1>3. G \in [A \X (1 .. n) -> A] /\ <<>> \in A
    <2>1. \A m \in A, k \in 1 .. n : F!Kept(m, s[k], dropped) \in A
      BY DEF F!Kept
    <2>2. <<>> \in A
      OBVIOUS
    <2> HIDE DEF n, A
    <2> QED BY <2>1, <2>2
  <1>4. PICK g \in [Subs(n) -> A] : Folds(g, G, <<>>, n)
    <2> HIDE DEF G, n, A
    <2> QED BY <1>1, <1>3, FoldExists
  <1>5. \A x \in Subs(n) : x # {} => F!Max(x) \in x /\ x \ {F!Max(x)} \in Subs(n)
    <2> HIDE DEF n
    <2> QED BY <1>1, LargestIn, FSameMax DEF FSame
  <1>6. g = [x \in SUBSET DOMAIN s |-> IF x = {} THEN <<>> ELSE
                         F!Kept(g[x \ {F!Max(x)}], s[F!Max(x)], dropped)]
    <2>1. ASSUME NEW x \in Subs(n), x # {}
          PROVE  G[<<g[x \ {F!Max(x)}], F!Max(x)>>] = F!Kept(g[x \ {F!Max(x)}], s[F!Max(x)], dropped)
      <3>1. g[x \ {F!Max(x)}] \in A /\ F!Max(x) \in 1 .. n
        BY <1>5, <2>1 DEF Subs
      <3> HIDE DEF n, A
      <3> QED BY <3>1
    <2>2. DOMAIN s = 1 .. n
      BY <1>1
    <2> HIDE DEF G, n, A
    <2> QED BY <1>4, <2>1, <2>2, FSameMax DEF Folds, Subs, FSame
  <1>7. iter = [x \in SUBSET DOMAIN s |-> IF x = {} THEN <<>> ELSE
                         F!Kept(iter[x \ {F!Max(x)}], s[F!Max(x)], dropped)]
    BY <1>6
  <1>8. Obeys(iter, A, G, <<>>, n)
    <2>1. DOMAIN s = 1 .. n
      BY <1>1
    <2>2. ASSUME NEW x \in Subs(n), x # {}, iter[x \ {F!Max(x)}] \in A
          PROVE  iter[x] = G[<<iter[x \ {F!Max(x)}], F!Max(x)>>]
      <3>1. F!Max(x) \in 1 .. n
        BY <1>5, <2>2 DEF Subs
      <3>2. iter[x] = F!Kept(iter[x \ {F!Max(x)}], s[F!Max(x)], dropped)
        <4> HIDE DEF iter, n, A
        <4> QED BY <1>7, <2>1, <2>2 DEF Subs
      <3> HIDE DEF iter, n, A
      <3> QED BY <2>2, <3>1, <3>2
    <2>3. iter[{}] = <<>>
      <3> HIDE DEF iter, n, A
      <3> QED BY <1>7
    <2> HIDE DEF iter, n, G, A
    <2> QED BY <2>2, <2>3, FSameMax DEF Obeys, FSame
  <1>9. PICK r : LoopOf(r, A, G, <<>>, n, iter[1 .. n])
    <2> HIDE DEF iter, G, n, A
    <2> QED BY <1>1, <1>3, <1>8, FoldSteps
  <1>10. \A k \in 0 .. n - 1 : r[k + 1] = F!Kept(r[k], s[k + 1], dropped)
    <2> SUFFICES ASSUME NEW k \in 0 .. n - 1 PROVE r[k + 1] = F!Kept(r[k], s[k + 1], dropped)
      OBVIOUS
    <2>1. k + 1 \in 1 .. n /\ r[k] \in A
      <3>1. \A y \in 0 .. n - 1 : y + 1 \in 1 .. n /\ y \in 0 .. n
        BY <1>1
      <3> HIDE DEF n, A
      <3> QED BY <1>1, <1>9, <3>1 DEF LoopOf
    <2> HIDE DEF n, A
    <2> QED BY <1>9, <2>1 DEF LoopOf
  <1> HIDE DEF iter, G
  <1> QED BY <1>1, <1>2, <1>9, <1>10 DEF LoopOf, DroppedBy

\* The steps of the search of s in t.
MatchedBy(r, S, s, t) ==
    /\ r \in [0 .. Len(t) -> Seq(S)]
    /\ r[0] = s
    /\ \A k \in 0 .. Len(t) - 1 : r[k + 1] = F!Matched(r[k], t[k + 1])
    /\ F!IsPartOf(s, t) <=> (r[Len(t)] = <<>>)

\* Elements are looked for one after the other.
LEMMA MatchingSteps ==
    ASSUME NEW S, NEW s \in Seq(S), NEW t \in Seq(S)
    PROVE  \E r : MatchedBy(r, S, s, t)
  <1> DEFINE A == Seq(S)
             n == Len(t)
             G == [p \in A \X (1 .. n) |-> F!Matched(p[1], t[p[2]])]
             iter == CHOOSE it : it = [x \in SUBSET DOMAIN t |-> IF x = {} THEN s ELSE
                         F!Matched(it[x \ {F!Max(x)}], t[F!Max(x)])]
  <1>1. n \in Nat /\ DOMAIN t = 1 .. n
    OBVIOUS
  <1>2. F!IsPartOf(s, t) <=> (iter[DOMAIN t] = <<>>)
    BY DEF F!IsPartOf, F!FoldLeft, F!MapThenFoldSet
  <1>3. G \in [A \X (1 .. n) -> A] /\ s \in A
    <2>1. \A m \in A, k \in 1 .. n : F!Matched(m, t[k]) \in A
      BY HeadTailProperties DEF F!Matched
    <2>2. s \in A
      OBVIOUS
    <2> HIDE DEF n, A
    <2> QED BY <2>1, <2>2
  <1>4. PICK g \in [Subs(n) -> A] : Folds(g, G, s, n)
    <2> HIDE DEF G, n, A
    <2> QED BY <1>1, <1>3, FoldExists
  <1>5. \A x \in Subs(n) : x # {} => F!Max(x) \in x /\ x \ {F!Max(x)} \in Subs(n)
    <2> HIDE DEF n
    <2> QED BY <1>1, LargestIn, FSameMax DEF FSame
  <1>6. g = [x \in SUBSET DOMAIN t |-> IF x = {} THEN s ELSE
                         F!Matched(g[x \ {F!Max(x)}], t[F!Max(x)])]
    <2>1. ASSUME NEW x \in Subs(n), x # {}
          PROVE  G[<<g[x \ {F!Max(x)}], F!Max(x)>>] = F!Matched(g[x \ {F!Max(x)}], t[F!Max(x)])
      <3>1. g[x \ {F!Max(x)}] \in A /\ F!Max(x) \in 1 .. n
        BY <1>5, <2>1 DEF Subs
      <3> HIDE DEF n, A
      <3> QED BY <3>1
    <2>2. DOMAIN t = 1 .. n
      BY <1>1
    <2> HIDE DEF G, n, A
    <2> QED BY <1>4, <2>1, <2>2, FSameMax DEF Folds, Subs, FSame
  <1>7. iter = [x \in SUBSET DOMAIN t |-> IF x = {} THEN s ELSE
                         F!Matched(iter[x \ {F!Max(x)}], t[F!Max(x)])]
    BY <1>6
  <1>8. Obeys(iter, A, G, s, n)
    <2>1. DOMAIN t = 1 .. n
      BY <1>1
    <2>2. ASSUME NEW x \in Subs(n), x # {}, iter[x \ {F!Max(x)}] \in A
          PROVE  iter[x] = G[<<iter[x \ {F!Max(x)}], F!Max(x)>>]
      <3>1. F!Max(x) \in 1 .. n
        BY <1>5, <2>2 DEF Subs
      <3>2. iter[x] = F!Matched(iter[x \ {F!Max(x)}], t[F!Max(x)])
        <4> HIDE DEF iter, n, A
        <4> QED BY <1>7, <2>1, <2>2 DEF Subs
      <3> HIDE DEF iter, n, A
      <3> QED BY <2>2, <3>1, <3>2
    <2>3. iter[{}] = s
      <3> HIDE DEF iter, n, A
      <3> QED BY <1>7
    <2> HIDE DEF iter, n, G, A
    <2> QED BY <2>2, <2>3, FSameMax DEF Obeys, FSame
  <1>9. PICK r : LoopOf(r, A, G, s, n, iter[1 .. n])
    <2> HIDE DEF iter, G, n, A
    <2> QED BY <1>1, <1>3, <1>8, FoldSteps
  <1>10. \A k \in 0 .. n - 1 : r[k + 1] = F!Matched(r[k], t[k + 1])
    <2> SUFFICES ASSUME NEW k \in 0 .. n - 1 PROVE r[k + 1] = F!Matched(r[k], t[k + 1])
      OBVIOUS
    <2>1. k + 1 \in 1 .. n /\ r[k] \in A
      <3>1. \A y \in 0 .. n - 1 : y + 1 \in 1 .. n /\ y \in 0 .. n
        BY <1>1
      <3> HIDE DEF n, A
      <3> QED BY <1>1, <1>9, <3>1 DEF LoopOf
    <2> HIDE DEF n, A
    <2> QED BY <1>9, <2>1 DEF LoopOf
  <1> HIDE DEF iter, G
  <1> QED BY <1>1, <1>2, <1>9, <1>10 DEF LoopOf, MatchedBy

\* s is found in t, its elements at the places f of t.
PlacedBy(f, s, t) ==
    /\ f \in [1 .. Len(s) -> 1 .. Len(t)]
    /\ \A i \in 1 .. Len(s) : t[f[i]] = s[i]
    /\ \A i, j \in 1 .. Len(s) : i < j => f[i] < f[j]
PlacedIn(s, t) == \E f : PlacedBy(f, s, t)

\* After j elements of t the first m of s are found, as many as f has found or more.
Found(rest, s, f, j, m) ==
    /\ m \in 0 .. Len(s)
    /\ rest = SubSeq(s, m + 1, Len(s))
    /\ \A i \in 1 .. Len(s) : f[i] <= j => i <= m

\* The next element of t: the search never falls behind the places f.
LEMMA FoundNext ==
    ASSUME NEW S, NEW s \in Seq(S), NEW t \in Seq(S), NEW f, PlacedBy(f, s, t),
           NEW j \in 0 .. Len(t) - 1, NEW m, NEW rest, Found(rest, s, f, j, m)
    PROVE  \E k : Found(F!Matched(rest, t[j + 1]), s, f, j + 1, k)
  <1>1. m \in 0 .. Len(s) /\ rest = SubSeq(s, m + 1, Len(s)) /\ Len(s) \in Nat
    BY DEF Found
  <1>2. CASE m = Len(s)
    <2>1. rest = <<>>
      BY <1>1, <1>2, SubSeqEmpty
    <2>2. F!Matched(rest, t[j + 1]) = rest
      BY <2>1 DEF F!Matched
    <2>3. \A i \in 1 .. Len(s) : i <= m
      BY <1>2
    <2>4. Found(F!Matched(rest, t[j + 1]), s, f, j + 1, m)
      BY <1>1, <2>2, <2>3 DEF Found
    <2> QED BY <2>4
  <1>3. CASE m # Len(s)
    <2>1. m + 1 \in 1 .. Len(s) /\ Len(s) \in m + 1 .. Len(s)
      BY <1>1, <1>3
    <2>2. Head(rest) = s[m + 1] /\ Tail(rest) = SubSeq(s, m + 1 + 1, Len(s))
      BY <1>1, <2>1, HeadTailOfSubSeq
    <2>3. rest # <<>>
      <3>1. Len(rest) = Len(s) - m
        BY <1>1, <2>1
      <3>2. Len(s) - m # 0 /\ Len(<<>>) = 0
        BY <1>1, <1>3
      <3> HIDE DEF Found, PlacedBy
      <3> QED BY <3>1, <3>2
    <2>4. ASSUME NEW i \in 1 .. Len(s), f[i] <= j + 1 PROVE i <= m + 1 /\ (i = m + 1 => f[i] = j + 1)
      <3> DEFINE a == f[m + 1]
                 b == f[i]
      <3>1. a \in Int /\ b \in Int /\ m \in Int /\ i \in Int /\ j \in Int
        <4>1. f \in [1 .. Len(s) -> 1 .. Len(t)]
          BY DEF PlacedBy
        <4>2. a \in 1 .. Len(t) /\ b \in 1 .. Len(t)
          BY <4>1, <2>1
        <4> QED BY <4>2, <1>1
      <3>2. ~(a <= j)
        <4>1. a <= j => m + 1 <= m
          BY <2>1 DEF Found
        <4> QED BY <4>1, <3>1
      <3>3. m + 1 < i => a < b
        BY <2>1 DEF PlacedBy
      <3>4. b <= j + 1
        BY <2>4
      <3>5. i = m + 1 => b = a
        OBVIOUS
      <3> HIDE DEF a, b
      <3>6. i <= m + 1 /\ (i = m + 1 => b = j + 1)
        BY <3>1, <3>2, <3>3, <3>4, <3>5
      <3> QED BY <3>6 DEF b
    <2>5. CASE s[m + 1] = t[j + 1]
      <3>1. F!Matched(rest, t[j + 1]) = SubSeq(s, m + 1 + 1, Len(s))
        BY <2>2, <2>3, <2>5 DEF F!Matched
      <3>2. Found(F!Matched(rest, t[j + 1]), s, f, j + 1, m + 1)
        BY <3>1, <2>1, <2>4, <1>1 DEF Found
      <3> QED BY <3>2
    <2>6. CASE s[m + 1] # t[j + 1]
      <3>1. F!Matched(rest, t[j + 1]) = rest
        BY <2>2, <2>6 DEF F!Matched
      <3>2. ASSUME NEW i \in 1 .. Len(s), f[i] <= j + 1 PROVE i <= m
        <4>1. t[f[i]] = s[i]
          BY DEF PlacedBy
        <4>2. i # m + 1
          BY <4>1, <2>4, <2>6, <3>2
        <4> QED BY <4>2, <2>4, <3>2, <1>1
      <3>3. Found(F!Matched(rest, t[j + 1]), s, f, j + 1, m)
        BY <3>1, <3>2, <1>1 DEF Found
      <3> QED BY <3>3
    <2> QED BY <2>5, <2>6
  <1> QED BY <1>2, <1>3

\* What is found at some places is found by a search that takes each element
\* as soon as it can.
LEMMA PlacedIsPart ==
    ASSUME NEW S, NEW s \in Seq(S), NEW t \in Seq(S), PlacedIn(s, t)
    PROVE  F!IsPartOf(s, t)
  <1>1. PICK f : PlacedBy(f, s, t)
    BY DEF PlacedIn
  <1>2. PICK r : MatchedBy(r, S, s, t)
    BY MatchingSteps
  <1> DEFINE n == Len(t)
             T == {j \in 0 .. n : \E m : Found(r[j], s, f, j, m)}
  <1>3. n \in Nat /\ Len(s) \in Nat
    OBVIOUS
  <1>4. 0 \in T
    <2>1. r[0] = SubSeq(s, 0 + 1, Len(s))
      BY <1>2, SubSeqFull DEF MatchedBy
    <2>2. \A i \in 1 .. Len(s) : f[i] \in Int /\ f[i] >= 1
      BY <1>1 DEF PlacedBy
    <2>3. Found(r[0], s, f, 0, 0)
      BY <2>1, <2>2, <1>3 DEF Found
    <2> QED BY <2>3, <1>3
  <1>5. ASSUME NEW j \in 0 .. n - 1, j \in T PROVE j + 1 \in T
    <2>1. PICK m : Found(r[j], s, f, j, m)
      BY <1>5
    <2>2. r[j + 1] = F!Matched(r[j], t[j + 1])
      BY <1>2 DEF MatchedBy
    <2>3. \E k : Found(F!Matched(r[j], t[j + 1]), s, f, j + 1, k)
      BY <1>1, <2>1, FoundNext
    <2> QED BY <2>2, <2>3
  <1>6. n \in T
    <2>1. n \in Nat
      OBVIOUS
    <2> HIDE DEF T, n
    <2>2. \A j \in 0 .. n : j \in T
      BY <2>1, <1>4, <1>5, Climb
    <2> QED BY <2>1, <2>2
  <1>7. PICK m : Found(r[n], s, f, n, m)
    BY <1>6
  <1>8. m = Len(s)
    <2>1. CASE Len(s) = 0
      BY <2>1, <1>7 DEF Found
    <2>2. CASE Len(s) # 0
      <3>1. Len(s) \in 1 .. Len(s) /\ f[Len(s)] <= n
        BY <2>2, <1>1, <1>3 DEF PlacedBy
      <3> QED BY <3>1, <1>7, <1>3 DEF Found
    <2> QED BY <2>1, <2>2
  <1>9. r[n] = <<>>
    BY <1>7, <1>8, <1>3, SubSeqEmpty DEF Found
  <1> QED BY <1>2, <1>9 DEF MatchedBy

\* A sequence is found in itself.
LEMMA PlacedSelf ==
    ASSUME NEW S, NEW s \in Seq(S)
    PROVE  PlacedIn(s, s)
  <1> DEFINE f == [i \in 1 .. Len(s) |-> i]
  <1>1. PlacedBy(f, s, s)
    BY DEF PlacedBy
  <1> QED BY <1>1 DEF PlacedIn

\* It stays found when the same element follows in both.
LEMMA PlacedAppend ==
    ASSUME NEW S, NEW s \in Seq(S), NEW t \in Seq(S), NEW c \in S, PlacedIn(s, t)
    PROVE  PlacedIn(Append(s, c), Append(t, c))
  <1>1. PICK f : PlacedBy(f, s, t)
    BY DEF PlacedIn
  <1> DEFINE n == Len(s)
             k == Len(t)
             u == Append(s, c)
             v == Append(t, c)
             g == [i \in 1 .. n + 1 |-> IF i = n + 1 THEN k + 1 ELSE f[i]]
  <1>2. /\ n \in Nat /\ k \in Nat
        /\ Len(u) = n + 1 /\ Len(v) = k + 1
        /\ \A i \in 1 .. n : u[i] = s[i]
        /\ \A i \in 1 .. k : v[i] = t[i]
        /\ u[n + 1] = c /\ v[k + 1] = c
    BY AppendProperties
  <1>3. /\ \A i \in 1 .. n : f[i] \in 1 .. k /\ t[f[i]] = s[i]
        /\ \A i, j \in 1 .. n : i < j => f[i] < f[j]
    BY <1>1 DEF PlacedBy
  <1> HIDE DEF n, k, u, v
  <1>4. /\ \A i \in 1 .. n : g[i] = f[i] /\ i \in 1 .. n + 1 /\ f[i] \in 1 .. k + 1 /\ f[i] < k + 1
        /\ g[n + 1] = k + 1 /\ k + 1 \in 1 .. k + 1
        /\ \A i \in 1 .. n + 1 : i \in 1 .. n \/ i = n + 1
    BY <1>2, <1>3
  <1>5. g \in [1 .. n + 1 -> 1 .. k + 1]
    BY <1>4
  <1> HIDE DEF g
  <1>6. \A i \in 1 .. n + 1 : v[g[i]] = u[i]
    BY <1>2, <1>3, <1>4
  <1>7. ASSUME NEW i \in 1 .. n + 1, NEW j \in 1 .. n + 1, i < j PROVE g[i] < g[j]
    <2>1. i \in 1 .. n /\ g[i] = f[i] /\ f[i] < k + 1
      BY <1>2, <1>4, <1>7
    <2>2. CASE j = n + 1
      BY <2>1, <2>2, <1>4
    <2>3. CASE j # n + 1
      <3>1. j \in 1 .. n /\ g[j] = f[j]
        BY <1>4, <2>3
      <3>2. f[i] < f[j]
        BY <3>1, <2>1, <1>3, <1>7
      <3> QED BY <2>1, <3>1, <3>2
    <2> QED BY <2>2, <2>3
  <1>8. PlacedBy(g, u, v)
    BY <1>2, <1>5, <1>6, <1>7 DEF PlacedBy
  <1> QED BY <1>8 DEF PlacedIn, u, v

\* It stays found when more comes between.
LEMMA PlacedInsert ==
    ASSUME NEW S, NEW s \in Seq(S), NEW a \in Seq(S), NEW b \in Seq(S), NEW x \in Seq(S), PlacedIn(s, a \o b)
    PROVE  PlacedIn(s, (a \o x) \o b)
  <1>1. PICK f : PlacedBy(f, s, a \o b)
    BY DEF PlacedIn
  <1> DEFINE n == Len(s)
             p == Len(a)
             q == Len(x)
             k == Len(b)
             u == a \o b
             v == (a \o x) \o b
             g == [i \in 1 .. n |-> IF f[i] <= p THEN f[i] ELSE f[i] + q]
  <1>2. /\ n \in Nat /\ p \in Nat /\ q \in Nat /\ k \in Nat
        /\ Len(u) = p + k /\ Len(v) = p + q + k
        /\ \A i \in 1 .. p : u[i] = a[i] /\ v[i] = a[i]
        /\ \A i \in p + 1 .. p + k : u[i] = b[i - p]
        /\ \A i \in p + q + 1 .. p + q + k : v[i] = b[i - (p + q)]
    <2>1. a \o x \in Seq(S) /\ Len(a \o x) = p + q /\ \A i \in 1 .. p : (a \o x)[i] = a[i]
      BY ConcatProperties
    <2> DEFINE y == a \o x
    <2> HIDE DEF y
    <2>2. Len(y \o b) = Len(y) + k /\ \A i \in 1 .. Len(y) + k :
             (y \o b)[i] = IF i <= Len(y) THEN y[i] ELSE b[i - Len(y)]
      BY <2>1, ConcatProperties DEF y
    <2>3. Len(y) = p + q /\ \A i \in 1 .. p : y[i] = a[i]
      BY <2>1 DEF y
    <2>4. p \in Nat /\ q \in Nat /\ k \in Nat /\ n \in Nat
      OBVIOUS
    <2>5. \A i \in 1 .. p : (y \o b)[i] = a[i]
      <3> HIDE DEF p, q, k
      <3> QED BY <2>2, <2>3, <2>4
    <2>6. \A i \in p + q + 1 .. p + q + k : (y \o b)[i] = b[i - (p + q)]
      <3> HIDE DEF p, q, k
      <3> QED BY <2>2, <2>3, <2>4
    <2>7. Len(u) = p + k /\ \A i \in 1 .. p + k : u[i] = IF i <= p THEN a[i] ELSE b[i - p]
      BY ConcatProperties
    <2>8. Len(y \o b) = p + q + k
      BY <2>2, <2>3
    <2> HIDE DEF p, q, k, n
    <2>9. Len(v) = p + q + k /\ (\A i \in 1 .. p : v[i] = a[i])
           /\ \A i \in p + q + 1 .. p + q + k : v[i] = b[i - (p + q)]
      BY <2>5, <2>6, <2>8 DEF y
    <2> HIDE DEF u, v
    <2>10. \A i \in 1 .. p : u[i] = a[i]
      BY <2>4, <2>7
    <2>11. \A i \in p + 1 .. p + k : u[i] = b[i - p]
      <3> SUFFICES ASSUME NEW i \in p + 1 .. p + k PROVE u[i] = b[i - p]
        OBVIOUS
      <3>1. i \in 1 .. p + k /\ ~(i <= p)
        BY <2>4
      <3> QED BY <2>7, <3>1
    <2>12. \A i \in 1 .. p : u[i] = a[i] /\ v[i] = a[i]
      BY <2>9, <2>10
    <2> QED BY <2>4, <2>7, <2>9, <2>11, <2>12
  <1>3. /\ \A i \in 1 .. n : f[i] \in 1 .. p + k /\ u[f[i]] = s[i]
        /\ \A i, j \in 1 .. n : i < j => f[i] < f[j]
    BY <1>1, <1>2 DEF PlacedBy
  <1> HIDE DEF n, p, q, k, u, v
  <1>4. \A i \in 1 .. n : g[i] = IF f[i] <= p THEN f[i] ELSE f[i] + q
    OBVIOUS
  <1>5. g \in [1 .. n -> 1 .. p + q + k]
    <2>1. \A i \in 1 .. n : (IF f[i] <= p THEN f[i] ELSE f[i] + q) \in 1 .. p + q + k
      <3> SUFFICES ASSUME NEW i \in 1 .. n
                   PROVE  (IF f[i] <= p THEN f[i] ELSE f[i] + q) \in 1 .. p + q + k
        OBVIOUS
      <3> DEFINE z == f[i]
      <3>1. z \in 1 .. p + k
        BY <1>3
      <3>2. p \in Nat /\ q \in Nat /\ k \in Nat
        BY <1>2
      <3> HIDE DEF z
      <3>3. (IF z <= p THEN z ELSE z + q) \in 1 .. p + q + k
        BY <3>1, <3>2
      <3> QED BY <3>3 DEF z
    <2> QED BY <2>1
  <1> HIDE DEF g
  <1>6. ASSUME NEW i \in 1 .. n PROVE v[g[i]] = s[i]
    <2> DEFINE z == f[i]
    <2>1. z \in 1 .. p + k /\ u[z] = s[i] /\ g[i] = IF z <= p THEN z ELSE z + q
      BY <1>3, <1>4
    <2> HIDE DEF z
    <2>2. CASE z <= p
      <3>1. z \in 1 .. p /\ g[i] = z
        BY <2>1, <2>2, <1>2
      <3> QED BY <3>1, <2>1, <1>2
    <2>3. CASE ~(z <= p)
      <3>1. z \in p + 1 .. p + k /\ g[i] = z + q
        BY <2>1, <2>3, <1>2
      <3>2. z + q \in p + q + 1 .. p + q + k /\ z + q - (p + q) = z - p
        BY <3>1, <1>2
      <3>3. v[z + q] = b[z - p]
        <4> DEFINE w == z + q
        <4>1. w \in p + q + 1 .. p + q + k /\ w - (p + q) = z - p
          BY <3>1, <3>2, <1>2
        <4> HIDE DEF w
        <4>2. v[w] = b[w - (p + q)]
          BY <4>1, <1>2
        <4> QED BY <4>1, <4>2 DEF w
      <3>4. u[z] = b[z - p]
        BY <3>1, <1>2
      <3> QED BY <2>1, <3>1, <3>3, <3>4
    <2> QED BY <2>2, <2>3
  <1>7. ASSUME NEW i \in 1 .. n, NEW j \in 1 .. n, i < j PROVE g[i] < g[j]
    <2> DEFINE z == f[i]
               w == f[j]
    <2>1. /\ z \in 1 .. p + k /\ w \in 1 .. p + k /\ z < w
          /\ g[i] = (IF z <= p THEN z ELSE z + q) /\ g[j] = IF w <= p THEN w ELSE w + q
      BY <1>3, <1>4, <1>7
    <2> HIDE DEF z, w
    <2> QED BY <2>1, <1>2
  <1>8. PlacedBy(g, s, v)
    BY <1>2, <1>5, <1>6, <1>7 DEF PlacedBy, n
  <1> QED BY <1>8 DEF PlacedIn, v

\* Nothing remains of nothing; a character more is kept or dropped.
LEMMA DroppingNone ==
    ASSUME NEW dropped
    PROVE  F!Dropping(<<>>, dropped) = <<>>
  <1> DEFINE S == {}
             s == <<>>
  <1>1. s \in Seq(S) /\ Len(s) = 0
    OBVIOUS
  <1>2. PICK r : DroppedBy(r, S, s, dropped)
    <2> HIDE DEF S, s
    <2> QED BY <1>1, DroppingSteps
  <1> QED BY <1>1, <1>2 DEF DroppedBy

\* One more element of a sequence from which some elements are dropped.
LEMMA DroppingNext ==
    ASSUME NEW S, NEW s \in Seq(S), NEW c \in S, NEW dropped
    PROVE  /\ F!Dropping(s, dropped) \in Seq(S)
           /\ F!Dropping(Append(s, c), dropped) = F!Kept(F!Dropping(s, dropped), c, dropped)
  <1> DEFINE u == Append(s, c)
             n == Len(s)
  <1>1. PICK r : DroppedBy(r, S, s, dropped)
    BY DroppingSteps
  <1>2. u \in Seq(S) /\ Len(u) = n + 1 /\ (\A i \in 1 .. n : u[i] = s[i]) /\ u[n + 1] = c /\ n \in Nat
    BY AppendProperties
  <1>3. PICK q : DroppedBy(q, S, u, dropped)
    <2> HIDE DEF u
    <2> QED BY <1>2, DroppingSteps
  <1> DEFINE T == {k \in 0 .. n : q[k] = r[k]}
  <1> HIDE DEF u, n
  <1>4. 0 \in T
    BY <1>1, <1>2, <1>3 DEF DroppedBy
  <1>5. ASSUME NEW k \in 0 .. n - 1, k \in T PROVE k + 1 \in T
    <2>1. k + 1 \in 1 .. n /\ k \in 0 .. n /\ k + 1 \in 0 .. n /\ k \in 0 .. n + 1 - 1
      BY <1>2
    <2>2. u[k + 1] = s[k + 1] /\ q[k] = r[k]
      BY <1>2, <1>5, <2>1
    <2>3. r[k + 1] = F!Kept(r[k], s[k + 1], dropped)
      BY <1>1, <1>5 DEF DroppedBy, n
    <2>4. q[k + 1] = F!Kept(q[k], u[k + 1], dropped)
      BY <1>2, <1>3, <2>1 DEF DroppedBy
    <2> QED BY <2>1, <2>2, <2>3, <2>4
  <1>6. q[n] = r[n]
    <2> HIDE DEF T
    <2>1. \A k \in 0 .. n : k \in T
      BY <1>2, <1>4, <1>5, Climb
    <2>2. n \in T
      BY <1>2, <2>1
    <2> QED BY <2>2 DEF T
  <1>7. q[n + 1] = F!Kept(q[n], u[n + 1], dropped)
    <2>1. n \in 0 .. n + 1 - 1
      BY <1>2
    <2> QED BY <2>1, <1>2, <1>3 DEF DroppedBy
  <1>8. F!Dropping(u, dropped) = q[n + 1] /\ F!Dropping(s, dropped) = r[n] /\ r[n] \in Seq(S)
    <2>1. n \in 0 .. n
      BY <1>2
    <2> QED BY <2>1, <1>1, <1>2, <1>3 DEF DroppedBy, n
  <1> QED BY <1>2, <1>6, <1>7, <1>8 DEF u

\* What read_line() has kept when it has read to i, and what a file's beginning
\* says without its carriage returns.
KeptTo(file, at, i) == F!Dropping(SubSeq(file, at + 1, i), {F!LF, F!CR})
SaidTo(file, i) == F!Dropping(SubSeq(file, 1, i), {F!CR})

\* A character more is read.
LEMMA OneMoreRead ==
    ASSUME NEW file \in Seq(F!Chars), NEW at \in Nat, NEW i \in at .. Len(file) - 1
    PROVE  /\ KeptTo(file, at, i) \in Seq(F!Chars) /\ SaidTo(file, i) \in Seq(F!Chars)
           /\ file[i + 1] \in F!Chars
           /\ KeptTo(file, at, i + 1) = F!Kept(KeptTo(file, at, i), file[i + 1], {F!LF, F!CR})
           /\ SaidTo(file, i + 1) = F!Kept(SaidTo(file, i), file[i + 1], {F!CR})
  <1>1. i \in 0 .. Len(file) - 1 /\ at + 1 \in 1 .. i + 1 /\ 1 \in 1 .. i + 1
    OBVIOUS
  <1>2. /\ SubSeq(file, at + 1, i) \in Seq(F!Chars) /\ file[i + 1] \in F!Chars
        /\ SubSeq(file, at + 1, i + 1) = Append(SubSeq(file, at + 1, i), file[i + 1])
    BY <1>1, PartAndNext
  <1>3. /\ SubSeq(file, 1, i) \in Seq(F!Chars)
        /\ SubSeq(file, 1, i + 1) = Append(SubSeq(file, 1, i), file[i + 1])
    BY <1>1, PartAndNext
  <1> DEFINE a == SubSeq(file, at + 1, i)
             b == SubSeq(file, 1, i)
             c == file[i + 1]
  <1>4. a \in Seq(F!Chars) /\ b \in Seq(F!Chars) /\ c \in F!Chars
    BY <1>2, <1>3
  <1> HIDE DEF a, b, c
  <1>5. /\ F!Dropping(a, {F!LF, F!CR}) \in Seq(F!Chars)
        /\ F!Dropping(Append(a, c), {F!LF, F!CR}) = F!Kept(F!Dropping(a, {F!LF, F!CR}), c, {F!LF, F!CR})
    BY <1>4, DroppingNext
  <1>6. /\ F!Dropping(b, {F!CR}) \in Seq(F!Chars)
        /\ F!Dropping(Append(b, c), {F!CR}) = F!Kept(F!Dropping(b, {F!CR}), c, {F!CR})
    BY <1>4, DroppingNext
  <1> QED BY <1>2, <1>3, <1>5, <1>6 DEF KeptTo, SaidTo, a, b, c

\* Until the line ends, what is kept is what the file says behind what it said.
ReadSoFar(file, at, size, i) ==
    /\ Len(KeptTo(file, at, i)) < size - 1
    /\ SaidTo(file, i) = SaidTo(file, at) \o KeptTo(file, at, i)

\* A character that is no line feed is kept, or is a carriage return.
LEMMA CharacterRead ==
    ASSUME NEW file \in Seq(F!Chars), NEW at \in Nat, NEW i \in at .. Len(file) - 1, NEW size \in Nat,
           ReadSoFar(file, at, size, i), file[i + 1] # F!LF
    PROVE  /\ Len(KeptTo(file, at, i + 1)) < size
           /\ SaidTo(file, i + 1) = SaidTo(file, at) \o KeptTo(file, at, i + 1)
  <1> DEFINE c == file[i + 1]
             k == KeptTo(file, at, i)
             d == SaidTo(file, at)
  <1>1. /\ k \in Seq(F!Chars) /\ c \in F!Chars
        /\ KeptTo(file, at, i + 1) = F!Kept(k, c, {F!LF, F!CR})
        /\ SaidTo(file, i + 1) = F!Kept(SaidTo(file, i), c, {F!CR})
    BY OneMoreRead
  <1>2. d \in Seq(F!Chars)
    <2>1. at \in at .. Len(file) - 1
      OBVIOUS
    <2> QED BY <2>1, OneMoreRead
  <1>3. Len(k) < size - 1 /\ SaidTo(file, i) = d \o k
    BY DEF ReadSoFar
  <1>4. c # F!LF
    OBVIOUS
  <1> HIDE DEF c, k, d
  <1>5. Len(k) \in Nat
    BY <1>1
  <1>6. CASE c = F!CR
    <2>1. F!Kept(k, c, {F!LF, F!CR}) = k /\ F!Kept(d \o k, c, {F!CR}) = d \o k
      BY <1>6 DEF F!Kept
    <2>2. Len(k) < size
      BY <1>3, <1>5
    <2> QED BY <2>1, <2>2, <1>1, <1>3 DEF d
  <1>7. CASE c # F!CR
    <2>1. F!Kept(k, c, {F!LF, F!CR}) = Append(k, c) /\ F!Kept(d \o k, c, {F!CR}) = Append(d \o k, c)
      BY <1>4, <1>7 DEF F!Kept
    <2>2. Append(d \o k, c) = d \o Append(k, c) /\ Len(Append(k, c)) = Len(k) + 1
      <3>1. d \in Seq(F!Chars) /\ k \in Seq(F!Chars) /\ c \in F!Chars
        BY <1>1, <1>2
      <3>2. Extends(F!Chars, d, k, c)
        BY <3>1, AppendJoined
      <3> QED BY <3>2 DEF Extends
    <2>3. Len(k) + 1 < size
      BY <1>3, <1>5
    <2> QED BY <1>1, <1>3, <2>1, <2>2, <2>3 DEF d
  <1> QED BY <1>6, <1>7

\* A line as read_line() answers it.
LineIs(r, file, at, size) ==
    /\ r.at \in at + 1 .. Len(file)
    /\ r.text \in Seq(F!Chars) /\ Len(r.text) < size
    /\ r.ended \in BOOLEAN
    /\ ~r.ended => Len(r.text) = size - 1 \/ r.at = Len(file)
    /\ SaidTo(file, r.at) = SaidTo(file, at) \o (r.text \o F!Copies(IF r.ended THEN 1 ELSE 0, F!LF))

\* read_line(): the text is what lies up to the line feed, the room or the end.
LEMMA LineRead ==
    ASSUME NEW file \in Seq(F!Chars), NEW at \in Nat, at < Len(file), NEW size \in Nat, size > 1
    PROVE  LineIs(F!LineFrom(file, at, size), file, at, size)
  <1> DEFINE stops == {i \in at + 1 .. Len(file) : file[i] = F!LF \/ Len(KeptTo(file, at, i)) = size - 1}
             last == IF stops = {} THEN Len(file) ELSE F!Min(stops)
             r == F!LineFrom(file, at, size)
             before == last - 1
             sized == IF size <= 1 THEN at ELSE last
  <1> SUFFICES LineIs(r, file, at, size)
    OBVIOUS
  <1>1. r = [text |-> KeptTo(file, at, last), ended |-> last > at /\ file[last] = F!LF, at |-> last]
    <2>1. r = [text |-> KeptTo(file, at, sized), ended |-> sized > at /\ file[sized] = F!LF, at |-> sized]
      BY DEF F!LineFrom, KeptTo
    <2>2. sized = last
      <3> HIDE DEF last
      <3> QED OBVIOUS
    <2> HIDE DEF sized
    <2> QED BY <2>1, <2>2
  <1>2. /\ last \in at + 1 .. Len(file)
        /\ \A i \in at + 1 .. last - 1 : i \notin stops
        /\ last \in stops \/ last = Len(file)
    <2>1. CASE stops = {}
      BY <2>1
    <2>2. CASE stops # {}
      <3>1. stops \in SUBSET Nat
        OBVIOUS
      <3>2. \E x \in stops : \A y \in stops : x <= y
        <4> HIDE DEF stops
        <4> QED BY <2>2, <3>1, LeastNumber
      <3>3. F!Min(stops) \in stops /\ \A y \in stops : F!Min(stops) <= y
        <4> HIDE DEF stops
        <4> QED BY <3>2 DEF F!Min
      <3>4. last = F!Min(stops)
        BY <2>2
      <3> HIDE DEF last
      <3>5. last \in at + 1 .. Len(file) /\ \A y \in stops : last <= y
        BY <3>3, <3>4
      <3>6. \A i \in at + 1 .. last - 1 : i \notin stops
        <4> HIDE DEF stops
        <4>1. \A i \in at + 1 .. last - 1 : ~(last <= i)
          BY <3>5
        <4> QED BY <3>5, <4>1
      <3>7. last \in stops
        <4> HIDE DEF stops
        <4> QED BY <3>3, <3>4
      <3> HIDE DEF stops
      <3> QED BY <3>5, <3>6, <3>7
    <2> QED BY <2>1, <2>2
  <1>3. \A i \in at + 1 .. last - 1 : file[i] # F!LF /\ Len(KeptTo(file, at, i)) # size - 1
    <2>1. \A i \in at + 1 .. last - 1 : i \in at + 1 .. Len(file)
      <3> HIDE DEF last
      <3> QED BY <1>2
    <2> QED BY <1>2, <2>1
  <1>4. last \in stops => file[last] = F!LF \/ Len(KeptTo(file, at, last)) = size - 1
    OBVIOUS
  <1> HIDE DEF stops, last, r
  <1>5. before \in at .. Len(file) - 1 /\ before + 1 = last
    BY <1>2
  <1>6. ReadSoFar(file, at, size, before)
    <2> DEFINE n == before - at
               T == {d \in 0 .. n : ReadSoFar(file, at, size, at + d)}
    <2>1. n \in Nat /\ at + n = before
      BY <1>5
    <2>2. 0 \in T
      <3>1. KeptTo(file, at, at) = <<>>
        <4>1. SubSeq(file, at + 1, at) = <<>>
          BY SubSeqEmpty
        <4> QED BY <4>1, DroppingNone DEF KeptTo
      <3>2. SaidTo(file, at) \in Seq(F!Chars)
        <4>1. at \in at .. Len(file) - 1
          BY <1>5
        <4> QED BY <4>1, OneMoreRead
      <3>3. SaidTo(file, at) = SaidTo(file, at) \o <<>>
        BY <3>2, ConcatEmptySeq
      <3>4. at + 0 = at /\ 0 < size - 1 /\ Len(<<>>) = 0
        OBVIOUS
      <3>5. ReadSoFar(file, at, size, at)
        BY <3>1, <3>3, <3>4 DEF ReadSoFar
      <3> QED BY <3>4, <3>5, <2>1
    <2>3. ASSUME NEW d \in 0 .. n - 1, d \in T PROVE d + 1 \in T
      <3> DEFINE i == at + d
      <3>1. /\ i \in at .. Len(file) - 1 /\ i + 1 \in at + 1 .. last - 1 /\ at + (d + 1) = i + 1 /\ d + 1 \in 0 .. n
            /\ i + 1 \in at .. Len(file) - 1
        BY <2>1, <1>5
      <3>2. ReadSoFar(file, at, size, i)
        BY <2>3
      <3> HIDE DEF i
      <3>3. /\ Len(KeptTo(file, at, i + 1)) < size
            /\ SaidTo(file, i + 1) = SaidTo(file, at) \o KeptTo(file, at, i + 1)
        <4>1. file[i + 1] # F!LF
          BY <3>1, <1>3
        <4> QED BY <3>1, <3>2, <4>1, CharacterRead
      <3>4. Len(KeptTo(file, at, i + 1)) \in Nat
        <4>1. KeptTo(file, at, i + 1) \in Seq(F!Chars)
          BY <3>1, OneMoreRead
        <4> QED BY <4>1
      <3>5. Len(KeptTo(file, at, i + 1)) # size - 1
        BY <3>1, <1>3
      <3>6. ReadSoFar(file, at, size, i + 1)
        BY <3>3, <3>4, <3>5 DEF ReadSoFar
      <3> QED BY <3>1, <3>6
    <2>4. n \in T
      <3> HIDE DEF n, T
      <3>1. \A d \in 0 .. n : d \in T
        BY <2>1, <2>2, <2>3, Climb
      <3> QED BY <3>1, <2>1
    <2> QED BY <2>1, <2>4
  <1> DEFINE k == KeptTo(file, at, before)
             c == file[last]
             d == SaidTo(file, at)
  <1>7. /\ k \in Seq(F!Chars) /\ c \in F!Chars
        /\ KeptTo(file, at, last) = F!Kept(k, c, {F!LF, F!CR})
        /\ SaidTo(file, last) = F!Kept(SaidTo(file, before), c, {F!CR})
    BY <1>5, OneMoreRead
  <1>8. d \in Seq(F!Chars)
    <2>1. at \in at .. Len(file) - 1
      BY <1>5
    <2> QED BY <2>1, OneMoreRead
  <1>9. r.text = KeptTo(file, at, last) /\ r.at = last /\ r.ended \in BOOLEAN /\ (r.ended <=> c = F!LF)
    <2>1. r.text = KeptTo(file, at, last) /\ r.at = last
      BY <1>1
    <2>2. r.ended <=> (last > at /\ file[last] = F!LF)
      BY <1>1
    <2>3. last > at
      BY <1>2
    <2>4. r.ended \in BOOLEAN
      BY <1>1
    <2> QED BY <2>1, <2>2, <2>3, <2>4
  <1>10. r.text \in Seq(F!Chars)
    BY <1>7, <1>9 DEF F!Kept
  <1>11. CASE c = F!LF
    <2>1. r.text = k /\ SaidTo(file, last) = Append(d \o k, c)
      <3>1. F!Kept(k, c, {F!LF, F!CR}) = k /\ F!Kept(d \o k, c, {F!CR}) = Append(d \o k, c)
        BY <1>11 DEF F!Kept, F!LF, F!CR
      <3>2. SaidTo(file, before) = d \o k
        BY <1>6 DEF ReadSoFar
      <3> QED BY <3>1, <3>2, <1>7, <1>9
    <2>2. Len(k) < size
      <3>1. Len(k) < size - 1 /\ Len(k) \in Nat
        BY <1>6, <1>7 DEF ReadSoFar
      <3> QED BY <3>1
    <2>3. F!Copies(1, F!LF) = <<F!LF>>
      BY DEF F!Copies
    <2>4. Append(d \o k, c) = d \o (k \o <<c>>)
      <3> HIDE DEF d, k, c
      <3>1. Append(d \o k, c) = d \o Append(k, c) /\ Append(k, c) = k \o <<c>>
        <4>1. d \in Seq(F!Chars) /\ k \in Seq(F!Chars) /\ c \in F!Chars
          BY <1>7, <1>8
        <4>2. Extends(F!Chars, d, k, c)
          BY <4>1, AppendJoined
        <4> QED BY <4>2 DEF Extends
      <3> QED BY <3>1
    <2>5. r.ended
      BY <1>9, <1>11
    <2> HIDE DEF k, d, c
    <2>6. SaidTo(file, last) = d \o (r.text \o F!Copies(IF r.ended THEN 1 ELSE 0, F!LF))
      BY <2>1, <2>3, <2>4, <2>5, <1>11
    <2> QED BY <2>1, <2>2, <2>5, <2>6, <1>2, <1>9, <1>10 DEF LineIs, d
  <1>12. CASE c # F!LF
    <2>1. Len(KeptTo(file, at, last)) < size /\ SaidTo(file, last) = d \o KeptTo(file, at, last)
      <3>1. file[before + 1] # F!LF
        BY <1>5, <1>12
      <3>2. /\ Len(KeptTo(file, at, before + 1)) < size
            /\ SaidTo(file, before + 1) = d \o KeptTo(file, at, before + 1)
        <4> HIDE DEF before
        <4> QED BY <1>5, <1>6, <3>1, CharacterRead
      <3> QED BY <1>5, <3>2
    <2>2. F!Copies(0, F!LF) = <<>>
      BY DEF F!Copies
    <2>3. ~r.ended
      BY <1>9, <1>12
    <2>4. r.text \o <<>> = r.text
      BY <1>10, ConcatEmptySeq
    <2>5. Len(r.text) = size - 1 \/ r.at = Len(file)
      BY <1>2, <1>4, <1>9, <1>12
    <2> HIDE DEF d
    <2>6. SaidTo(file, last) = d \o (r.text \o F!Copies(IF r.ended THEN 1 ELSE 0, F!LF))
      BY <2>1, <2>2, <2>3, <2>4, <1>9
    <2> QED BY <2>1, <2>3, <2>5, <2>6, <1>2, <1>9, <1>10 DEF LineIs, d
  <1> QED BY <1>11, <1>12

Modes == {F!NoFile, "read", "trunc", "append", "update"}
FileType == Seq(F!Chars) \cup {F!Absent}
WriterType == [open : BOOLEAN, buf : Seq(F!Chars), live : BOOLEAN]
ReaderType == [at : Nat, size : {2, 3}]
LineType == [text : Seq(F!Chars), ended : BOOLEAN]

\* How many of the handles f are open.
OpenOf(f) == {h \in Wrappers : F!IsOpen(f[h])}
OpenCount(f) == Cardinality(OpenOf(f))

\* A writer w on a file that was b when it came, and took g.
WriterIs(w, file, b, g, sh) ==
    /\ w \in WriterType /\ file \in FileType
    /\ b \in Seq(F!Chars) /\ g \in Seq(F!Chars) /\ sh \in BOOLEAN
    /\ w.open => /\ file \in Seq(F!Chars)
                 /\ F!IsPrefix(b, file)
                 /\ PlacedIn(b \o g, file \o w.buf)
                 /\ sh \/ file \o w.buf = b \o g

\* What the lines ls say with their ends.
LinesSay(ls) == [i \in DOMAIN ls |-> ls[i].text \o F!Copies(IF ls[i].ended THEN 1 ELSE 0, F!LF)]
\* A reader r that answered the lines ls from file.
ReaderIs(r, ls, file) ==
    /\ r \in ReaderType /\ file \in Seq(F!Chars) /\ r.at <= Len(file)
    /\ ls \in Seq(LineType)
    /\ F!FlattenSeq(LinesSay(ls)) = SaidTo(file, r.at)
    /\ \A i \in DOMAIN ls :
          /\ Len(ls[i].text) < r.size
          /\ ~ls[i].ended => Len(ls[i].text) = r.size - 1 \/ r.at = Len(file)

\* The inductive invariant.
FInv ==
    /\ handle \in [Wrappers -> Modes] /\ streams = OpenCount(handle)
    /\ WriterIs(writer, content, base, given, short)
    /\ writer.live => reader = F!NoReader
    /\ reader # F!NoReader => ReaderIs(reader, lines, content)

\* A handle that comes to hold the mode m.
ModeTaken(f, h, m) ==
    /\ [f EXCEPT ![h] = m] \in [Wrappers -> Modes]
    /\ OpenCount(f) \in Nat
    /\ OpenCount([f EXCEPT ![h] = m]) = OpenCount(f) - F!One(f[h]) + F!One(m)

\* A handle that changes its mode changes the number of open streams by its own.
LEMMA OpenChanged ==
    ASSUME NEW f \in [Wrappers -> Modes], NEW h \in Wrappers, NEW m \in Modes
    PROVE  ModeTaken(f, h, m)
  <1> DEFINE g == [f EXCEPT ![h] = m]
             Fs == OpenOf(f)
             R == Fs \ {h}
  <1>1. IsFiniteSet(Fs) /\ IsFiniteSet(R) /\ Cardinality(Fs) \in Nat /\ Cardinality(R) \in Nat
    <2>1. IsFiniteSet(Fs)
      BY FilesAssumption, FS_Subset DEF OpenOf
    <2> QED BY <2>1, FS_RemoveElement, FS_CardinalityType
  <1>2. h \in Fs <=> F!IsOpen(f[h])
    BY DEF OpenOf
  <1>3. Cardinality(Fs) = Cardinality(R) + F!One(f[h])
    <2>1. Cardinality(R) = IF h \in Fs THEN Cardinality(Fs) - 1 ELSE Cardinality(Fs)
      BY <1>1, FS_RemoveElement
    <2> QED BY <1>1, <1>2, <2>1 DEF F!One
  <1>4. OpenOf(g) = IF F!IsOpen(m) THEN R \cup {h} ELSE R
    BY DEF OpenOf
  <1>5. Cardinality(OpenOf(g)) = Cardinality(R) + F!One(m)
    <2>1. Cardinality(R \cup {h}) = Cardinality(R) + 1
      BY <1>1, FS_AddElement
    <2> HIDE DEF R, g
    <2> QED BY <1>1, <1>4, <2>1 DEF F!One
  <1>6. F!One(m) \in Nat /\ F!One(f[h]) \in Nat
    BY DEF F!One
  <1> HIDE DEF Fs, R
  <1> QED BY <1>1, <1>3, <1>5, <1>6 DEF OpenCount, Fs, ModeTaken

\* What fopen() leaves of the file.
LEMMA FileAfter ==
    ASSUME NEW mode \in Modes, content \in FileType
    PROVE  F!ContentAfter(mode) \in FileType /\ (F!Opens(mode) => F!ContentAfter(mode) \in Seq(F!Chars))
           /\ (mode \in {"trunc", "append"} => F!ContentAfter(mode) \in Seq(F!Chars) /\ F!Opens(mode))
  BY DEF F!ContentAfter, F!Opens, F!Held, F!Exists, FileType

\* A sequence stays a beginning when more comes.
LEMMA PrefixMore ==
    ASSUME NEW S, NEW s \in Seq(S), NEW t \in Seq(S), NEW x \in Seq(S), F!IsPrefix(s, t)
    PROVE  F!IsPrefix(s, t \o x)
  <1>1. Len(s) <= Len(t) /\ SubSeq(s, 1, Len(s)) = SubSeq(t, 1, Len(s))
    BY DEF F!IsPrefix
  <1>2. Len(t \o x) = Len(t) + Len(x) /\ Len(s) \in Nat /\ Len(t) \in Nat /\ Len(x) \in Nat
    OBVIOUS
  <1>3. SubSeq(t \o x, 1, Len(s)) = SubSeq(t, 1, Len(s))
    <2>1. CASE Len(s) = 0
      BY <2>1, SubSeqEmpty
    <2>2. CASE Len(s) # 0
      <3>1. 1 \in 1 .. Len(t) /\ Len(s) \in 1 .. Len(t)
        BY <2>2, <1>1, <1>2
      <3> QED BY <3>1, SubSeqOfConcat1
    <2> QED BY <2>1, <2>2
  <1> QED BY <1>1, <1>2, <1>3 DEF F!IsPrefix

\* flush(), whatever part of the array the file takes.
LEMMA FlushKeeps ==
    ASSUME NEW w, NEW file, NEW b, NEW g, NEW sh, WriterIs(w, file, b, g, sh),
           NEW r \in F!Flushes(w, file)
    PROVE  WriterIs(r.writer, r.content, b, g, sh \/ ~r.ok) /\ (r.writer.live <=> w.live)
  <1> USE DEF WriterIs
  <1>1. CASE w.buf = <<>>
    <2>1. r = [writer |-> w, content |-> file, ok |-> TRUE]
      BY <1>1 DEF F!Flushes
    <2> QED BY <2>1
  <1>2. CASE w.buf # <<>> /\ ~w.open
    <2>1. r = [writer |-> w, content |-> file, ok |-> FALSE]
      BY <1>2 DEF F!Flushes
    <2> QED BY <2>1, <1>2
  <1>3. CASE w.buf # <<>> /\ w.open
    <2> DEFINE a == w.buf
               e == [w EXCEPT !.buf = <<>>]
    <2>1. /\ file \in Seq(F!Chars) /\ a \in Seq(F!Chars) /\ b \o g \in Seq(F!Chars)
          /\ F!IsPrefix(b, file) /\ PlacedIn(b \o g, file \o a) /\ (sh \/ file \o a = b \o g)
      BY <1>3, ConcatProperties DEF WriterType
    <2>2. r = F!FlushDone(w, file) \/ r \in F!FlushFailed(w, file)
      BY <1>3 DEF F!Flushes
    <2>3. CASE r = F!FlushDone(w, file)
      <3>1. r.writer = e /\ r.content = file \o a /\ r.ok = TRUE
        BY <2>3 DEF F!FlushDone
      <3>2. e \in WriterType /\ e.buf = <<>> /\ (e.live <=> w.live)
        <4>1. w \in WriterType /\ <<>> \in Seq(F!Chars)
          OBVIOUS
        <4>2. e.buf = <<>> /\ (e.live <=> w.live)
          BY <4>1 DEF WriterType
        <4>3. e \in WriterType
          BY <4>1, Zenon DEF WriterType
        <4> QED BY <4>2, <4>3
      <3>3. file \o a \in Seq(F!Chars) /\ (file \o a) \o <<>> = file \o a
        BY <2>1, ConcatProperties, ConcatEmptySeq
      <3>4. F!IsPrefix(b, file \o a)
        <4> HIDE DEF a
        <4> QED BY <2>1, PrefixMore
      <3> HIDE DEF a, e
      <3> QED BY <2>1, <3>1, <3>2, <3>3, <3>4 DEF FileType
    <2>4. CASE r \in F!FlushFailed(w, file)
      <3>1. PICK k \in 0 .. Len(a) - 1 :
               r = [writer |-> w, content |-> file \o SubSeq(a, 1, k), ok |-> FALSE]
        BY <2>4 DEF F!FlushFailed
      <3> DEFINE x == SubSeq(a, 1, k)
      <3>2. x \in Seq(F!Chars)
        <4>1. k \in Int /\ \A i \in 1 .. k : a[i] \in F!Chars
          BY <2>1
        <4> HIDE DEF a
        <4> QED BY <4>1, SubSeqProperties
      <3> HIDE DEF x
      <3>3. file \o x \in Seq(F!Chars) /\ F!IsPrefix(b, file \o x)
        BY <2>1, <3>2, ConcatProperties, PrefixMore
      <3>4. PlacedIn(b \o g, (file \o x) \o a)
        <4> DEFINE s == b \o g
        <4>1. s \in Seq(F!Chars) /\ PlacedIn(s, file \o a)
          BY <2>1
        <4> HIDE DEF s, a
        <4>2. PlacedIn(s, (file \o x) \o a)
          BY <4>1, <2>1, <3>2, PlacedInsert
        <4> QED BY <4>2 DEF s
      <3> QED BY <3>1, <3>3, <3>4 DEF FileType, x
    <2> QED BY <2>2, <2>3, <2>4
  <1> QED BY <1>1, <1>2, <1>3

\* write() puts a byte into the array.
LEMMA ByteTaken ==
    ASSUME NEW w, NEW file, NEW b, NEW g, NEW sh, WriterIs(w, file, b, g, sh), NEW c \in F!Chars
    PROVE  WriterIs([w EXCEPT !.buf = Append(@, c)], file, b, Append(g, c), sh)
  <1> DEFINE v == [w EXCEPT !.buf = Append(@, c)]
             a == w.buf
  <1>1. /\ w \in WriterType /\ a \in Seq(F!Chars) /\ b \in Seq(F!Chars) /\ g \in Seq(F!Chars) /\ sh \in BOOLEAN
        /\ file \in FileType
    BY DEF WriterIs, WriterType
  <1>2. v \in WriterType /\ v.buf = Append(a, c) /\ (v.open <=> w.open)
    <2>1. Append(a, c) \in Seq(F!Chars)
      BY <1>1, AppendProperties
    <2> QED BY <1>1, <2>1 DEF WriterType
  <1>3. Append(g, c) \in Seq(F!Chars)
    BY <1>1, AppendProperties
  <1>4. ASSUME w.open
        PROVE  /\ file \in Seq(F!Chars) /\ F!IsPrefix(b, file)
               /\ PlacedIn(b \o Append(g, c), file \o Append(a, c))
               /\ sh \/ file \o Append(a, c) = b \o Append(g, c)
    <2> DEFINE s == b \o g
               t == file \o a
    <2>1. file \in Seq(F!Chars) /\ F!IsPrefix(b, file) /\ PlacedIn(s, t) /\ (sh \/ t = s)
      BY <1>4 DEF WriterIs
    <2>2. s \in Seq(F!Chars) /\ t \in Seq(F!Chars)
      BY <1>1, <2>1, ConcatProperties
    <2>3. Append(s, c) = b \o Append(g, c)
      <3>1. Extends(F!Chars, b, g, c)
        BY <1>1, AppendJoined
      <3> QED BY <3>1 DEF Extends
    <2>4. Append(t, c) = file \o Append(a, c)
      <3>1. Extends(F!Chars, file, a, c)
        <4> HIDE DEF a
        <4> QED BY <1>1, <2>1, AppendJoined
      <3> QED BY <3>1 DEF Extends
    <2> HIDE DEF s, t, a
    <2>5. PlacedIn(Append(s, c), Append(t, c))
      BY <2>1, <2>2, PlacedAppend
    <2> QED BY <2>1, <2>3, <2>4, <2>5
  <1> HIDE DEF v, a
  <1>5. WriterIs(v, file, b, Append(g, c), sh)
    BY <1>1, <1>2, <1>3, <1>4 DEF WriterIs
  <1> QED BY <1>5 DEF v

\* Where nobody uses the file, it and its handles may change.
LEMMA HandlesChange ==
    ASSUME FInv, F!Quiet, UNCHANGED F!Others, content' \in FileType,
           handle' \in [Wrappers -> Modes], streams' = OpenCount(handle')
    PROVE  FInv'
  <1>1. writer' = F!NoWriter /\ reader' = F!NoReader
    BY DEF F!Quiet, F!Others
  <1>2. WriterIs(writer', content', base', given', short')
    BY <1>1 DEF FInv, WriterIs, F!Others, F!NoWriter, WriterType, F!Quiet
  <1> QED BY <1>1, <1>2 DEF FInv

\* Files before and after.
LEMMA FilesInit == F!Init => FInv
  <1> SUFFICES ASSUME F!Init PROVE FInv
    OBVIOUS
  <1>1. handle \in [Wrappers -> Modes] /\ streams = OpenCount(handle)
    <2>1. OpenOf(handle) = {}
      BY DEF F!Init, OpenOf, F!IsOpen
    <2> QED BY <2>1, FS_EmptySet DEF F!Init, Modes, OpenCount
  <1>2. WriterIs(writer, content, base, given, short)
    <2>1. writer \in WriterType /\ ~writer.open
      BY DEF F!Init, F!NoWriter, WriterType
    <2>2. content \in FileType
      <3>1. <<>> \in Seq(F!Chars) /\ <<F!Letter>> \in Seq(F!Chars)
        BY DEF F!Chars
      <3> QED BY <3>1 DEF F!Init, FileType
    <2>3. base \in Seq(F!Chars) /\ given \in Seq(F!Chars) /\ short \in BOOLEAN
      <3>1. base = <<>> /\ given = <<>> /\ short = FALSE
        BY DEF F!Init
      <3>2. <<>> \in Seq(F!Chars)
        OBVIOUS
      <3> QED BY <3>1, <3>2
    <2> QED BY <2>1, <2>2, <2>3 DEF WriterIs
  <1> QED BY <1>1, <1>2 DEF FInv, F!Init

\* The handles, and the functions on a whole file.
LEMMA HandleSteps ==
    ASSUME FInv, (\E h \in Wrappers : \/ \E mode \in {"read", "trunc", "append", "update"} : F!Open(h, mode)
                                      \/ F!Close(h)
                                      \/ \E g \in Wrappers : F!Move(h, g))
    PROVE  FInv'
  <1>1. /\ handle \in [Wrappers -> Modes] /\ streams = OpenCount(handle) /\ content \in FileType
        /\ F!NoFile \in Modes /\ F!One(F!NoFile) = 0
    BY DEF FInv, WriterIs, Modes, F!One, F!IsOpen
  <1>2. ASSUME NEW h \in Wrappers, NEW mode \in {"read", "trunc", "append", "update"}, F!Open(h, mode) PROVE FInv'
    <2>1. F!Opened(mode) \in Modes /\ mode \in Modes
      BY DEF F!Opened, Modes
    <2>2. content' \in FileType
      BY <1>1, <1>2, <2>1, FileAfter DEF F!Open
    <2>3. handle' \in [Wrappers -> Modes] /\ streams' = OpenCount(handle')
      <3> DEFINE m == F!Opened(mode)
      <3>1. handle' = [handle EXCEPT ![h] = m] /\ streams' = streams - F!One(handle[h]) + F!One(m)
        BY <1>2 DEF F!Open
      <3> HIDE DEF m
      <3>2. m \in Modes
        BY <2>1 DEF m
      <3>3. ModeTaken(handle, h, m)
        BY <1>1, <3>2, OpenChanged
      <3> QED BY <1>1, <3>1, <3>3 DEF ModeTaken
    <2> QED BY <1>2, <2>2, <2>3, HandlesChange DEF F!Open
  <1>3. ASSUME NEW h \in Wrappers, F!Close(h) PROVE FInv'
    <2>1. handle' \in [Wrappers -> Modes] /\ streams' = OpenCount(handle')
      <3>1. /\ [handle EXCEPT ![h] = F!NoFile] \in [Wrappers -> Modes]
            /\ OpenCount([handle EXCEPT ![h] = F!NoFile]) = OpenCount(handle) - F!One(handle[h]) + F!One(F!NoFile)
            /\ OpenCount(handle) \in Nat
        BY <1>1, OpenChanged DEF ModeTaken
      <3>2. F!One(handle[h]) = 1
        BY <1>3 DEF F!Close, F!One
      <3> QED BY <1>1, <1>3, <3>1, <3>2 DEF F!Close
    <2>2. content' \in FileType
      BY <1>1, <1>3 DEF F!Close
    <2> QED BY <1>3, <2>1, <2>2, HandlesChange DEF F!Close
  <1>4. ASSUME NEW h \in Wrappers, NEW g \in Wrappers, F!Move(h, g) PROVE FInv'
    <2> DEFINE f == [handle EXCEPT ![h] = handle[g]]
    <2>1. f \in [Wrappers -> Modes] /\ OpenCount(f) = OpenCount(handle) - F!One(handle[h]) + F!One(handle[g])
          /\ OpenCount(handle) \in Nat
      <3>1. ModeTaken(handle, h, handle[g])
        BY <1>1, OpenChanged
      <3> QED BY <3>1 DEF ModeTaken
    <2>2. handle' = [f EXCEPT ![g] = F!NoFile] /\ f[g] = handle[g] /\ streams' = streams - F!One(handle[h])
      BY <1>1, <1>4 DEF F!Move
    <2> HIDE DEF f
    <2>3. [f EXCEPT ![g] = F!NoFile] \in [Wrappers -> Modes]
          /\ OpenCount([f EXCEPT ![g] = F!NoFile]) = OpenCount(f) - F!One(f[g]) + F!One(F!NoFile)
      <3>1. ModeTaken(f, g, F!NoFile)
        BY <1>1, <2>1, OpenChanged
      <3> QED BY <3>1 DEF ModeTaken
    <2>4. F!One(handle[h]) \in Nat /\ F!One(handle[g]) \in Nat
      BY DEF F!One
    <2>5. content' \in FileType
      BY <1>1, <1>4 DEF F!Move
    <2>6. handle' \in [Wrappers -> Modes] /\ streams' = OpenCount(handle')
      BY <1>1, <2>1, <2>2, <2>3, <2>4
    <2> QED BY <1>4, <2>5, <2>6, HandlesChange DEF F!Move
  <1> QED BY <1>2, <1>3, <1>4

\* write_all() opens, writes and closes a stream of its own.
LEMMA WriteAllStep ==
    ASSUME FInv, NEW mode \in {"trunc", "append"}, F!WriteAll(mode)
    PROVE  FInv'
  <1>1. mode \in Modes /\ content \in FileType
    BY DEF Modes, FInv, WriterIs
  <1>2. PICK n \in 0 .. 2, k \in 0 .. 2, c \in F!Chars :
            content' = SubSeq(F!ContentAfter(mode) \o F!Copies(n, c), 1, Len(F!ContentAfter(mode)) + F!Min({n, k}))
    BY DEF F!WriteAll
  <1> DEFINE a == F!ContentAfter(mode)
             x == F!Copies(n, c)
             m == F!Min({n, k})
  <1>3. a \in Seq(F!Chars)
    BY <1>1, FileAfter
  <1>4. x \in Seq(F!Chars) /\ Len(x) = n
    BY DEF F!Copies
  <1>5. m \in 0 .. n
    <2>1. \E y \in {n, k} : \A z \in {n, k} : y <= z
      OBVIOUS
    <2> QED BY <2>1 DEF F!Min
  <1> HIDE DEF a, x, m
  <1>6. a \o x \in Seq(F!Chars) /\ Len(a \o x) = Len(a) + n /\ Len(a) \in Nat
    BY <1>3, <1>4, ConcatProperties
  <1>7. SubSeq(a \o x, 1, Len(a) + m) \in Seq(F!Chars)
    <2> DEFINE y == a \o x
               l == Len(a) + m
    <2>1. y \in Seq(F!Chars) /\ Len(y) = Len(a) + n
      BY <1>6
    <2>2. l \in Int /\ l <= Len(y)
      BY <1>5, <1>6
    <2> HIDE DEF y, l
    <2>3. \A i \in 1 .. l : y[i] \in F!Chars
      BY <2>1, <2>2
    <2>4. SubSeq(y, 1, l) \in Seq(F!Chars)
      BY <2>2, <2>3, SubSeqProperties
    <2> QED BY <2>4 DEF y, l
  <1>8. content' \in FileType
    BY <1>2, <1>7 DEF FileType, a, x, m
  <1>9. handle' \in [Wrappers -> Modes] /\ streams' = OpenCount(handle')
    BY DEF F!WriteAll, FInv
  <1> QED BY <1>8, <1>9, HandlesChange DEF F!WriteAll

\* The writer's steps leave the handles, and no reader is there.
LEMMA WriterChanges ==
    ASSUME FInv, reader = F!NoReader, UNCHANGED <<handle, streams, reader>>,
           WriterIs(writer', content', base', given', short')
    PROVE  FInv'
  BY DEF FInv

\* A file_writer opens its file; what is there is the base it writes behind.
LEMMA OpenWriterStep ==
    ASSUME FInv, NEW mode \in {"trunc", "append", "update"}, F!OpenWriter(mode)
    PROVE  FInv'
  <1>1. mode \in Modes /\ content \in FileType
    BY DEF Modes, FInv, WriterIs
  <1> DEFINE a == F!ContentAfter(mode)
             w == [open |-> F!Opens(mode), buf |-> <<>>, live |-> TRUE]
  <1>2. a \in FileType /\ (F!Opens(mode) => a \in Seq(F!Chars))
    BY <1>1, FileAfter
  <1>3. /\ writer' = w /\ content' = a /\ base' = (IF F!Opens(mode) THEN a ELSE <<>>) /\ given' = <<>> /\ short' = FALSE
        /\ UNCHANGED <<handle, streams, reader>> /\ reader = F!NoReader
    BY DEF F!OpenWriter, F!Quiet
  <1>4. w \in WriterType /\ (w.open <=> F!Opens(mode)) /\ w.buf = <<>> /\ <<>> \in Seq(F!Chars)
    <2>1. F!Opens(mode) \in BOOLEAN
      BY DEF F!Opens, F!Exists
    <2>2. <<>> \in Seq(F!Chars)
      OBVIOUS
    <2>3. w \in WriterType
      <3> HIDE DEF w
      <3>1. w = [open |-> F!Opens(mode), buf |-> <<>>, live |-> TRUE]
        BY DEF w
      <3> QED BY <2>1, <2>2, <3>1, Zenon DEF WriterType
    <2> QED BY <2>2, <2>3
  <1> HIDE DEF a, w
  <1>5. WriterIs(w, a, IF F!Opens(mode) THEN a ELSE <<>>, <<>>, FALSE)
    <2>1. CASE ~F!Opens(mode)
      BY <2>1, <1>2, <1>4 DEF WriterIs
    <2>2. CASE F!Opens(mode)
      <3>1. a \in Seq(F!Chars) /\ a \o <<>> = a /\ Len(a) \in Nat
        BY <1>2, <2>2, ConcatEmptySeq
      <3>2. F!IsPrefix(a, a)
        BY <3>1 DEF F!IsPrefix
      <3>3. PlacedIn(a, a)
        BY <3>1, PlacedSelf
      <3> QED BY <3>1, <3>2, <3>3, <1>2, <1>4, <2>2 DEF WriterIs
    <2> QED BY <2>1, <2>2
  <1> QED BY <1>3, <1>5, WriterChanges

\* A flush that the writer goes on after.
LEMMA FlushContinues ==
    ASSUME FInv, writer.live, NEW w, NEW file, NEW g, NEW q \in F!Flushes(w, file),
           WriterIs(w, file, base, g, short), F!Continue(q), given' = g
    PROVE  FInv'
  <1>1. WriterIs(q.writer, q.content, base, g, short \/ ~q.ok)
    BY FlushKeeps
  <1>2. WriterIs(writer', content', base', given', short') /\ UNCHANGED <<handle, streams, reader>>
    BY <1>1 DEF F!Continue, F!Finish
  <1> QED BY <1>2, WriterChanges DEF FInv

\* write(): into the array, or through it when it does not fit.
LEMMA WriterWriteStep ==
    ASSUME FInv, F!WriterWrite
    PROVE  FInv'
  <1>1. writer.live /\ WriterIs(writer, content, base, given, short) /\ reader = F!NoReader
    BY DEF F!WriterWrite, FInv
  <1> DEFINE asIs == [writer |-> writer, content |-> content, ok |-> TRUE]
             full == Len(writer.buf) >= FLUSH_SIZE
  <1>2. PICK c \in {F!LF, F!Letter}, r \in IF full THEN F!Flushes(writer, content) ELSE {asIs} :
            LET w == [r.writer EXCEPT !.buf = Append(@, c)]
            IN  IF ~r.ok THEN F!Continue(r) /\ UNCHANGED given
                ELSE /\ given' = Append(given, c)
                     /\ IF Len(w.buf) >= FLUSH_SIZE THEN \E q \in F!Flushes(w, r.content) : F!Continue(q)
                        ELSE F!Continue([writer |-> w, content |-> r.content, ok |-> TRUE])
    BY DEF F!WriterWrite
  <1> DEFINE w == [r.writer EXCEPT !.buf = Append(@, c)]
             g == Append(given, c)
  <1>3. WriterIs(r.writer, r.content, base, given, short \/ ~r.ok)
    <2>1. CASE full
      BY <1>1, <1>2, <2>1, FlushKeeps
    <2>2. CASE ~full
      <3>1. r = asIs
        BY <1>2, <2>2
      <3>2. r.writer = writer /\ r.content = content /\ r.ok
        BY <3>1
      <3> HIDE DEF asIs
      <3> QED BY <1>1, <3>2 DEF WriterIs
    <2> QED BY <2>1, <2>2
  <1>4. c \in F!Chars
    BY DEF F!Chars
  <1> HIDE DEF full, asIs
  <1>5. CASE ~r.ok
    <2>1. F!Continue(r) /\ given' = given
      BY <1>2, <1>5
    <2>2. WriterIs(writer', content', base', given', short') /\ UNCHANGED <<handle, streams, reader>>
      BY <1>3, <2>1 DEF F!Continue, F!Finish
    <2> QED BY <1>1, <2>2, WriterChanges
  <1>6. CASE r.ok
    <2>1. given' = g /\ IF Len(w.buf) >= FLUSH_SIZE THEN \E q \in F!Flushes(w, r.content) : F!Continue(q)
                        ELSE F!Continue([writer |-> w, content |-> r.content, ok |-> TRUE])
      BY <1>2, <1>6
    <2>2. WriterIs(r.writer, r.content, base, given, short)
      <3>1. short \in BOOLEAN
        BY <1>1 DEF WriterIs
      <3> QED BY <1>3, <1>6, <3>1 DEF WriterIs
    <2>3. WriterIs(w, r.content, base, g, short)
      BY <1>4, <2>2, ByteTaken
    <2> HIDE DEF w, g
    <2>4. CASE Len(w.buf) >= FLUSH_SIZE
      <3>1. PICK q \in F!Flushes(w, r.content) : F!Continue(q)
        BY <2>1, <2>4
      <3> QED BY <1>1, <2>1, <2>3, <3>1, FlushContinues
    <2>5. CASE ~(Len(w.buf) >= FLUSH_SIZE)
      <3> DEFINE q == [writer |-> w, content |-> r.content, ok |-> TRUE]
      <3>1. F!Continue(q)
        BY <2>1, <2>5
      <3>2. q.writer = w /\ q.content = r.content /\ q.ok = TRUE
        OBVIOUS
      <3> HIDE DEF q
      <3>3. /\ writer' = w /\ content' = r.content /\ base' = base /\ short' = (short \/ ~q.ok)
            /\ UNCHANGED <<handle, streams, reader>>
        BY <3>1, <3>2 DEF F!Continue, F!Finish
      <3>4. WriterIs(writer', content', base', given', short')
        <4>1. short \in BOOLEAN
          BY <1>1 DEF WriterIs
        <4>2. short' = short
          BY <3>2, <3>3, <4>1
        <4> QED BY <2>1, <2>3, <3>3, <4>2
      <3> QED BY <1>1, <3>3, <3>4, WriterChanges
    <2> QED BY <2>4, <2>5
  <1> QED BY <1>5, <1>6

\* flush() empties the array into the file, unless fwrite falls short.
LEMMA WriterFlushStep ==
    ASSUME FInv, F!WriterFlush
    PROVE  FInv'
  <1>1. PICK r \in F!Flushes(writer, content) : F!Continue(r) /\ UNCHANGED given
    BY DEF F!WriterFlush
  <1>2. writer.live /\ WriterIs(writer, content, base, given, short)
    BY DEF F!WriterFlush, FInv
  <1> QED BY <1>1, <1>2, FlushContinues

\* close() and the destructor flush and close.
LEMMA WriterEndsStep ==
    ASSUME FInv, F!WriterEnds
    PROVE  FInv'
  <1>1. PICK r \in F!Flushes(writer, content) : F!Finish([r EXCEPT !.writer = F!NoWriter])
    BY DEF F!WriterEnds
  <1>2. writer.live /\ WriterIs(writer, content, base, given, short) /\ reader = F!NoReader
    BY DEF F!WriterEnds, FInv
  <1>3. r.content \in FileType
    <2>1. WriterIs(r.writer, r.content, base, given, short \/ ~r.ok)
      BY <1>2, FlushKeeps
    <2> QED BY <2>1 DEF WriterIs
  <1>4. \E u, v, x : r = [writer |-> u, content |-> v, ok |-> x]
    BY DEF F!Flushes, F!FlushDone, F!FlushFailed
  <1>5. writer' = F!NoWriter /\ content' = r.content /\ UNCHANGED <<handle, streams, reader>>
    BY <1>1, <1>4 DEF F!Finish
  <1>6. WriterIs(writer', content', base', given', short')
    <2>1. writer' \in WriterType /\ ~writer'.open
      BY <1>5 DEF F!NoWriter, WriterType
    <2>2. base' = <<>> /\ given' = <<>> /\ short' = FALSE /\ <<>> \in Seq(F!Chars)
      BY DEF F!WriterEnds
    <2> QED BY <2>1, <2>2, <1>3, <1>5 DEF WriterIs
  <1> QED BY <1>2, <1>5, <1>6, WriterChanges

\* A file_reader starts at the beginning of the file.
LEMMA OpenReaderStep ==
    ASSUME FInv, NEW size \in {2, 3}, F!OpenReader(size)
    PROVE  FInv'
  <1>1. /\ reader' = [at |-> 0, size |-> size] /\ lines' = <<>>
        /\ UNCHANGED <<content, handle, streams, writer, base, given, short>>
        /\ content # F!Absent /\ writer = F!NoWriter
    BY DEF F!OpenReader, F!Quiet, F!Exists
  <1>2. content \in Seq(F!Chars)
    BY <1>1 DEF FInv, WriterIs, FileType
  <1>3. reader' \in ReaderType /\ reader'.at = 0 /\ Len(content) \in Nat
    BY <1>1, <1>2 DEF ReaderType
  <1>4. F!FlattenSeq(LinesSay(lines')) = SaidTo(content', reader'.at)
    <2>1. LinesSay(lines') = <<>>
      BY <1>1 DEF LinesSay
    <2>2. F!FlattenSeq(<<>>) = <<>>
      BY DEF F!FlattenSeq
    <2>3. SubSeq(content, 1, 0) = <<>>
      BY SubSeqEmpty
    <2> QED BY <1>1, <1>3, <2>1, <2>2, <2>3, DroppingNone DEF SaidTo
  <1>5. lines' \in Seq(LineType) /\ DOMAIN lines' = {}
    BY <1>1
  <1>6. ReaderIs(reader', lines', content')
    BY <1>1, <1>2, <1>3, <1>4, <1>5 DEF ReaderIs
  <1>7. ~writer'.live
    BY <1>1 DEF F!NoWriter
  <1> QED BY <1>1, <1>6, <1>7 DEF FInv

\* read_line() adds one line to those read before.
LEMMA ReadLineStep ==
    ASSUME FInv, F!ReadLine
    PROVE  FInv'
  <1> DEFINE r == F!LineFrom(content, reader.at, reader.size)
             l == [text |-> r.text, ended |-> r.ended]
             n == Len(lines)
             e == l.text \o F!Copies(IF l.ended THEN 1 ELSE 0, F!LF)
  <1>1. /\ reader # F!NoReader /\ reader.at < Len(content)
        /\ reader' = [reader EXCEPT !.at = r.at] /\ lines' = Append(lines, l)
        /\ UNCHANGED <<content, handle, streams, writer, base, given, short>>
    BY DEF F!ReadLine
  <1>2. /\ ReaderIs(reader, lines, content) /\ ~writer.live
        /\ reader \in ReaderType /\ content \in Seq(F!Chars) /\ lines \in Seq(LineType)
    BY <1>1 DEF FInv, ReaderIs
  <1>3. reader.at \in Nat /\ reader.size \in Nat /\ reader.size > 1
    BY <1>2 DEF ReaderType
  <1>4. LineIs(r, content, reader.at, reader.size)
    BY <1>1, <1>2, <1>3, LineRead
  <1>5. /\ r.at \in reader.at + 1 .. Len(content)
        /\ r.text \in Seq(F!Chars) /\ Len(r.text) < reader.size
        /\ r.ended \in BOOLEAN
        /\ ~r.ended => Len(r.text) = reader.size - 1 \/ r.at = Len(content)
        /\ SaidTo(content, r.at) = SaidTo(content, reader.at) \o (r.text \o F!Copies(IF r.ended THEN 1 ELSE 0, F!LF))
    BY <1>4 DEF LineIs
  <1> HIDE DEF r
  <1>6. l \in LineType /\ l.text = r.text /\ l.ended = r.ended
    BY <1>5 DEF LineType
  <1> HIDE DEF l
  <1>7. /\ lines' \in Seq(LineType) /\ Len(lines') = n + 1 /\ n \in Nat
        /\ (\A i \in 1 .. n : lines'[i] = lines[i]) /\ lines'[n + 1] = l
    BY <1>1, <1>2, <1>6, AppendProperties
  <1>8. reader' \in ReaderType /\ reader'.at = r.at /\ reader'.size = reader.size /\ r.at <= Len(content)
    <2>1. r.at \in Nat
      BY <1>3, <1>5
    <2>2. reader \in [at : Nat, size : {2, 3}] /\ reader' = [reader EXCEPT !.at = r.at]
      BY <1>1, <1>2 DEF ReaderType
    <2>3. reader' \in [at : Nat, size : {2, 3}]
      BY <2>1, <2>2
    <2>4. reader'.at = r.at /\ reader'.size = reader.size
      BY <2>2
    <2>5. r.at <= Len(content)
      BY <1>2, <1>3, <1>5
    <2> QED BY <2>3, <2>4, <2>5 DEF ReaderType
  <1>9. F!FlattenSeq(LinesSay(lines')) = SaidTo(content, r.at)
    <2>1. e \in Seq(F!Chars)
      <3>1. F!Copies(IF l.ended THEN 1 ELSE 0, F!LF) \in Seq(F!Chars)
        BY DEF F!Copies, F!Chars
      <3> QED BY <1>5, <1>6, <3>1, ConcatProperties
    <2>2. LinesSay(lines) \in Seq(Seq(F!Chars)) /\ Len(LinesSay(lines)) = n
      <3>1. ASSUME NEW i \in 1 .. n PROVE lines[i].text \o F!Copies(IF lines[i].ended THEN 1 ELSE 0, F!LF) \in Seq(F!Chars)
        <4>1. lines[i] \in LineType
          BY <1>2
        <4>2. lines[i].text \in Seq(F!Chars)
          BY <4>1 DEF LineType
        <4>3. F!Copies(IF lines[i].ended THEN 1 ELSE 0, F!LF) \in Seq(F!Chars)
          BY DEF F!Copies, F!Chars
        <4> QED BY <4>2, <4>3, ConcatProperties
      <3>2. DOMAIN lines = 1 .. n /\ n \in Nat
        BY <1>2
      <3> HIDE DEF n
      <3> QED BY <3>1, <3>2 DEF LinesSay
    <2> HIDE DEF n, e
    <2>3. LinesSay(lines') = Append(LinesSay(lines), e)
      <3> DEFINE a == LinesSay(lines)
                 b == LinesSay(lines')
      <3>1. DOMAIN lines' = 1 .. n + 1 /\ DOMAIN lines = 1 .. n
        BY <1>2, <1>7 DEF n
      <3>2. b = [i \in 1 .. n + 1 |-> lines'[i].text \o F!Copies(IF lines'[i].ended THEN 1 ELSE 0, F!LF)]
        BY <3>1 DEF LinesSay
      <3>3. a = [i \in 1 .. n |-> lines[i].text \o F!Copies(IF lines[i].ended THEN 1 ELSE 0, F!LF)]
        BY <3>1 DEF LinesSay
      <3>4. Append(a, e) = [i \in 1 .. n + 1 |-> IF i = n + 1 THEN e ELSE a[i]]
        <4>1. a \in Seq(Seq(F!Chars)) /\ Len(a) = n
          BY <2>2
        <4> HIDE DEF a
        <4>2. /\ Append(a, e) \in Seq(Seq(F!Chars)) /\ Len(Append(a, e)) = n + 1
              /\ (\A i \in 1 .. n : Append(a, e)[i] = a[i]) /\ Append(a, e)[n + 1] = e
          BY <4>1, <2>1, AppendProperties
        <4> DEFINE u == Append(a, e)
        <4> HIDE DEF u
        <4>3. u = [i \in 1 .. n + 1 |-> u[i]]
          <5>1. u \in Seq(Seq(F!Chars)) /\ Len(u) = n + 1
            BY <4>2 DEF u
          <5> QED BY <5>1
        <4>4. \A i \in 1 .. n + 1 : u[i] = IF i = n + 1 THEN e ELSE a[i]
          BY <1>7, <4>2 DEF u
        <4> QED BY <4>3, <4>4 DEF u
      <3>5. \A i \in 1 .. n + 1 : lines'[i].text \o F!Copies(IF lines'[i].ended THEN 1 ELSE 0, F!LF)
                                     = IF i = n + 1 THEN e ELSE a[i]
        <4>1. CASE TRUE
          <5> SUFFICES ASSUME NEW i \in 1 .. n + 1
                       PROVE  lines'[i].text \o F!Copies(IF lines'[i].ended THEN 1 ELSE 0, F!LF)
                                 = IF i = n + 1 THEN e ELSE a[i]
            OBVIOUS
          <5>1. CASE i = n + 1
            BY <5>1, <1>7 DEF e
          <5>2. CASE i # n + 1
            <6>1. i \in 1 .. n
              BY <5>2, <1>7
            <6>2. a[i] = lines[i].text \o F!Copies(IF lines[i].ended THEN 1 ELSE 0, F!LF)
              BY <3>3, <6>1
            <6>3. lines'[i] = lines[i]
              BY <1>7, <6>1
            <6> HIDE DEF a
            <6> QED BY <5>2, <6>2, <6>3
          <5> QED BY <5>1, <5>2
        <4> QED BY <4>1
      <3> HIDE DEF a, b
      <3> QED BY <3>2, <3>4, <3>5 DEF a, b
    <2>4. F!FlattenSeq(Append(LinesSay(lines), e)) = F!FlattenSeq(LinesSay(lines)) \o e
      <3> DEFINE a == LinesSay(lines)
      <3>1. a \in Seq(Seq(F!Chars))
        BY <2>2
      <3> HIDE DEF a
      <3>2. F!FlattenSeq(Append(a, e)) = F!FlattenSeq(a) \o e
        BY <2>1, <3>1, FFlattenNext
      <3> QED BY <3>2 DEF a
    <2>5. F!FlattenSeq(LinesSay(lines)) = SaidTo(content, reader.at)
      BY <1>2 DEF ReaderIs
    <2>6. e = r.text \o F!Copies(IF r.ended THEN 1 ELSE 0, F!LF)
      BY <1>6 DEF e
    <2> QED BY <2>3, <2>4, <2>5, <2>6, <1>5
  <1>10. ASSUME NEW i \in DOMAIN lines'
         PROVE  /\ Len(lines'[i].text) < reader'.size
                /\ ~lines'[i].ended => Len(lines'[i].text) = reader'.size - 1 \/ reader'.at = Len(content)
    <2>1. i \in 1 .. n + 1
      BY <1>7
    <2>2. CASE i = n + 1
      BY <2>2, <1>5, <1>6, <1>7, <1>8
    <2>3. CASE i # n + 1
      <3>1. i \in DOMAIN lines /\ lines'[i] = lines[i]
        BY <2>1, <2>3, <1>2, <1>7
      <3>2. /\ Len(lines[i].text) < reader.size
            /\ ~lines[i].ended => Len(lines[i].text) = reader.size - 1 \/ reader.at = Len(content)
        BY <1>2, <3>1 DEF ReaderIs
      <3>3. reader.at # Len(content)
        BY <1>1, <1>2, <1>3
      <3> QED BY <3>1, <3>2, <3>3, <1>8
    <2> QED BY <2>2, <2>3
  <1>11. ReaderIs(reader', lines', content')
    BY <1>1, <1>2, <1>7, <1>8, <1>9, <1>10 DEF ReaderIs
  <1> QED BY <1>1, <1>2, <1>11 DEF FInv

\* Every step keeps the invariant.
LEMMA FilesNext == FInv /\ [F!Next]_fileVars => FInv'
  <1> SUFFICES ASSUME FInv, [F!Next]_fileVars PROVE FInv'
    OBVIOUS
  <1>1. ASSUME \E h \in Wrappers : \/ \E mode \in {"read", "trunc", "append", "update"} : F!Open(h, mode)
                                   \/ F!Close(h)
                                   \/ \E g \in Wrappers : F!Move(h, g)
        PROVE  FInv'
    BY <1>1, HandleSteps
  <1>2. ASSUME NEW mode \in {"trunc", "append"}, F!WriteAll(mode) PROVE FInv'
    BY <1>2, WriteAllStep
  <1>3. ASSUME NEW mode \in {"trunc", "append"} \cup (IF F!Exists THEN {} ELSE {"update"}), F!OpenWriter(mode) PROVE FInv'
    <2>1. mode \in {"trunc", "append", "update"}
      OBVIOUS
    <2> QED BY <1>3, <2>1, OpenWriterStep
  <1>4. ASSUME NEW size \in {2, 3}, F!OpenReader(size) PROVE FInv'
    BY <1>4, OpenReaderStep
  <1>5. ASSUME F!CloseReader PROVE FInv'
    BY <1>5 DEF F!CloseReader, FInv
  <1>6. ASSUME UNCHANGED fileVars PROVE FInv'
    BY <1>6 DEF fileVars, FInv
  <1> QED BY <1>1, <1>2, <1>3, <1>4, <1>5, <1>6, WriterWriteStep, WriterFlushStep, WriterEndsStep, ReadLineStep DEF F!Next

\* The representation says what FilesMatch says.
LEMMA FilesRight == FInv => F!FilesMatch
  <1> SUFFICES ASSUME FInv PROVE F!FilesMatch
    OBVIOUS
  <1>1. streams = Cardinality({h \in Wrappers : F!IsOpen(handle[h])})
    BY DEF FInv, OpenCount, OpenOf
  <1>2. ASSUME writer.live /\ writer.open
        PROVE  IF short THEN F!IsPartOf(base \o given, content \o writer.buf) /\ F!IsPrefix(base, content)
               ELSE content \o writer.buf = base \o given
    <2> DEFINE s == base \o given
               t == content \o writer.buf
    <2>1. /\ content \in Seq(F!Chars) /\ F!IsPrefix(base, content) /\ PlacedIn(s, t) /\ (short \/ t = s) /\ short \in BOOLEAN
          /\ base \in Seq(F!Chars) /\ given \in Seq(F!Chars) /\ writer \in WriterType
      BY <1>2 DEF FInv, WriterIs
    <2>2. s \in Seq(F!Chars) /\ t \in Seq(F!Chars)
      BY <2>1, ConcatProperties DEF WriterType
    <2> HIDE DEF s, t
    <2>3. F!IsPartOf(s, t)
      BY <2>1, <2>2, PlacedIsPart
    <2> QED BY <2>1, <2>3 DEF s, t
  <1>3. ASSUME reader # F!NoReader
        PROVE  /\ F!FlattenSeq([i \in DOMAIN lines |-> lines[i].text \o F!Copies(IF lines[i].ended THEN 1 ELSE 0, F!LF)])
                      = F!Dropping(SubSeq(content, 1, reader.at), {F!CR})
               /\ \A i \in DOMAIN lines :
                     /\ Len(lines[i].text) < reader.size
                     /\ ~lines[i].ended => Len(lines[i].text) = reader.size - 1 \/ reader.at = Len(content)
    <2>1. ReaderIs(reader, lines, content)
      BY <1>3 DEF FInv
    <2>2. F!FlattenSeq(LinesSay(lines)) = SaidTo(content, reader.at)
      BY <2>1 DEF ReaderIs
    <2>3. \A i \in DOMAIN lines :
             /\ Len(lines[i].text) < reader.size
             /\ ~lines[i].ended => Len(lines[i].text) = reader.size - 1 \/ reader.at = Len(content)
      BY <2>1 DEF ReaderIs
    <2> QED BY <2>2, <2>3 DEF LinesSay, SaidTo
  <1>4. ASSUME NEW size \in 1 .. MaxFile, F!ReadAll(size).n >= 0
        PROVE  F!ReadAll(size).n < size /\ F!ReadAll(size).text = content
    <2>1. F!Exists => content \in Seq(F!Chars)
      BY DEF FInv, WriterIs, FileType, F!Exists
    <2>2. CASE ~F!Exists
      BY <2>2, <1>4 DEF F!ReadAll
    <2>3. CASE F!Exists /\ Len(content) >= size
      BY <2>3, <1>4 DEF F!ReadAll
    <2>4. CASE F!Exists /\ ~(Len(content) >= size)
      <3>1. F!ReadAll(size) = [n |-> Len(content), text |-> content]
        BY <2>4 DEF F!ReadAll
      <3>2. Len(content) \in Nat /\ size \in Nat
        BY <2>1, <2>4, FilesAssumption
      <3> QED BY <3>1, <3>2, <2>4
    <2> QED BY <2>2, <2>3, <2>4
  <1>5. \A A : F!Cardinality(A) = Cardinality(A)
    BY DEF F!Cardinality, Cardinality, F!IsFiniteSet, IsFiniteSet
  <1> QED BY <1>1, <1>2, <1>3, <1>4, <1>5 DEF F!FilesMatch

-----------------------------------------------------------------------------
(***************************************************************************)
(* The logger and its sinks (Logging.tla).                                 *)
(***************************************************************************)
\* The operators of the library are the same ones here and in the instance.
LSame == \A S : L!Max(S) = Largest(S)
\* Logging takes the largest member of a set as the folds do.
LEMMA LSameMax == LSame
  BY DEF LSame, L!Max, Largest

\* One more sequence comes at the end.
LEMMA LFlattenNext ==
    ASSUME NEW S, NEW ss \in Seq(Seq(S)), NEW x \in Seq(S)
    PROVE  /\ L!FlattenSeq(ss) \in Seq(S)
           /\ L!FlattenSeq(Append(ss, x)) = L!FlattenSeq(ss) \o x
  <1>1. \A t : L!FlattenSeq(t) = FlattenSeq(t)
    BY DEF L!FlattenSeq, FlattenSeq
  <1> QED BY <1>1, FlattenNext

RecordType == [by : Threads \cup {L!Stray}, level : Int, message : Seq(Int)]
LineForm == [text : Seq(Int), pos : Int]

\* The least and the largest of two numbers.
LEMMA LeastOfTwo ==
    ASSUME NEW x \in Int, NEW y \in Int
    PROVE  L!Min({x, y}) = IF x <= y THEN x ELSE y
  <1>1. \A z \in {x, y} : (\A w \in {x, y} : z <= w) <=> (z = IF x <= y THEN x ELSE y)
    OBVIOUS
  <1> QED BY <1>1 DEF L!Min

\* The larger of two numbers.
LEMMA LargestOfTwo ==
    ASSUME NEW x \in Int, NEW y \in Int
    PROVE  L!Max({x, y}) = IF x <= y THEN y ELSE x
  <1>1. \A z \in {x, y} : (\A w \in {x, y} : z >= w) <=> (z = IF x <= y THEN y ELSE x)
    OBVIOUS
  <1> QED BY <1>1 DEF L!Max

\* Texts of a line.
LEMMA TextAppended ==
    ASSUME NEW s \in Seq(Int), NEW t \in Seq(Int), NEW size \in Nat
    PROVE  L!Appended(s, t, size) \in Seq(Int)
  <1> DEFINE l == L!Min({Len(t), size - 1 - Len(s)})
  <1>1. l \in Int /\ l <= Len(t)
    <2> DEFINE a == Len(t)
               b == size - 1 - Len(s)
    <2>1. a \in Int /\ b \in Int
      OBVIOUS
    <2> HIDE DEF a, b
    <2>2. L!Min({a, b}) = IF a <= b THEN a ELSE b
      BY <2>1, LeastOfTwo
    <2>3. L!Min({a, b}) \in Int /\ L!Min({a, b}) <= a
      BY <2>1, <2>2
    <2> QED BY <2>3 DEF a, b
  <1> HIDE DEF l
  <1>2. \A i \in 1 .. l : t[i] \in Int
    BY <1>1
  <1>3. SubSeq(t, 1, l) \in Seq(Int)
    BY <1>1, <1>2, SubSeqProperties
  <1>4. s \o SubSeq(t, 1, l) \in Seq(Int)
    BY <1>3, ConcatProperties
  <1> QED BY <1>4 DEF L!Appended, l

\* snprintf() into the line leaves characters and a position.
LEMMA LinePrinted ==
    ASSUME NEW line \in LineForm, NEW part \in Seq(Int), NEW size \in Nat
    PROVE  L!Printed(line, part, size) \in LineForm
  <1>1. line.text \in Seq(Int) /\ line.pos + Len(part) \in Int
    BY DEF LineForm
  <1>2. L!Appended(line.text, part, size) \in Seq(Int)
    BY <1>1, TextAppended
  <1> QED BY <1>1, <1>2 DEF L!Printed, LineForm

\* So does a colour code,
LEMMA LineColoured ==
    ASSUME NEW line \in LineForm, NEW code \in Seq(Int), NEW size \in Nat
    PROVE  L!Coloured(line, code, size) \in LineForm
  <1> DEFINE text == IF line.pos < size THEN L!Appended(line.text, code, size) ELSE line.text
  <1>1. line.text \in Seq(Int) /\ line.pos \in Int
    BY DEF LineForm
  <1>2. text \in Seq(Int)
    BY <1>1, TextAppended
  <1>3. L!Coloured(line, code, size) = [text |-> text, pos |-> line.pos + Len(text) - Len(line.text)]
    BY DEF L!Coloured
  <1> HIDE DEF text
  <1>4. line.pos + Len(text) - Len(line.text) \in Int
    BY <1>1, <1>2
  <1> QED BY <1>2, <1>3, <1>4 DEF LineForm

\* and so does the line feed.
LEMMA LineEnded ==
    ASSUME NEW line \in LineForm, NEW size \in Nat
    PROVE  L!Ended(line, size) \in LineForm
  <1>1. line.text \in Seq(Int) /\ line.pos \in Int /\ L!NewLine \in Int
    BY DEF LineForm, L!NewLine
  <1>2. Append(line.text, L!NewLine) \in Seq(Int)
    BY <1>1, AppendProperties
  <1> QED BY <1>1, <1>2 DEF L!Ended, LineForm

\* What the options show, one part after the other.
Shown(begun, parts, size) == L!FoldLeft(LAMBDA line, part : L!Printed(line, part, size), begun, parts)
ShownBy(r, begun, parts, size) ==
    /\ r \in [0 .. Len(parts) -> LineForm]
    /\ Shown(begun, parts, size) = r[Len(parts)]

\* Parts are printed one after the other.
LEMMA ShownSteps ==
    ASSUME NEW begun \in LineForm, NEW parts \in Seq(Seq(Int)), NEW size \in Nat
    PROVE  \E r : ShownBy(r, begun, parts, size)
  <1> DEFINE A == LineForm
             n == Len(parts)
             G == [p \in A \X (1 .. n) |-> L!Printed(p[1], parts[p[2]], size)]
             iter == CHOOSE it : it = [x \in SUBSET DOMAIN parts |-> IF x = {} THEN begun ELSE
                         L!Printed(it[x \ {L!Max(x)}], parts[L!Max(x)], size)]
  <1>1. n \in Nat /\ DOMAIN parts = 1 .. n
    OBVIOUS
  <1>2. Shown(begun, parts, size) = iter[DOMAIN parts]
    BY DEF Shown, L!FoldLeft, L!MapThenFoldSet
  <1>3. G \in [A \X (1 .. n) -> A] /\ begun \in A
    <2>1. \A m \in A, k \in 1 .. n : L!Printed(m, parts[k], size) \in A
      BY LinePrinted
    <2>2. begun \in A
      OBVIOUS
    <2> HIDE DEF n, A
    <2> QED BY <2>1, <2>2
  <1>4. PICK g \in [Subs(n) -> A] : Folds(g, G, begun, n)
    <2> HIDE DEF G, n, A
    <2> QED BY <1>1, <1>3, FoldExists
  <1>5. \A x \in Subs(n) : x # {} => L!Max(x) \in x /\ x \ {L!Max(x)} \in Subs(n)
    <2> HIDE DEF n
    <2> QED BY <1>1, LargestIn, LSameMax DEF LSame
  <1>6. g = [x \in SUBSET DOMAIN parts |-> IF x = {} THEN begun ELSE
                         L!Printed(g[x \ {L!Max(x)}], parts[L!Max(x)], size)]
    <2>1. ASSUME NEW x \in Subs(n), x # {}
          PROVE  G[<<g[x \ {L!Max(x)}], L!Max(x)>>] = L!Printed(g[x \ {L!Max(x)}], parts[L!Max(x)], size)
      <3>1. g[x \ {L!Max(x)}] \in A /\ L!Max(x) \in 1 .. n
        BY <1>5, <2>1 DEF Subs
      <3> HIDE DEF n, A
      <3> QED BY <3>1
    <2>2. DOMAIN parts = 1 .. n
      BY <1>1
    <2> HIDE DEF G, n, A
    <2> QED BY <1>4, <2>1, <2>2, LSameMax DEF Folds, Subs, LSame
  <1>7. iter = [x \in SUBSET DOMAIN parts |-> IF x = {} THEN begun ELSE
                         L!Printed(iter[x \ {L!Max(x)}], parts[L!Max(x)], size)]
    BY <1>6
  <1>8. Obeys(iter, A, G, begun, n)
    <2>1. DOMAIN parts = 1 .. n
      BY <1>1
    <2>2. ASSUME NEW x \in Subs(n), x # {}, iter[x \ {L!Max(x)}] \in A
          PROVE  iter[x] = G[<<iter[x \ {L!Max(x)}], L!Max(x)>>]
      <3>1. L!Max(x) \in 1 .. n
        BY <1>5, <2>2 DEF Subs
      <3>2. iter[x] = L!Printed(iter[x \ {L!Max(x)}], parts[L!Max(x)], size)
        <4> HIDE DEF iter, n, A
        <4> QED BY <1>7, <2>1, <2>2 DEF Subs
      <3> HIDE DEF iter, n, A
      <3> QED BY <2>2, <3>1, <3>2
    <2>3. iter[{}] = begun
      <3> HIDE DEF iter, n, A
      <3> QED BY <1>7
    <2> HIDE DEF iter, n, G, A
    <2> QED BY <2>2, <2>3, LSameMax DEF Obeys, LSame
  <1>9. PICK r : LoopOf(r, A, G, begun, n, iter[1 .. n])
    <2> HIDE DEF iter, G, n, A
    <2> QED BY <1>1, <1>3, <1>8, FoldSteps
  <1>10. \A k \in 0 .. n - 1 : r[k + 1] = L!Printed(r[k], parts[k + 1], size)
    <2> SUFFICES ASSUME NEW k \in 0 .. n - 1 PROVE r[k + 1] = L!Printed(r[k], parts[k + 1], size)
      OBVIOUS
    <2>1. k + 1 \in 1 .. n /\ r[k] \in A
      <3>1. \A y \in 0 .. n - 1 : y + 1 \in 1 .. n /\ y \in 0 .. n
        BY <1>1
      <3> HIDE DEF n, A
      <3> QED BY <1>1, <1>9, <3>1 DEF LoopOf
    <2> HIDE DEF n, A
    <2> QED BY <1>9, <2>1 DEF LoopOf
  <1> HIDE DEF iter, G
  <1> QED BY <1>1, <1>2, <1>9, <1>10 DEF LoopOf, ShownBy

\* A record as bytes.
LEMMA BytesType ==
    ASSUME NEW rec \in RecordType
    PROVE  L!Bytes(rec) \in Seq(Int)
  <1> DEFINE size == LineSize
             empty == [text |-> <<>>, pos |-> 0]
             begun == L!Coloured(empty, <<>>, size)
             parts == <<<<rec.level>>>>
             shown == Shown(begun, parts, size)
             with == L!WithMessage(shown, rec.message, size)
             line == L!Ended(L!Coloured(with, <<>>, size), size)
  <1>1. rec.level \in Int /\ rec.message \in Seq(Int) /\ size \in Nat /\ <<>> \in Seq(Int)
    BY LoggingAssumption DEF RecordType
  <1>2. empty \in LineForm /\ parts \in Seq(Seq(Int))
    BY <1>1 DEF LineForm
  <1>3. L!Bytes(rec) = L!Output(line)
    BY DEF L!Bytes, L!LineOf, L!FormatLine, Shown
  <1> HIDE DEF size, empty, parts
  <1>4. begun \in LineForm
    BY <1>1, <1>2, LineColoured
  <1> HIDE DEF begun
  <1>5. shown \in LineForm
    <2>1. PICK r : ShownBy(r, begun, parts, size)
      BY <1>1, <1>2, <1>4, ShownSteps
    <2>2. Len(parts) \in 0 .. Len(parts)
      BY <1>2
    <2> QED BY <2>1, <2>2 DEF ShownBy
  <1> HIDE DEF shown
  <1>6. with \in LineForm
    BY <1>1, <1>5, LinePrinted DEF L!WithMessage
  <1> HIDE DEF with
  <1>7. line \in LineForm
    BY <1>1, <1>6, LineColoured, LineEnded
  <1> HIDE DEF line
  <1>8. L!Copies(line.pos - Len(line.text), L!Stray) \in Seq(Int)
    <2> DEFINE n == line.pos - Len(line.text)
    <2> SUFFICES L!Copies(n, L!Stray) \in Seq(Int)
      OBVIOUS
    <2>1. n \in Int /\ L!Stray \in Int
      BY <1>7 DEF LineForm, L!Stray
    <2> HIDE DEF n
    <2>2. CASE n >= 0
      BY <2>1, <2>2 DEF L!Copies
    <2>3. CASE n < 0
      <3>1. 1 .. n = 1 .. 0
        BY <2>1, <2>3
      <3>2. L!Copies(n, L!Stray) = [k \in 1 .. 0 |-> L!Stray]
        BY <3>1 DEF L!Copies
      <3> QED BY <2>1, <3>2
    <2> QED BY <2>1, <2>2, <2>3
  <1>9. line.text \in Seq(Int)
    BY <1>7 DEF LineForm
  <1>10. line.text \o L!Copies(line.pos - Len(line.text), L!Stray) \in Seq(Int)
    BY <1>8, <1>9, ConcatProperties
  <1> QED BY <1>3, <1>10 DEF L!Output

\* Numbers that differ by whole turns leave the same.
LEMMA ModSame ==
    ASSUME NEW n \in Nat \ {0}, NEW x \in Nat, NEW y \in Nat, NEW q \in Int, x = y + n * q
    PROVE  x % n = y % n
  <1> DEFINE p == y \div n
             r == y % n
  <1>1. y = n * p + r /\ p \in Int /\ r \in 0 .. n - 1
    BY ModDiv
  <1> HIDE DEF p, r
  <1>2. n * p + n * q = n * (p + q) /\ n * p \in Int /\ n * q \in Int /\ p + q \in Int
    BY <1>1, SMTT(30)
  <1>3. x = n * (p + q) + r
    <2> DEFINE a == n * p
               b == n * q
               c == n * (p + q)
    <2>1. a + b = c /\ a \in Int /\ b \in Int /\ y = a + r /\ x = y + b /\ c \in Int
      BY <1>1, <1>2
    <2> HIDE DEF a, b, c
    <2>2. x = c + r
      BY <1>1, <2>1
    <2> QED BY <2>2 DEF c
  <1>4. x % n = r
    BY <1>1, <1>2, <1>3, ModUnique
  <1> QED BY <1>4 DEF r

RingType == [0 .. RingSize - 1 -> Int]
Put(r, pos, bytes, i) == [r EXCEPT ![(pos + i - 1) % RingSize] = bytes[i]]
RingAfter(ring, pos, bytes) == L!Upto(LAMBDA r, i : Put(r, pos, bytes, i), ring, 1, Len(bytes))
PutBy(r, ring, pos, bytes) ==
    /\ r \in [0 .. Len(bytes) -> RingType]
    /\ r[0] = ring
    /\ \A k \in 0 .. Len(bytes) - 1 : r[k + 1] = Put(r[k], pos, bytes, k + 1)
    /\ RingAfter(ring, pos, bytes) = r[Len(bytes)]

\* Bytes are put into the ring one after the other.
LEMMA PutSteps ==
    ASSUME NEW ring \in RingType, NEW pos \in Nat, NEW bytes \in Seq(Int)
    PROVE  \E r : PutBy(r, ring, pos, bytes)
  <1> DEFINE A == RingType
             n == Len(bytes)
             s == [k \in 1 .. n - 1 + 1 |-> 1 + k - 1]
             G == [p \in A \X (1 .. n) |-> Put(p[1], pos, bytes, s[p[2]])]
             iter == CHOOSE it : it = [x \in SUBSET DOMAIN s |-> IF x = {} THEN ring ELSE
                         Put(it[x \ {L!Max(x)}], pos, bytes, s[L!Max(x)])]
  <1>1. n \in Nat /\ DOMAIN s = 1 .. n /\ \A k \in 1 .. n : s[k] = k
    OBVIOUS
  <1>2. RingAfter(ring, pos, bytes) = iter[DOMAIN s]
    BY DEF RingAfter, L!Upto, L!FoldLeft, L!MapThenFoldSet
  <1>3. G \in [A \X (1 .. n) -> A] /\ ring \in A
    <2>2. \A m \in A, k \in 1 .. n : Put(m, pos, bytes, s[k]) \in A
      <3>1. \A k \in 1 .. n : bytes[s[k]] \in Int
        BY <1>1
      <3> HIDE DEF s, n
      <3> QED BY <3>1 DEF Put, RingType
    <2> HIDE DEF s, n, A
    <2> QED BY <2>2 DEF A
  <1>4. PICK g \in [Subs(n) -> A] : Folds(g, G, ring, n)
    <2> HIDE DEF G, n, A
    <2> QED BY <1>1, <1>3, FoldExists
  <1>5. \A x \in Subs(n) : x # {} => L!Max(x) \in x /\ x \ {L!Max(x)} \in Subs(n)
    <2> HIDE DEF n
    <2> QED BY <1>1, LargestIn, LSameMax DEF LSame
  <1>6. g = [x \in SUBSET DOMAIN s |-> IF x = {} THEN ring ELSE
                         Put(g[x \ {L!Max(x)}], pos, bytes, s[L!Max(x)])]
    <2>1. ASSUME NEW x \in Subs(n), x # {}
          PROVE  G[<<g[x \ {L!Max(x)}], L!Max(x)>>] = Put(g[x \ {L!Max(x)}], pos, bytes, s[L!Max(x)])
      <3>1. g[x \ {L!Max(x)}] \in A /\ L!Max(x) \in 1 .. n
        BY <1>5, <2>1 DEF Subs
      <3> HIDE DEF n, s, A
      <3> QED BY <3>1
    <2>2. DOMAIN s = 1 .. n
      BY <1>1
    <2> HIDE DEF G, n, s, A
    <2> QED BY <1>4, <2>1, <2>2, LSameMax DEF Folds, Subs, LSame
  <1>7. iter = [x \in SUBSET DOMAIN s |-> IF x = {} THEN ring ELSE
                         Put(iter[x \ {L!Max(x)}], pos, bytes, s[L!Max(x)])]
    <2> HIDE DEF s
    <2> QED BY <1>6
  <1>8. Obeys(iter, A, G, ring, n)
    <2>1. DOMAIN s = 1 .. n
      BY <1>1
    <2>2. ASSUME NEW x \in Subs(n), x # {}, iter[x \ {L!Max(x)}] \in A
          PROVE  iter[x] = G[<<iter[x \ {L!Max(x)}], L!Max(x)>>]
      <3>1. L!Max(x) \in 1 .. n
        BY <1>5, <2>2 DEF Subs
      <3>2. iter[x] = Put(iter[x \ {L!Max(x)}], pos, bytes, s[L!Max(x)])
        <4> HIDE DEF iter, s, n, A
        <4> QED BY <1>7, <2>1, <2>2 DEF Subs
      <3> HIDE DEF iter, s, n, A
      <3> QED BY <2>2, <3>1, <3>2
    <2>3. iter[{}] = ring
      <3> HIDE DEF iter, s, n, A
      <3> QED BY <1>7
    <2> HIDE DEF iter, s, n, G, A
    <2> QED BY <2>2, <2>3, LSameMax DEF Obeys, LSame
  <1>9. PICK r : LoopOf(r, A, G, ring, n, iter[1 .. n])
    <2> HIDE DEF iter, G, n, s, A
    <2> QED BY <1>1, <1>3, <1>8, FoldSteps
  <1>10. \A k \in 0 .. n - 1 : r[k + 1] = Put(r[k], pos, bytes, k + 1)
    <2> SUFFICES ASSUME NEW k \in 0 .. n - 1 PROVE r[k + 1] = Put(r[k], pos, bytes, k + 1)
      OBVIOUS
    <2>1. k + 1 \in 1 .. n /\ r[k] \in A /\ s[k + 1] = k + 1
      <3>1. \A y \in 0 .. n - 1 : y + 1 \in 1 .. n /\ y \in 0 .. n
        BY <1>1
      <3> HIDE DEF n, s, A
      <3> QED BY <1>1, <1>9, <3>1 DEF LoopOf
    <2> HIDE DEF n, s, A
    <2> QED BY <1>9, <2>1 DEF LoopOf
  <1> HIDE DEF iter, s, G
  <1> QED BY <1>1, <1>2, <1>9, <1>10 DEF LoopOf, PutBy

\* Numbers less than a turn apart do not leave the same.
LEMMA ModDistinct ==
    ASSUME NEW n \in Nat \ {0}, NEW x \in Nat, NEW y \in Nat, y < x, x - y < n
    PROVE  x % n # y % n
  <1> DEFINE p == x \div n
             q == y \div n
             r == x % n
  <1> SUFFICES ASSUME y % n = r PROVE FALSE
    OBVIOUS
  <1>1. x = n * p + r /\ p \in Int /\ r \in 0 .. n - 1
    BY ModDiv
  <1>2. y = n * q + r /\ q \in Int
    BY ModDiv
  <1> HIDE DEF p, q, r
  <1>3. p > q \/ p <= q
    BY <1>1, <1>2
  <1>4. CASE p > q
    <2>1. p - q >= 1 /\ p - q \in Int
      BY <1>1, <1>2, <1>4
    <2>2. n * (p - q) >= n /\ n * (p - q) = n * p - n * q
      BY <1>1, <1>2, <2>1, SMTT(30)
    <2>3. n * p \in Int /\ n * q \in Int
      BY <1>1, <1>2
    <2> QED BY <1>1, <1>2, <2>2, <2>3
  <1>5. CASE p <= q
    <2>1. n * p <= n * q
      BY <1>1, <1>2, <1>5, SMTT(30)
    <2>2. n * p \in Int /\ n * q \in Int
      BY <1>1, <1>2
    <2> QED BY <1>1, <1>2, <2>1, <2>2
  <1> QED BY <1>3, <1>4, <1>5

\* The bytes that a sink has taken, when j is the journal.
TakenPart(j, from, min, i) == IF L!LevelEnabled(j[from + i].level, min) THEN L!Bytes(j[from + i]) ELSE <<>>
TakenParts(j, from, min) == [i \in 1 .. Len(j) - from |-> TakenPart(j, from, min, i)]
TakenOf(j, from, min) == L!FlattenSeq(TakenParts(j, from, min))
Piece(rec, min) == IF L!LevelEnabled(rec.level, min) THEN L!Bytes(rec) ELSE <<>>

\* What a sink takes of a record.
LEMMA PieceType ==
    ASSUME NEW rec \in RecordType, NEW min
    PROVE  Piece(rec, min) \in Seq(Int)
  <1>1. L!Bytes(rec) \in Seq(Int)
    BY BytesType
  <1>2. <<>> \in Seq(Int)
    OBVIOUS
  <1> QED BY <1>1, <1>2 DEF Piece

\* A sequence and one element more.
IsAppended(h, s, x) == h = [i \in 1 .. Len(s) + 1 |-> IF i <= Len(s) THEN s[i] ELSE x]
\* What Append does, as one named fact.
LEMMA AppendAs ==
    ASSUME NEW S, NEW s \in Seq(S), NEW x \in S
    PROVE  IsAppended(Append(s, x), s, x)
  <1> DEFINE h == Append(s, x)
             n == Len(s)
  <1>1. /\ h \in Seq(S) /\ Len(h) = n + 1 /\ n \in Nat
        /\ \A i \in 1 .. n : h[i] = s[i]
        /\ h[n + 1] = x
    BY AppendProperties
  <1>2. h = [i \in 1 .. n + 1 |-> h[i]]
    <2> HIDE DEF h, n
    <2> QED BY <1>1
  <1>3. \A i \in 1 .. n + 1 : h[i] = IF i <= n THEN s[i] ELSE x
    <2> HIDE DEF h
    <2> QED BY <1>1
  <1> HIDE DEF h, n
  <1>4. h = [i \in 1 .. n + 1 |-> IF i <= n THEN s[i] ELSE x]
    BY <1>2, <1>3
  <1> QED BY <1>4 DEF IsAppended, h, n

\* A journal's records in parts.
LEMMA PartsType ==
    ASSUME NEW j \in Seq(RecordType), NEW from \in 0 .. Len(j), NEW min \in Int
    PROVE  TakenParts(j, from, min) \in Seq(Seq(Int)) /\ Len(TakenParts(j, from, min)) = Len(j) - from
  <1> DEFINE n == Len(j) - from
  <1>1. n \in Nat
    OBVIOUS
  <1>2. ASSUME NEW i \in 1 .. n PROVE TakenPart(j, from, min, i) \in Seq(Int)
    <2>1. j[from + i] \in RecordType
      BY <1>2
    <2>2. Piece(j[from + i], min) \in Seq(Int)
      BY <2>1, PieceType
    <2> QED BY <2>2 DEF TakenPart, Piece
  <1>3. TakenParts(j, from, min) = [i \in 1 .. n |-> TakenPart(j, from, min, i)]
    BY DEF TakenParts
  <1> HIDE DEF n
  <1>4. TakenParts(j, from, min) \in Seq(Seq(Int)) /\ Len(TakenParts(j, from, min)) = n
    BY <1>1, <1>2, <1>3
  <1> QED BY <1>4 DEF n

\* A record more in the journal.
LEMMA TakenNext ==
    ASSUME NEW j \in Seq(RecordType), NEW from \in 0 .. Len(j), NEW min \in Int, NEW rec \in RecordType
    PROVE  /\ TakenOf(j, from, min) \in Seq(Int)
           /\ TakenOf(Append(j, rec), from, min) = TakenOf(j, from, min) \o Piece(rec, min)
  <1> DEFINE h == Append(j, rec)
             ps == TakenParts(j, from, min)
             x == Piece(rec, min)
  <1>1. /\ h \in Seq(RecordType) /\ Len(h) = Len(j) + 1 /\ Len(j) \in Nat
        /\ \A i \in 1 .. Len(j) : h[i] = j[i]
        /\ h[Len(j) + 1] = rec
    BY AppendProperties
  <1>2. ps \in Seq(Seq(Int)) /\ Len(ps) = Len(j) - from /\ x \in Seq(Int)
    BY PartsType, PieceType
  <1>3. TakenParts(h, from, min) = Append(ps, x)
    <2> DEFINE n == Len(j) - from
    <2>1. n \in Nat /\ Len(h) - from = n + 1
      BY <1>1
    <2>2. ps = [i \in 1 .. n |-> TakenPart(j, from, min, i)]
      BY DEF TakenParts
    <2>3. TakenParts(h, from, min) = [i \in 1 .. n + 1 |-> TakenPart(h, from, min, i)]
      BY <2>1 DEF TakenParts
    <2>4. \A i \in 1 .. n : TakenPart(h, from, min, i) = TakenPart(j, from, min, i)
      <3> SUFFICES ASSUME NEW i \in 1 .. n PROVE TakenPart(h, from, min, i) = TakenPart(j, from, min, i)
        OBVIOUS
      <3>1. from + i \in 1 .. Len(j)
        BY <1>1
      <3>2. h[from + i] = j[from + i]
        BY <1>1, <3>1
      <3> HIDE DEF h
      <3> QED BY <3>2 DEF TakenPart
    <2>5. TakenPart(h, from, min, n + 1) = x
      <3>1. from + (n + 1) = Len(j) + 1
        BY <1>1
      <3> HIDE DEF h, n
      <3> QED BY <1>1, <3>1 DEF TakenPart, Piece
    <2>6. Append(ps, x) = [i \in 1 .. n + 1 |-> IF i <= n THEN ps[i] ELSE x]
      <3>1. Len(ps) = n
        BY <1>2
      <3> HIDE DEF ps, x, n
      <3>2. IsAppended(Append(ps, x), ps, x)
        BY <1>2, AppendAs
      <3> QED BY <3>1, <3>2 DEF IsAppended
    <2>7. \A i \in 1 .. n + 1 : TakenPart(h, from, min, i) = IF i <= n THEN ps[i] ELSE x
      <3>1. \A i \in 1 .. n + 1 : i \in 1 .. n \/ i = n + 1
        BY <2>1
      <3>2. ~(n + 1 <= n) /\ \A i \in 1 .. n : i <= n
        BY <2>1
      <3>3. \A i \in 1 .. n : ps[i] = TakenPart(j, from, min, i)
        BY <2>2
      <3> HIDE DEF h, n, ps, x
      <3> QED BY <3>1, <3>2, <3>3, <2>4, <2>5
    <2> HIDE DEF h, n, ps, x
    <2> QED BY <2>3, <2>6, <2>7
  <1> HIDE DEF h, ps, x
  <1>4. L!FlattenSeq(ps) \in Seq(Int) /\ L!FlattenSeq(Append(ps, x)) = L!FlattenSeq(ps) \o x
    BY <1>2, LFlattenNext
  <1> QED BY <1>3, <1>4 DEF TakenOf, h, ps, x

\* A sink that comes has taken nothing.
LEMMA TakenNone ==
    ASSUME NEW j \in Seq(RecordType), NEW min \in Int
    PROVE  TakenOf(j, Len(j), min) = <<>>
  <1>1. Len(j) \in 0 .. Len(j) /\ Len(j) - Len(j) = 0
    OBVIOUS
  <1>2. TakenParts(j, Len(j), min) \in Seq(Seq(Int)) /\ Len(TakenParts(j, Len(j), min)) = 0
    BY <1>1, PartsType
  <1>3. TakenParts(j, Len(j), min) = <<>>
    BY <1>2
  <1> QED BY <1>3 DEF TakenOf, L!FlattenSeq

\* The ring holds the last bytes of what was taken.
RingHolds(ring, taken) ==
    /\ ring \in RingType
    /\ \A j \in 1 .. Len(taken) : j > Len(taken) - RingSize => ring[(j - 1) % RingSize] = taken[j]

\* A byte comes at the position behind the last one.
LEMMA RingPut ==
    ASSUME NEW ring, NEW m \in Seq(Int), NEW x \in Int, RingHolds(ring, m)
    PROVE  RingHolds([ring EXCEPT ![Len(m) % RingSize] = x], Append(m, x))
  <1> DEFINE n == RingSize
             at == Len(m) % n
             next == [ring EXCEPT ![at] = x]
             h == Append(m, x)
  <1>1. n \in Nat \ {0} /\ Len(m) \in Nat
    BY LoggingAssumption
  <1>2. at \in 0 .. n - 1
    BY <1>1, ModDiv
  <1>3. /\ Len(h) = Len(m) + 1
        /\ \A i \in 1 .. Len(m) : h[i] = m[i]
        /\ h[Len(m) + 1] = x
    BY AppendProperties
  <1>4. /\ next \in RingType /\ next[at] = x
        /\ \A i \in 0 .. n - 1 : i # at => next[i] = ring[i]
    <2> HIDE DEF at
    <2> QED BY <1>2 DEF RingHolds, RingType
  <1>5. ASSUME NEW j \in 1 .. Len(h), j > Len(h) - n PROVE next[(j - 1) % n] = h[j]
    <2>1. CASE j = Len(m) + 1
      <3>1. j - 1 = Len(m)
        BY <1>1, <2>1
      <3> HIDE DEF next, h
      <3> QED BY <1>3, <1>4, <2>1, <3>1
    <2>2. CASE j # Len(m) + 1
      <3> DEFINE y == j - 1
      <3>1. y \in Nat /\ y < Len(m) /\ Len(m) - y < n /\ j \in 1 .. Len(m) /\ j > Len(m) - n
        BY <1>1, <1>3, <1>5, <2>2
      <3> HIDE DEF y
      <3>2. y % n # at /\ (y % n) \in 0 .. n - 1
        BY <1>1, <3>1, ModDistinct, ModDiv
      <3>3. ring[y % n] = m[j]
        BY <3>1 DEF RingHolds, y
      <3> HIDE DEF next, h, at, n
      <3>4. next[y % n] = h[j]
        BY <1>3, <1>4, <3>1, <3>2, <3>3
      <3> QED BY <3>4 DEF y
    <2> QED BY <2>1, <2>2
  <1> HIDE DEF next, h
  <1> QED BY <1>4, <1>5 DEF RingHolds, next, h

\* Bytes come into the ring.
LEMMA RingNext ==
    ASSUME NEW ring, NEW taken \in Seq(Int), NEW bytes \in Seq(Int), RingHolds(ring, taken)
    PROVE  RingHolds(RingAfter(ring, Len(taken) % RingSize, bytes), taken \o bytes)
  <1> DEFINE n == Len(bytes)
             R == RingSize
             pos == Len(taken) % R
             upto(k) == SubSeq(bytes, 1, k)
  <1>1. n \in Nat /\ R \in Nat \ {0} /\ Len(taken) \in Nat
    BY LoggingAssumption
  <1>2. pos \in 0 .. R - 1 /\ pos \in Nat /\ (Len(taken) \div R) \in Int
        /\ Len(taken) = R * (Len(taken) \div R) + pos
    BY <1>1, ModDiv
  <1>3. PICK r : PutBy(r, ring, pos, bytes)
    <2> HIDE DEF pos
    <2> QED BY <1>2, PutSteps DEF RingHolds
  <1> DEFINE T == {k \in 0 .. n : RingHolds(r[k], taken \o upto(k))}
  <1>4. 0 \in T
    <2>1. upto(0) = <<>>
      OBVIOUS
    <2>2. taken \o <<>> = taken
      BY ConcatEmptySeq
    <2>3. r[0] = ring
      BY <1>3 DEF PutBy
    <2>4. RingHolds(r[0], taken \o upto(0))
      <3> HIDE DEF upto
      <3> QED BY <2>1, <2>2, <2>3
    <2> QED BY <1>1, <2>4
  <1>5. ASSUME NEW k \in 0 .. n - 1, k \in T PROVE k + 1 \in T
    <2> DEFINE m == taken \o upto(k)
               x == bytes[k + 1]
    <2>1. /\ upto(k) \in Seq(Int) /\ x \in Int /\ upto(k + 1) = Append(upto(k), x) /\ Len(upto(k)) = k
      <3>1. 1 \in 1 .. k + 1 /\ k \in 0 .. Len(bytes) - 1
        BY <1>1
      <3>2. upto(k) \in Seq(Int) /\ x \in Int /\ upto(k + 1) = Append(upto(k), x)
        BY <3>1, PartAndNext
      <3>3. Len(upto(k)) = k
        BY <1>1
      <3> QED BY <3>2, <3>3
    <2>2. /\ taken \o upto(k + 1) = Append(m, x) /\ m \in Seq(Int) /\ Len(m) = Len(taken) + k
      <3> HIDE DEF upto, x
      <3>1. Extends(Int, taken, upto(k), x)
        BY <2>1, AppendJoined
      <3>2. Len(m) = Len(taken) + k
        BY <2>1, ConcatProperties
      <3> QED BY <2>1, <3>1, <3>2 DEF Extends
    <2>3. (pos + (k + 1) - 1) % R = Len(m) % R
      <3> DEFINE a == Len(m)
                 b == pos + (k + 1) - 1
                 q == Len(taken) \div R
      <3>1. a \in Nat /\ b \in Nat /\ q \in Int /\ a = b + R * q
        <4> DEFINE c == R * q
        <4>1. c \in Int /\ q \in Int /\ k \in Nat
          BY <1>1, <1>2
        <4>2. Len(taken) = c + pos
          BY <1>2
        <4>3. a = Len(taken) + k
          BY <2>2
        <4> HIDE DEF c, pos, q, m, R
        <4>4. a \in Nat /\ b \in Nat /\ a = b + c
          BY <1>1, <1>2, <4>1, <4>2, <4>3
        <4> QED BY <4>1, <4>4 DEF c
      <3> HIDE DEF a, b, q, R
      <3>2. a % R = b % R
        BY <1>1, <3>1, ModSame
      <3> QED BY <3>2 DEF a, b, R
    <2>4. r[k + 1] = [r[k] EXCEPT ![Len(m) % R] = x]
      <3>1. r[k + 1] = Put(r[k], pos, bytes, k + 1)
        BY <1>3 DEF PutBy
      <3> HIDE DEF m, x, pos
      <3> QED BY <2>3, <3>1 DEF Put, x
    <2>5. RingHolds(r[k], m)
      BY <1>5
    <2> HIDE DEF m, x, upto, n
    <2>6. RingHolds(r[k + 1], Append(m, x))
      BY <2>1, <2>2, <2>4, <2>5, RingPut
    <2>7. k + 1 \in 0 .. n
      BY <1>1
    <2> QED BY <2>2, <2>6, <2>7
  <1> HIDE DEF T, n
  <1>6. n \in T
    <2>1. \A k \in 0 .. n : k \in T
      BY <1>1, <1>4, <1>5, Climb
    <2> QED BY <1>1, <2>1
  <1>7. upto(n) = bytes
    BY SubSeqFull DEF n
  <1>8. RingAfter(ring, pos, bytes) = r[n]
    BY <1>3 DEF PutBy, n
  <1> HIDE DEF upto
  <1> QED BY <1>6, <1>7, <1>8 DEF T

\* What a ring keeps of what was taken, and where a part occurs in it.
KeptOf(taken) == SubSeq(taken, L!Max({1, Len(taken) - RingSize + 1}), Len(taken))
OccursIn(kept, part) == \E k \in 0 .. Len(kept) - Len(part) : SubSeq(kept, k + 1, k + Len(part)) = part
RingIs(s, taken) ==
    /\ RingHolds(s.ring, taken)
    /\ s.total = Len(taken) /\ s.pos = Len(taken) % RingSize

\* The part of a sequence that is equal to another.
LEMMA SameParts ==
    ASSUME NEW kept \in Seq(Int), NEW part \in Seq(Int), NEW k \in 0 .. Len(kept) - Len(part)
    PROVE  SubSeq(kept, k + 1, k + Len(part)) = part <=> \A j \in 0 .. Len(part) - 1 : kept[k + j + 1] = part[j + 1]
  <1> DEFINE n == Len(part)
             w == SubSeq(kept, k + 1, k + n)
  <1>1. n \in Nat /\ Len(kept) \in Nat
    OBVIOUS
  <1>2. /\ w \in Seq(Int) /\ Len(w) = n
        /\ \A i \in 1 .. n : w[i] = kept[k + i]
    <2>1. k + 1 \in Int /\ k + n \in Int
      BY <1>1
    <2>2. \A j \in k + 1 .. k + n : kept[j] \in Int
      BY <1>1
    <2>3. w \in Seq(Int)
      BY <2>1, <2>2, SubSeqProperties
    <2>4. Len(w) = n /\ \A i \in 1 .. n : w[i] = kept[k + i]
      BY <1>1
    <2> QED BY <2>3, <2>4
  <1> HIDE DEF w
  <1>3. w = part <=> \A i \in 1 .. n : w[i] = part[i]
    <2>1. w = [i \in 1 .. n |-> w[i]] /\ part = [i \in 1 .. n |-> part[i]]
      BY <1>1, <1>2
    <2> HIDE DEF n
    <2> QED BY <2>1, Zenon
  <1>4. (\A i \in 1 .. n : w[i] = part[i]) <=> \A j \in 0 .. n - 1 : kept[k + j + 1] = part[j + 1]
    <2>1. ASSUME \A i \in 1 .. n : w[i] = part[i], NEW j \in 0 .. n - 1 PROVE kept[k + j + 1] = part[j + 1]
      <3>1. j + 1 \in 1 .. n /\ k + (j + 1) = k + j + 1
        BY <1>1
      <3>2. w[j + 1] = kept[k + (j + 1)] /\ w[j + 1] = part[j + 1]
        BY <1>2, <2>1, <3>1
      <3> QED BY <3>1, <3>2
    <2>2. ASSUME \A j \in 0 .. n - 1 : kept[k + j + 1] = part[j + 1], NEW i \in 1 .. n PROVE w[i] = part[i]
      <3>1. i - 1 \in 0 .. n - 1 /\ i - 1 + 1 = i /\ k + (i - 1) + 1 = k + i
        BY <1>1
      <3> DEFINE j == i - 1
      <3> HIDE DEF n
      <3>2. kept[k + j + 1] = part[j + 1]
        BY <2>2, <3>1
      <3>3. kept[k + i] = part[i]
        BY <3>1, <3>2
      <3> QED BY <1>2, <3>3
    <2> QED BY <2>1, <2>2
  <1> QED BY <1>3, <1>4 DEF w

\* contains() finds exactly what the ring keeps.
LEMMA RingReads ==
    ASSUME NEW s, NEW taken \in Seq(Int), NEW part \in Seq(Int), RingIs(s, taken)
    PROVE  L!RingContains(s, part) <=> OccursIn(KeptOf(taken), part)
  <1> DEFINE R == RingSize
             n == Len(taken)
             limit == L!Min({s.total, R})
             low == L!Max({1, n - R + 1})
             kept == SubSeq(taken, low, n)
             pos == s.pos
             cell(start, j) == (pos - limit + start + j + R * 2) % R
  <1>1. n \in Nat /\ R \in Nat \ {0} /\ s.total = n /\ pos = n % R
    BY LoggingAssumption DEF RingIs
  <1>2. limit = (IF n <= R THEN n ELSE R) /\ low = IF n <= R THEN 1 ELSE n - R + 1
    <2>1. L!Min({n, R}) = IF n <= R THEN n ELSE R
      <3>1. n \in Int /\ R \in Int
        BY <1>1
      <3> HIDE DEF n, R
      <3> QED BY <3>1, LeastOfTwo
    <2> DEFINE z == n - R + 1
    <2>2. z \in Int /\ 1 \in Int /\ (1 <= z <=> n - R >= 0) /\ (n - R >= 0 <=> n >= R)
      BY <1>1
    <2>3. L!Max({1, z}) = IF 1 <= z THEN z ELSE 1
      <3> HIDE DEF z
      <3> QED BY <2>2, LargestOfTwo
    <2>4. n = R => z = 1
      BY <1>1
    <2> QED BY <1>1, <2>1, <2>2, <2>3, <2>4
  <1>3. low = n - limit + 1 /\ limit \in 0 .. n /\ limit <= R /\ low \in 1 .. n + 1
    <2> HIDE DEF n, R, limit, low
    <2> QED BY <1>1, <1>2
  <1>4. kept \in Seq(Int) /\ Len(kept) = limit /\ \A i \in 1 .. limit : kept[i] = taken[n - limit + i]
    <2> HIDE DEF limit, low
    <2>1. low \in Int /\ n \in Int /\ \A j \in low .. n : taken[j] \in Int
      BY <1>1, <1>3
    <2>2. kept \in Seq(Int)
      BY <2>1, SubSeqProperties
    <2>3. /\ Len(kept) = IF low <= n THEN n - low + 1 ELSE 0
          /\ \A i \in 1 .. n - low + 1 : kept[i] = taken[low + i - 1]
      BY <1>1, <1>3
    <2>4. n - low + 1 = limit /\ \A i \in 1 .. limit : low + i - 1 = n - limit + i
      BY <1>1, <1>3
    <2>5. Len(kept) = limit
      BY <1>1, <1>3, <2>3
    <2> HIDE DEF kept, n
    <2> QED BY <2>2, <2>3, <2>4, <2>5
  <1>5. ASSUME NEW i \in 0 .. limit - 1 PROVE s.ring[(pos - limit + i + R * 2) % R] = kept[i + 1]
    <2> DEFINE a == n - limit + i
               b == pos - limit + i + R * 2
               q == n \div R
               j == a + 1
    <2>1. n = R * q + pos /\ pos \in 0 .. R - 1 /\ q \in Int
      BY <1>1, ModDiv
    <2>2. a \in Nat /\ b \in Nat /\ b = a + R * (2 - q) /\ 2 - q \in Int
      <3> DEFINE c == R * q
                 d == R * 2
      <3>1. R * (2 - q) = d - c /\ c \in Int /\ d \in Int /\ d = R + R
        <4> HIDE DEF R, q
        <4> QED BY <1>1, <2>1, SMTT(30)
      <3>2. n = c + pos
        BY <2>1
      <3> HIDE DEF c, d, R, q, n, limit, pos
      <3>5. /\ n \in Nat /\ R \in Nat /\ pos \in Nat /\ i \in Nat /\ limit \in Nat
            /\ limit <= n /\ limit <= R
        BY <1>1, <1>3, <2>1
      <3>3. a \in Nat /\ pos - limit + i + d \in Nat /\ pos - limit + i + d = a + (d - c)
        BY <3>1, <3>2, <3>5
      <3>4. 2 - q \in Int
        BY <2>1
      <3> QED BY <3>1, <3>3, <3>4 DEF d
    <2>3. b % R = a % R
      <3> HIDE DEF a, b, R, q
      <3> QED BY <1>1, <2>2, ModSame
    <2>4. j \in 1 .. n /\ j > n - R /\ j - 1 = a
      <3> HIDE DEF limit, n, R
      <3> QED BY <1>1, <1>3, <1>5
    <2>5. s.ring[a % R] = taken[j]
      <3> HIDE DEF a, j, n, R
      <3>1. s.ring[(j - 1) % R] = taken[j]
        BY <2>4 DEF RingIs, RingHolds, n, R
      <3> QED BY <2>4, <3>1
    <2>6. kept[i + 1] = taken[j]
      <3>1. i + 1 \in 1 .. limit /\ n - limit + (i + 1) = j
        <4> HIDE DEF limit, n
        <4> QED BY <1>1, <1>3, <1>5
      <3> HIDE DEF limit, n, kept, j
      <3> QED BY <1>4, <3>1
    <2> HIDE DEF a, b, j, kept
    <2> QED BY <2>3, <2>5, <2>6 DEF b
  <1>6. ASSUME NEW start \in 0 .. limit - Len(part)
        PROVE  (\A j \in 0 .. Len(part) - 1 : s.ring[cell(start, j)] = part[j + 1])
                   <=> SubSeq(kept, start + 1, start + Len(part)) = part
    <2> HIDE DEF limit, kept
    <2>1. start \in 0 .. Len(kept) - Len(part)
      BY <1>4, <1>6
    <2>2. SubSeq(kept, start + 1, start + Len(part)) = part
              <=> \A j \in 0 .. Len(part) - 1 : kept[start + j + 1] = part[j + 1]
      BY <1>4, <2>1, SameParts
    <2>3. ASSUME NEW j \in 0 .. Len(part) - 1 PROVE s.ring[cell(start, j)] = kept[start + j + 1]
      <3>1. Len(part) \in Nat /\ limit \in Nat
        BY <1>3
      <3>2. start + j \in 0 .. limit - 1
        BY <3>1, <1>6, <2>3
      <3> DEFINE i == start + j
      <3>3. s.ring[(pos - limit + i + R * 2) % R] = kept[i + 1]
        BY <3>2, <1>5
      <3>4. pos - limit + i = pos - limit + start + j
        <4>1. pos \in Int
          BY <1>1, ModDiv
        <4> HIDE DEF pos
        <4> QED BY <4>1, <3>1, <3>2
      <3> HIDE DEF R, pos
      <3> QED BY <3>3, <3>4
    <2>4. ASSUME \A j \in 0 .. Len(part) - 1 : s.ring[cell(start, j)] = part[j + 1], NEW j \in 0 .. Len(part) - 1
          PROVE  kept[start + j + 1] = part[j + 1]
      <3>1. s.ring[cell(start, j)] = part[j + 1]
        BY <2>4, Zenon
      <3>2. s.ring[cell(start, j)] = kept[start + j + 1]
        BY <2>3
      <3> HIDE DEF cell
      <3> QED BY <3>1, <3>2
    <2>5. ASSUME \A j \in 0 .. Len(part) - 1 : kept[start + j + 1] = part[j + 1], NEW j \in 0 .. Len(part) - 1
          PROVE  s.ring[cell(start, j)] = part[j + 1]
      <3>1. kept[start + j + 1] = part[j + 1]
        BY <2>5, Zenon
      <3>2. s.ring[cell(start, j)] = kept[start + j + 1]
        BY <2>3
      <3> HIDE DEF cell
      <3> QED BY <3>1, <3>2
    <2> QED BY <2>2, <2>4, <2>5, Zenon
  <1>7. L!RingContains(s, part) <=>
            \E start \in 0 .. limit - Len(part) : \A j \in 0 .. Len(part) - 1 : s.ring[cell(start, j)] = part[j + 1]
    BY DEF L!RingContains
  <1>8. OccursIn(kept, part) <=>
            \E start \in 0 .. limit - Len(part) : SubSeq(kept, start + 1, start + Len(part)) = part
    <2> HIDE DEF kept, limit
    <2> QED BY <1>4 DEF OccursIn
  <1>9. KeptOf(taken) = kept
    BY DEF KeptOf
  <1> HIDE DEF kept, limit, cell
  <1> QED BY <1>6, <1>7, <1>8, <1>9

MemType == [kind : {"memory"}, min : Int, from : Nat, ring : RingType, pos : Nat, total : Nat]
TextType == [kind : {"file", "console"}, min : Int, from : Nat, open : BOOLEAN, text : Seq(Int), stored : Nat]
SinkType == MemType \cup TextType

\* A sink has what it has to have when j is the journal.
TextIs(s, taken) ==
    /\ s.kind = "console" => s.open
    /\ s.open => s.text = taken
    /\ ~s.open => s.text = <<>>
SinkIs(s, j) ==
    /\ s.from \in 0 .. Len(j)
    /\ s.kind = "memory" => RingIs(s, TakenOf(j, s.from, s.min))
    /\ s.kind # "memory" => TextIs(s, TakenOf(j, s.from, s.min))

\* A ring with bytes appended.
LEMMA AppendedRight ==
    ASSUME NEW s \in MemType, NEW taken \in Seq(Int), NEW bytes \in Seq(Int), RingIs(s, taken)
    PROVE  /\ L!AppendedBytes(s, bytes) \in MemType
           /\ L!AppendedBytes(s, bytes).from = s.from /\ L!AppendedBytes(s, bytes).min = s.min
           /\ L!AppendedBytes(s, bytes).kind = "memory"
           /\ RingIs(L!AppendedBytes(s, bytes), taken \o bytes)
  <1> DEFINE u == L!AppendedBytes(s, bytes)
             ring == RingAfter(s.ring, s.pos, bytes)
             pos == (s.pos + Len(bytes)) % RingSize
             total == s.total + Len(bytes)
  <1>1. u = [s EXCEPT !.ring = ring, !.pos = pos, !.total = total]
    BY DEF L!AppendedBytes, RingAfter, Put
  <1>2. /\ RingSize \in Nat \ {0} /\ Len(taken) \in Nat /\ Len(bytes) \in Nat
        /\ s.pos = Len(taken) % RingSize /\ s.total = Len(taken) /\ RingHolds(s.ring, taken)
    BY LoggingAssumption DEF RingIs
  <1>3. RingHolds(ring, taken \o bytes)
    BY <1>2, RingNext
  <1>4. Len(taken \o bytes) = Len(taken) + Len(bytes)
    BY ConcatProperties
  <1>5. pos = Len(taken \o bytes) % RingSize /\ pos \in Nat
    <2> DEFINE a == Len(taken) + Len(bytes)
               b == s.pos + Len(bytes)
               q == Len(taken) \div RingSize
               c == RingSize * q
    <2>1. q \in Int /\ Len(taken) = c + s.pos /\ s.pos \in Nat /\ c \in Int
      BY <1>2, ModDiv
    <2>2. a \in Nat /\ b \in Nat /\ a = b + c
      <3>1. Len(taken) \in Nat /\ Len(bytes) \in Nat
        BY <1>2
      <3> DEFINE x == Len(taken)
                 y == Len(bytes)
                 z == s.pos
      <3>2. x \in Nat /\ y \in Nat /\ z \in Nat /\ c \in Int /\ x = c + z
        BY <3>1, <2>1
      <3>3. a = x + y /\ b = z + y
        OBVIOUS
      <3> HIDE DEF a, b, c, q, x, y, z
      <3> QED BY <3>2, <3>3
    <2>3. a % RingSize = b % RingSize
      <3> HIDE DEF a, b, q
      <3> QED BY <1>2, <2>1, <2>2, ModSame
    <2>4. (b % RingSize) \in Nat
      <3> HIDE DEF b
      <3> QED BY <1>2, <2>2, ModDiv
    <2> QED BY <1>4, <2>3, <2>4
  <1>6. total = Len(taken \o bytes) /\ total \in Nat
    BY <1>2, <1>4
  <1>7. ring \in RingType
    BY <1>3 DEF RingHolds
  <1> HIDE DEF u, ring, pos, total
  <1>8. /\ u \in MemType /\ u.from = s.from /\ u.min = s.min /\ u.kind = "memory"
        /\ u.ring = ring /\ u.pos = pos /\ u.total = total
    BY <1>1, <1>5, <1>6, <1>7 DEF MemType
  <1>9. RingIs(u, taken \o bytes)
    BY <1>3, <1>5, <1>6, <1>8 DEF RingIs
  <1> QED BY <1>8, <1>9 DEF u

\* A sink that gets a record.
LEMMA WrittenRight ==
    ASSUME NEW s \in SinkType, NEW j \in Seq(RecordType), NEW rec \in RecordType, SinkIs(s, j)
    PROVE  L!Written(s, rec) \in SinkType /\ SinkIs(L!Written(s, rec), Append(j, rec))
  <1> DEFINE taken == TakenOf(j, s.from, s.min)
             h == Append(j, rec)
             u == L!Written(s, rec)
             bytes == L!Bytes(rec)
  <1>1. s.from \in 0 .. Len(j) /\ s.min \in Int /\ bytes \in Seq(Int) /\ Len(j) \in Nat
    BY BytesType DEF SinkIs, SinkType, MemType, TextType
  <1>2. taken \in Seq(Int) /\ TakenOf(h, s.from, s.min) = taken \o Piece(rec, s.min)
    BY <1>1, TakenNext
  <1>3. Len(h) = Len(j) + 1
    BY AppendProperties
  <1>4. s.from \in 0 .. Len(h)
    <2> HIDE DEF h
    <2> QED BY <1>1, <1>3
  <1>5. taken \o <<>> = taken
    BY <1>2, ConcatEmptySeq
  <1> HIDE DEF taken, h, bytes
  <1>6. CASE ~L!LevelEnabled(rec.level, s.min)
    <2>1. u = s /\ Piece(rec, s.min) = <<>>
      BY <1>6 DEF L!Written, Piece
    <2>2. TakenOf(h, s.from, s.min) = taken
      BY <1>2, <1>5, <2>1
    <2> HIDE DEF u
    <2>3. SinkIs(s, h)
      BY <1>4, <2>2 DEF SinkIs, taken
    <2> QED BY <2>1, <2>3 DEF u, h
  <1>7. CASE L!LevelEnabled(rec.level, s.min) /\ s.kind = "memory"
    <2>1. u = L!AppendedBytes(s, bytes) /\ Piece(rec, s.min) = bytes
      BY <1>7 DEF L!Written, Piece, L!MemoryWritten, bytes
    <2>2. s \in MemType /\ RingIs(s, taken)
      BY <1>7 DEF SinkType, TextType, SinkIs, taken
    <2>3. /\ u \in MemType /\ u.from = s.from /\ u.min = s.min /\ u.kind = "memory"
          /\ RingIs(u, taken \o bytes)
      <3> HIDE DEF u
      <3> QED BY <1>1, <1>2, <2>1, <2>2, AppendedRight
    <2> HIDE DEF u
    <2>4. TakenOf(h, u.from, u.min) = taken \o bytes
      BY <1>2, <2>1, <2>3
    <2>5. SinkIs(u, h)
      BY <1>4, <2>3, <2>4 DEF SinkIs
    <2> QED BY <2>3, <2>5 DEF u, h, SinkType
  <1>8. CASE L!LevelEnabled(rec.level, s.min) /\ s.kind # "memory"
    <2>1. s \in TextType /\ TextIs(s, taken) /\ Piece(rec, s.min) = bytes
      BY <1>8 DEF SinkType, MemType, SinkIs, Piece, bytes, taken
    <2>2. s.kind \in {"file", "console"} /\ s.open \in BOOLEAN /\ s.text \in Seq(Int)
      BY <2>1 DEF TextType
    <2>3. u = IF s.open THEN [s EXCEPT !.text = s.text \o bytes] ELSE s
      BY <1>8, <2>1, <2>2 DEF L!Written, L!ConsoleWritten, L!FileWritten, TextIs, bytes
    <2> HIDE DEF u
    <2>4. CASE s.open
      <3>1. s.text \o bytes \in Seq(Int)
        BY <1>1, <2>2, ConcatProperties
      <3> DEFINE text == s.text \o bytes
      <3>2. u = [s EXCEPT !.text = text] /\ text = taken \o bytes
        BY <2>1, <2>3, <2>4 DEF TextIs
      <3> HIDE DEF text
      <3>3. /\ u \in TextType /\ u.from = s.from /\ u.min = s.min /\ u.kind = s.kind
            /\ u.text = text /\ u.open = s.open
        BY <2>1, <3>1, <3>2 DEF TextType, text
      <3>4. TakenOf(h, u.from, u.min) = taken \o bytes
        BY <1>2, <2>1, <3>3
      <3>5. TextIs(u, taken \o bytes)
        BY <2>4, <3>2, <3>3 DEF TextIs
      <3>6. SinkIs(u, h)
        BY <1>4, <1>8, <3>3, <3>4, <3>5 DEF SinkIs
      <3> QED BY <3>3, <3>6 DEF u, h, SinkType
    <2>5. CASE ~s.open
      <3>1. u = s
        BY <2>3, <2>5
      <3>2. TextIs(s, TakenOf(h, s.from, s.min))
        BY <2>1, <2>5 DEF TextIs
      <3>3. SinkIs(s, h)
        BY <1>4, <1>8, <3>2 DEF SinkIs
      <3> QED BY <3>1, <3>3 DEF u, h
    <2> QED BY <2>4, <2>5
  <1> QED BY <1>6, <1>7, <1>8

\* A sink that is flushed.
LEMMA FlushedRight ==
    ASSUME NEW s \in SinkType, NEW j, SinkIs(s, j)
    PROVE  L!Flushed(s) \in SinkType /\ SinkIs(L!Flushed(s), j)
  <1> DEFINE u == L!Flushed(s)
  <1>1. CASE s.kind = "memory"
    BY <1>1 DEF L!Flushed
  <1>2. CASE s.kind # "memory"
    <2>1. s \in TextType
      BY <1>2 DEF SinkType, MemType
    <2>2. u = [s EXCEPT !.stored = Len(s.text)] /\ Len(s.text) \in Nat
      BY <1>2, <2>1 DEF L!Flushed, TextType
    <2> HIDE DEF u
    <2>3. /\ u \in TextType /\ u.from = s.from /\ u.min = s.min /\ u.kind = s.kind
          /\ u.text = s.text /\ u.open = s.open
      BY <2>1, <2>2 DEF TextType
    <2>4. TextIs(s, TakenOf(j, s.from, s.min))
      BY <1>2 DEF SinkIs
    <2>5. TextIs(u, TakenOf(j, s.from, s.min))
      BY <2>3, <2>4 DEF TextIs
    <2>6. SinkIs(u, j)
      BY <1>2, <2>3, <2>5 DEF SinkIs
    <2> QED BY <2>3, <2>6 DEF u, SinkType
  <1> QED BY <1>1, <1>2

\* A file that is closed has stored its text.
LEMMA DestroyedStored ==
    ASSUME NEW s \in SinkType, L!Destroyed(s).kind = "file"
    PROVE  ~(L!Destroyed(s).stored < Len(L!Destroyed(s).text))
  <1> DEFINE u == L!Destroyed(s)
  <1>1. s.kind = "file"
    BY DEF L!Destroyed
  <1>2. s \in TextType /\ Len(s.text) \in Nat
    BY <1>1 DEF SinkType, MemType, TextType
  <1>3. u = [s EXCEPT !.stored = Len(s.text)]
    BY <1>1 DEF L!Destroyed, L!Flushed
  <1> HIDE DEF u
  <1>4. u.stored = Len(s.text) /\ u.text = s.text
    BY <1>2, <1>3 DEF TextType
  <1>5. ~(u.stored < Len(u.text))
    BY <1>2, <1>4
  <1> QED BY <1>5 DEF u

\* Sinks that come.
LEMMA SinkMade ==
    ASSUME journal \in Seq(RecordType), NEW min \in Int, NEW open \in BOOLEAN,
           NEW s \in {L!MemorySink(min), L!FileSink(min, open), L!ConsoleSink(min)}
    PROVE  s \in SinkType /\ SinkIs(s, journal)
  <1>1. /\ Len(journal) \in Nat /\ Len(journal) \in 0 .. Len(journal) /\ <<>> \in Seq(Int)
        /\ TakenOf(journal, Len(journal), min) = <<>>
    BY TakenNone
  <1>2. RingSize \in Nat \ {0} /\ 0 % RingSize = 0
    <2>1. RingSize \in Nat \ {0}
      BY LoggingAssumption
    <2>2. 0 \in 0 .. RingSize - 1
      BY <2>1
    <2> QED BY <2>1, <2>2, ModBelow
  <1>3. CASE s = L!MemorySink(min)
    <2>1. L!Ring \in RingType
      BY DEF L!Ring, RingType, L!Stray
    <2>2. /\ s \in MemType /\ s.kind = "memory" /\ s.from = Len(journal) /\ s.min = min
          /\ s.ring = L!Ring /\ s.pos = 0 /\ s.total = 0
      BY <1>1, <1>3, <2>1 DEF L!MemorySink, MemType
    <2>3. RingHolds(L!Ring, <<>>)
      BY <2>1 DEF RingHolds
    <2>4. Len(<<>>) = 0
      OBVIOUS
    <2>5. RingIs(s, <<>>)
      BY <1>2, <2>2, <2>3, <2>4 DEF RingIs
    <2> QED BY <1>1, <2>2, <2>5 DEF SinkIs, SinkType
  <1>4. ASSUME NEW form \in {"file", "console"}, NEW way \in BOOLEAN, form = "console" => way,
               s = [kind |-> form, min |-> min, from |-> Len(journal), open |-> way, text |-> <<>>, stored |-> 0]
        PROVE  s \in SinkType /\ SinkIs(s, journal)
    <2>1. s \in TextType /\ s.from = Len(journal) /\ s.min = min /\ s.kind = form /\ (s.open <=> way) /\ s.text = <<>>
      BY <1>1, <1>4 DEF TextType
    <2>2. TextIs(s, <<>>)
      BY <1>4, <2>1 DEF TextIs
    <2> QED BY <1>1, <2>1, <2>2 DEF SinkIs, SinkType
  <1>5. CASE s = L!FileSink(min, open)
    <2>1. s = [kind |-> "file", min |-> min, from |-> Len(journal), open |-> open, text |-> <<>>, stored |-> 0]
      BY <1>5 DEF L!FileSink
    <2> QED BY <2>1, <1>4
  <1>6. CASE s = L!ConsoleSink(min)
    <2>1. s = [kind |-> "console", min |-> min, from |-> Len(journal), open |-> TRUE, text |-> <<>>, stored |-> 0]
      BY <1>6 DEF L!ConsoleSink, L!FileSink
    <2> QED BY <2>1, <1>4
  <1> QED BY <1>3, <1>5, <1>6

SinksAre == sinks \in Seq(SinkType) /\ \A i \in DOMAIN sinks : SinkIs(sinks[i], journal)
RecordOf(t) == L!Idle(t) /\ record[t] # L!NoRecord /\ record[t].level >= highest[t] => \E i \in DOMAIN journal : journal[i] = record[t]
ThreadIs(t) == (~L!Idle(t) => highest[t] >= level) /\ RecordOf(t)
LType ==
    /\ level \in L!Levels /\ ~lost
    /\ journal \in Seq(RecordType)
    /\ pc \in [Threads -> {"idle", "made", "locking"}]
    /\ record \in [Threads -> RecordType]
    /\ highest \in [Threads -> L!Levels]
LInv == LType /\ SinksAre /\ \A t \in Threads : ThreadIs(t)

\* A logger begins without sinks.
LEMMA LogInit == L!Init => LInv
  <1> SUFFICES ASSUME L!Init PROVE LInv
    OBVIOUS
  <1>1. L!NoRecord \in RecordType
    BY DEF L!NoRecord, RecordType, L!Stray
  <1>2. LType
    BY <1>1 DEF L!Init, LType, L!Levels
  <1>3. SinksAre
    BY DEF L!Init, SinksAre
  <1>4. ASSUME NEW t \in Threads PROVE ThreadIs(t)
    BY DEF L!Init, ThreadIs, RecordOf, L!Idle
  <1> QED BY <1>2, <1>3, <1>4 DEF LInv

\* A record is made; nothing is written.
LEMMA BeginStep ==
    ASSUME LInv, NEW t \in Threads, NEW lvl \in L!Levels, NEW message \in Messages[lvl],
           NEW label \in {"idle", "made"}, label = "idle" => ~(lvl >= level), L!Begin(t, lvl, message, label)
    PROVE  LInv'
  <1> DEFINE rec == [by |-> t, level |-> lvl, message |-> message]
  <1>1. rec \in RecordType /\ rec.level = lvl
    BY LoggingAssumption DEF RecordType, L!Levels
  <1>2. /\ record' = [record EXCEPT ![t] = rec] /\ highest' = [highest EXCEPT ![t] = level]
        /\ pc' = [pc EXCEPT ![t] = label] /\ UNCHANGED <<level, sinks, journal, lost>>
    BY DEF L!Begin, L!Goto
  <1> HIDE DEF rec
  <1>3. LType'
    BY <1>1, <1>2 DEF LInv, LType
  <1>4. SinksAre'
    BY <1>2 DEF LInv, SinksAre
  <1>5. ASSUME NEW u \in Threads PROVE ThreadIs(u)'
    <2>1. CASE u = t
      <3>1. record'[u] = rec /\ highest'[u] = level /\ pc'[u] = label /\ level' = level /\ level \in Int
        BY <1>2, <2>1 DEF LInv, LType, L!Levels
      <3>2. pc'[u] = "idle" => ~(record'[u].level >= highest'[u])
        BY <1>1, <3>1
      <3> QED BY <3>1, <3>2 DEF ThreadIs, RecordOf, L!Idle
    <2>2. CASE u # t
      <3>1. record'[u] = record[u] /\ highest'[u] = highest[u] /\ pc'[u] = pc[u] /\ level' = level /\ journal' = journal
        BY <1>2, <2>2 DEF LInv, LType
      <3> QED BY <3>1 DEF LInv, ThreadIs, RecordOf, L!Idle
    <2> QED BY <2>1, <2>2
  <1> QED BY <1>3, <1>4, <1>5 DEF LInv

\* A record is made or not.
LEMMA LogKeeps ==
    ASSUME LInv, NEW t \in Threads, L!Log(t) \/ L!Write(t)
    PROVE  LInv'
  <1>1. CASE L!Log(t)
    <2>0. PICK lvl \in L!Levels : \E message \in Messages[lvl] :
              L!Begin(t, lvl, message, IF L!LevelEnabled(lvl, level) THEN "made" ELSE "idle")
      BY <1>1 DEF L!Log
    <2>1. PICK message \in Messages[lvl] :
              L!Begin(t, lvl, message, IF L!LevelEnabled(lvl, level) THEN "made" ELSE "idle")
      BY <2>0
    <2> DEFINE label == IF L!LevelEnabled(lvl, level) THEN "made" ELSE "idle"
    <2>2. label \in {"idle", "made"} /\ (label = "idle" => ~(lvl >= level))
      BY DEF L!LevelEnabled
    <2>3. L!Begin(t, lvl, message, label)
      BY <2>1
    <2> HIDE DEF label
    <2> QED BY <2>2, <2>3, BeginStep
  <1>2. CASE L!Write(t)
    <2>0. PICK lvl \in L!Levels : \E message \in Messages[lvl] : L!Begin(t, lvl, message, "made")
      BY <1>2 DEF L!Write
    <2>1. PICK message \in Messages[lvl] : L!Begin(t, lvl, message, "made")
      BY <2>0
    <2> DEFINE label == "made"
    <2>2. label \in {"idle", "made"} /\ (label = "idle" => ~(lvl >= level)) /\ L!Begin(t, lvl, message, label)
      BY <2>1
    <2> HIDE DEF label
    <2> QED BY <2>2, BeginStep
  <1> QED BY <1>1, <1>2

\* The second test of the level.
LEMMA TestStep ==
    ASSUME LInv, NEW t \in Threads, L!WriteTests(t)
    PROVE  LInv'
  <1> DEFINE label == IF L!LevelEnabled(record[t].level, level) THEN "locking" ELSE "idle"
  <1>1. /\ pc' = [pc EXCEPT ![t] = label] /\ pc[t] = "made"
        /\ UNCHANGED <<level, sinks, record, journal, highest, lost>>
    BY DEF L!WriteTests, L!Goto
  <1>2. label \in {"locking", "idle"} /\ (label = "idle" => ~(record[t].level >= level))
    BY DEF L!LevelEnabled
  <1> HIDE DEF label
  <1>3. LType'
    BY <1>1, <1>2 DEF LInv, LType
  <1>4. SinksAre'
    BY <1>1 DEF LInv, SinksAre
  <1>5. ASSUME NEW u \in Threads PROVE ThreadIs(u)'
    <2>1. CASE u = t
      <3>1. /\ pc'[u] = label /\ record' = record /\ highest' = highest /\ level' = level /\ ~L!Idle(u)
            /\ record[u].level \in Int /\ highest[u] \in Int /\ level \in Int
        BY <1>1, <2>1 DEF LInv, LType, L!Levels, RecordType, L!Idle
      <3>2. highest[u] >= level
        BY <3>1 DEF LInv, ThreadIs
      <3>3. label = "idle" => ~(record[u].level >= highest[u])
        BY <1>2, <2>1, <3>1, <3>2
      <3> QED BY <3>1, <3>2, <3>3 DEF ThreadIs, RecordOf, L!Idle
    <2>2. CASE u # t
      <3>1. pc'[u] = pc[u] /\ record' = record /\ highest' = highest /\ level' = level /\ journal' = journal
        BY <1>1, <2>2 DEF LInv, LType
      <3> QED BY <3>1 DEF LInv, ThreadIs, RecordOf, L!Idle
    <2> QED BY <2>1, <2>2
  <1> QED BY <1>3, <1>4, <1>5 DEF LInv

\* Every sink gets the record.
LEMMA SinksStep ==
    ASSUME LInv, NEW t \in Threads, L!WriteSinks(t)
    PROVE  LInv'
  <1> DEFINE rec == record[t]
             h == Append(journal, rec)
             n == Len(sinks)
             next == [i \in 1 .. n |-> L!Written(sinks[i], rec)]
  <1>1. /\ sinks' = next /\ journal' = h /\ pc' = [pc EXCEPT ![t] = "idle"]
        /\ UNCHANGED <<level, record, highest, lost>>
    BY DEF L!WriteSinks, L!Goto, LInv, SinksAre
  <1>2. rec \in RecordType /\ journal \in Seq(RecordType) /\ n \in Nat /\ sinks \in Seq(SinkType)
    BY DEF LInv, LType, SinksAre
  <1>3. /\ h \in Seq(RecordType) /\ Len(h) = Len(journal) + 1 /\ Len(journal) \in Nat
        /\ \A i \in 1 .. Len(journal) : h[i] = journal[i]
        /\ h[Len(journal) + 1] = rec
    BY <1>2, AppendProperties
  <1>4. ASSUME NEW i \in 1 .. n PROVE next[i] \in SinkType /\ SinkIs(next[i], h)
    <2> DEFINE s == sinks[i]
    <2>1. s \in SinkType /\ SinkIs(s, journal)
      BY <1>2, <1>4 DEF LInv, SinksAre
    <2> HIDE DEF s, rec
    <2>2. L!Written(s, rec) \in SinkType /\ SinkIs(L!Written(s, rec), Append(journal, rec))
      BY <1>2, <2>1, WrittenRight
    <2>3. next[i] = L!Written(s, rec)
      BY DEF s
    <2> HIDE DEF next
    <2> QED BY <2>2, <2>3
  <1> HIDE DEF h, next, rec, n
  <1>5. LType'
    BY <1>1, <1>2, <1>3 DEF LInv, LType
  <1>6. next \in Seq(SinkType) /\ DOMAIN next = 1 .. n
    <2>0. n \in Nat
      BY <1>2
    <2>1. next = [i \in 1 .. n |-> next[i]]
      BY DEF next
    <2>2. next \in [1 .. n -> SinkType]
      BY <1>4, <2>1
    <2> HIDE DEF next
    <2> QED BY <2>0, <2>2
  <1>7. SinksAre'
    <2>1. \A i \in DOMAIN next : SinkIs(next[i], h)
      BY <1>4, <1>6
    <2> QED BY <1>1, <1>6, <2>1 DEF SinksAre
  <1>8. ASSUME NEW u \in Threads PROVE ThreadIs(u)'
    <2>1. ASSUME NEW i \in DOMAIN journal PROVE i \in DOMAIN h /\ h[i] = journal[i]
      BY <1>2, <1>3
    <2>2. CASE u = t
      <3>1. pc'[u] = "idle" /\ record'[u] = rec /\ Len(journal) + 1 \in DOMAIN h
        BY <1>1, <1>3, <2>2 DEF LInv, LType, rec
      <3> QED BY <1>1, <1>3, <3>1 DEF ThreadIs, RecordOf, L!Idle
    <2>3. CASE u # t
      <3>1. pc'[u] = pc[u] /\ record' = record /\ highest' = highest /\ level' = level
        BY <1>1, <2>3 DEF LInv, LType
      <3> QED BY <1>1, <2>1, <3>1 DEF LInv, ThreadIs, RecordOf, L!Idle
    <2> QED BY <2>2, <2>3
  <1> QED BY <1>5, <1>7, <1>8 DEF LInv

\* The level changes: a call that is under way has seen the higher one.
LEMMA LevelStep ==
    ASSUME LInv, NEW t \in Threads, L!SetLevel(t)
    PROVE  LInv'
  <1>1. PICK lvl \in L!Levels :
            /\ level' = lvl
            /\ highest' = [u \in Threads |-> IF L!Idle(u) THEN highest[u] ELSE L!Max({highest[u], lvl})]
            /\ UNCHANGED <<sinks, pc, record, journal, lost>>
    BY DEF L!SetLevel
  <1>2. ASSUME NEW u \in Threads
        PROVE  /\ L!Idle(u) => highest'[u] = highest[u]
               /\ ~L!Idle(u) => highest'[u] >= lvl
               /\ highest'[u] \in L!Levels
    <2> DEFINE a == highest[u]
    <2>1. a \in L!Levels /\ a \in Int /\ lvl \in Int
      BY DEF LInv, LType, L!Levels
    <2>2. highest'[u] = IF L!Idle(u) THEN a ELSE L!Max({a, lvl})
      BY <1>1
    <2> HIDE DEF a
    <2>3. L!Max({a, lvl}) = IF a <= lvl THEN lvl ELSE a
      BY <2>1, LargestOfTwo
    <2>4. L!Max({a, lvl}) \in L!Levels /\ L!Max({a, lvl}) >= lvl
      BY <2>1, <2>3
    <2> QED BY <2>1, <2>2, <2>4 DEF a
  <1>3. LType'
    <2>1. highest' \in [Threads -> L!Levels]
      BY <1>1, <1>2
    <2> QED BY <1>1, <2>1 DEF LInv, LType
  <1>4. SinksAre'
    BY <1>1 DEF LInv, SinksAre
  <1>5. ASSUME NEW u \in Threads PROVE ThreadIs(u)'
    BY <1>1, <1>2 DEF LInv, ThreadIs, RecordOf, L!Idle
  <1> QED BY <1>3, <1>4, <1>5 DEF LInv

\* Sinks come.
LEMMA AddStep ==
    ASSUME LInv, NEW t \in Threads, L!AddSink(t)
    PROVE  LInv'
  <1>1. PICK s \in {L!MemorySink(2), L!MemorySink(3), L!FileSink(2, TRUE), L!FileSink(3, FALSE), L!ConsoleSink(3)} :
            sinks' = Append(sinks, s) /\ UNCHANGED <<level, pc, record, journal, highest, lost>>
    BY DEF L!AddSink
  <1>2. sinks \in Seq(SinkType) /\ journal \in Seq(RecordType)
    BY DEF LInv, LType, SinksAre
  <1>3. s \in SinkType /\ SinkIs(s, journal)
    <2>1. \E min \in Int, open \in BOOLEAN : s \in {L!MemorySink(min), L!FileSink(min, open), L!ConsoleSink(min)}
      <3>1. 2 \in Int /\ 3 \in Int /\ TRUE \in BOOLEAN /\ FALSE \in BOOLEAN
        OBVIOUS
      <3> QED BY <1>1, <3>1, Zenon
    <2> QED BY <1>2, <2>1, SinkMade
  <1> DEFINE next == Append(sinks, s)
  <1>4. /\ next \in Seq(SinkType) /\ Len(next) = Len(sinks) + 1 /\ Len(sinks) \in Nat
        /\ \A i \in 1 .. Len(sinks) : next[i] = sinks[i]
        /\ next[Len(sinks) + 1] = s
    BY <1>2, <1>3, AppendProperties
  <1>5. sinks' = next
    BY <1>1
  <1> HIDE DEF next
  <1>6. SinksAre'
    <2>1. ASSUME NEW i \in DOMAIN next PROVE SinkIs(next[i], journal)
      <3>1. i \in 1 .. Len(sinks) \/ i = Len(sinks) + 1
        BY <1>4
      <3>2. i \in 1 .. Len(sinks) => SinkIs(sinks[i], journal)
        BY <1>2 DEF LInv, SinksAre
      <3> QED BY <1>3, <1>4, <3>1, <3>2
    <2> QED BY <1>1, <1>4, <1>5, <2>1 DEF SinksAre
  <1>7. LType' /\ \A u \in Threads : ThreadIs(u)'
    BY <1>1 DEF LInv, LType, ThreadIs, RecordOf, L!Idle
  <1> QED BY <1>6, <1>7 DEF LInv

\* Sinks go, and files are whole then.
LEMMA ClearStep ==
    ASSUME LInv, NEW t \in Threads, L!ClearSinks(t)
    PROVE  LInv'
  <1>1. /\ sinks' = <<>> /\ UNCHANGED <<level, pc, record, journal, highest>>
        /\ lost' = (lost \/ \E i \in DOMAIN sinks :
                       LET s == L!Destroyed(sinks[i]) IN s.kind = "file" /\ s.stored < Len(s.text))
    BY DEF L!ClearSinks
  <1>2. ASSUME NEW i \in DOMAIN sinks, L!Destroyed(sinks[i]).kind = "file"
        PROVE  ~(L!Destroyed(sinks[i]).stored < Len(L!Destroyed(sinks[i]).text))
    <2> DEFINE s == sinks[i]
    <2>1. s \in SinkType
      BY DEF LInv, SinksAre
    <2> HIDE DEF s
    <2>2. L!Destroyed(s).kind = "file" => ~(L!Destroyed(s).stored < Len(L!Destroyed(s).text))
      BY <2>1, DestroyedStored
    <2> QED BY <1>2, <2>2 DEF s
  <1>3. ~lost /\ ~lost'
    BY <1>1, <1>2 DEF LInv, LType
  <1>4. SinksAre'
    BY <1>1 DEF SinksAre
  <1>5. LType' /\ \A u \in Threads : ThreadIs(u)'
    BY <1>1, <1>3 DEF LInv, LType, ThreadIs, RecordOf, L!Idle
  <1> QED BY <1>4, <1>5 DEF LInv

\* Every sink is flushed.
LEMMA FlushStep ==
    ASSUME LInv, NEW t \in Threads, L!Flush(t)
    PROVE  LInv'
  <1> DEFINE n == Len(sinks)
             next == [i \in 1 .. n |-> L!Flushed(sinks[i])]
  <1>1. sinks' = next /\ UNCHANGED <<level, pc, record, journal, highest, lost>>
    BY DEF L!Flush, LInv, SinksAre
  <1>2. n \in Nat /\ sinks \in Seq(SinkType)
    BY DEF LInv, SinksAre
  <1>3. ASSUME NEW i \in 1 .. n PROVE next[i] \in SinkType /\ SinkIs(next[i], journal)
    <2> DEFINE s == sinks[i]
    <2>1. s \in SinkType /\ SinkIs(s, journal)
      BY <1>2, <1>3 DEF LInv, SinksAre
    <2> HIDE DEF s
    <2>2. L!Flushed(s) \in SinkType /\ SinkIs(L!Flushed(s), journal)
      BY <2>1, FlushedRight
    <2>3. next[i] = L!Flushed(s)
      BY DEF s
    <2> HIDE DEF next
    <2> QED BY <2>2, <2>3
  <1> HIDE DEF next, n
  <1>4. next \in Seq(SinkType) /\ DOMAIN next = 1 .. n
    <2>0. n \in Nat
      BY <1>2
    <2>1. next = [i \in 1 .. n |-> next[i]]
      BY DEF next
    <2>2. next \in [1 .. n -> SinkType]
      BY <1>3, <2>1
    <2> HIDE DEF next
    <2> QED BY <2>0, <2>2
  <1>5. SinksAre'
    <2>1. \A i \in DOMAIN next : SinkIs(next[i], journal)
      BY <1>3, <1>4
    <2> QED BY <1>1, <1>4, <2>1 DEF SinksAre
  <1>6. LType' /\ \A u \in Threads : ThreadIs(u)'
    BY <1>1 DEF LInv, LType, ThreadIs, RecordOf, L!Idle
  <1> QED BY <1>5, <1>6 DEF LInv

\* A logger keeps what is recorded.
LEMMA LogNext == LInv /\ [L!Next]_logVars => LInv'
  <1> SUFFICES ASSUME LInv, [L!Next]_logVars PROVE LInv'
    OBVIOUS
  <1>1. CASE L!Next
    <2>1. PICK t \in Threads : \/ L!Log(t) \/ L!Write(t) \/ L!WriteTests(t) \/ L!WriteSinks(t)
                               \/ L!SetLevel(t) \/ L!AddSink(t) \/ L!ClearSinks(t) \/ L!Flush(t)
      BY <1>1, Zenon DEF L!Next
    <2> QED BY <2>1, LogKeeps, TestStep, SinksStep, LevelStep, AddStep, ClearStep, FlushStep
  <1>2. CASE UNCHANGED logVars
    BY <1>2 DEF logVars, LInv, LType, SinksAre, ThreadIs, RecordOf, L!Idle
  <1> QED BY <1>1, <1>2

\* And finds it again.
LEMMA LogRight == LInv => L!LogMatches
  <1> SUFFICES ASSUME LInv PROVE L!LogMatches
    OBVIOUS
  <1>1. ~lost
    BY DEF LInv, LType
  <1>2. ASSUME NEW t \in Threads
        PROVE  L!Idle(t) /\ record[t] # L!NoRecord /\ L!LevelEnabled(record[t].level, highest[t]) =>
                   \E i \in DOMAIN journal : journal[i] = record[t]
    BY DEF LInv, ThreadIs, RecordOf, L!LevelEnabled
  <1> DEFINE parts(kept) == {<<x, L!NewLine>> : x \in {2, 3}} \cup {<<3, x>> : x \in {1, L!NewLine}} \cup {kept}
  <1>3. ASSUME NEW i \in DOMAIN sinks
        PROVE  IF sinks[i].kind # "memory" THEN sinks[i].text = IF sinks[i].open THEN L!TakenBy(sinks[i]) ELSE <<>>
               ELSE \A part \in parts(KeptOf(L!TakenBy(sinks[i]))) :
                        L!RingContains(sinks[i], part) <=> OccursIn(KeptOf(L!TakenBy(sinks[i])), part)
    <2> DEFINE s == sinks[i]
               taken == L!TakenBy(s)
               kept == KeptOf(taken)
    <2>1. s \in SinkType /\ SinkIs(s, journal) /\ journal \in Seq(RecordType)
      BY DEF LInv, LType, SinksAre
    <2> HIDE DEF s
    <2>2. s.min \in Int /\ s.from \in 0 .. Len(journal)
      BY <2>1 DEF SinkType, MemType, TextType, SinkIs
    <2>3. taken = TakenOf(journal, s.from, s.min)
      BY DEF L!TakenBy, TakenOf, TakenParts, TakenPart
    <2>4. taken \in Seq(Int)
      <3>1. L!NoRecord \in RecordType
        BY DEF L!NoRecord, RecordType, L!Stray
      <3> HIDE DEF taken
      <3> QED BY <2>1, <2>2, <2>3, <3>1, TakenNext
    <2> HIDE DEF taken
    <2>5. CASE s.kind # "memory"
      <3>1. TextIs(s, taken)
        BY <2>1, <2>3, <2>5 DEF SinkIs
      <3> QED BY <2>5, <3>1 DEF TextIs, taken, s
    <2>6. CASE s.kind = "memory"
      <3>1. RingIs(s, taken)
        BY <2>1, <2>3, <2>6 DEF SinkIs
      <3>2. kept \in Seq(Int)
        <4> DEFINE low == L!Max({1, Len(taken) - RingSize + 1})
        <4>1. low \in Nat \ {0} /\ Len(taken) \in Nat
          <5> DEFINE z == Len(taken) - RingSize + 1
          <5>1. z \in Int /\ 1 \in Int /\ Len(taken) \in Nat
            BY <2>4, LoggingAssumption
          <5> HIDE DEF z
          <5>2. L!Max({1, z}) = IF 1 <= z THEN z ELSE 1
            BY <5>1, LargestOfTwo
          <5>3. L!Max({1, z}) \in Nat \ {0}
            BY <5>1, <5>2
          <5> QED BY <5>1, <5>3 DEF z
        <4> HIDE DEF low
        <4>2. \A j \in low .. Len(taken) : taken[j] \in Int
          BY <2>4, <4>1
        <4>3. SubSeq(taken, low, Len(taken)) \in Seq(Int)
          BY <4>1, <4>2, SubSeqProperties
        <4> QED BY <4>3 DEF KeptOf, low
      <3> HIDE DEF kept
      <3>3. \A part \in parts(kept) : part \in Seq(Int)
        <4>1. L!NewLine \in Int
          BY DEF L!NewLine
        <4>2. \A x \in Int, y \in Int : <<x, y>> \in Seq(Int)
          OBVIOUS
        <4>3. ASSUME NEW part \in parts(kept)
              PROVE  part = kept \/ (\E x \in {2, 3} : part = <<x, L!NewLine>>) \/ (\E x \in {1, L!NewLine} : part = <<3, x>>)
          BY Zenon
        <4> SUFFICES ASSUME NEW part \in parts(kept) PROVE part \in Seq(Int)
          OBVIOUS
        <4>4. CASE part = kept
          BY <4>4, <3>2
        <4>5. ASSUME NEW x \in {2, 3}, part = <<x, L!NewLine>> PROVE part \in Seq(Int)
          <5>1. x \in Int
            OBVIOUS
          <5> HIDE DEF parts
          <5> QED BY <5>1, <4>1, <4>2, <4>5
        <4>6. ASSUME NEW x \in {1, L!NewLine}, part = <<3, x>> PROVE part \in Seq(Int)
          <5>1. x \in Int /\ 3 \in Int
            BY <4>1
          <5> HIDE DEF parts
          <5> QED BY <5>1, <4>1, <4>2, <4>6
        <4> HIDE DEF parts
        <4> QED BY <4>3, <4>4, <4>5, <4>6
      <3>4. \A part \in Seq(Int) : L!RingContains(s, part) <=> OccursIn(KeptOf(taken), part)
        BY <2>4, <3>1, RingReads
      <3> HIDE DEF parts
      <3> QED BY <2>6, <3>3, <3>4 DEF kept, taken, s
    <2> QED BY <2>5, <2>6
  <1> QED BY <1>1, <1>2, <1>3 DEF L!LogMatches, KeptOf, OccursIn

-----------------------------------------------------------------------------
(***************************************************************************)
(* The three families together.                                            *)
(***************************************************************************)
RecordsInv == (kind = "errors" => EInv) /\ LInv /\ FInv

\* A step that is not about errors, the log or the file leaves what it does
\* not touch.
LEMMA RecordsStutter ==
    /\ LInv /\ UNCHANGED logVars => LInv'
    /\ FInv /\ UNCHANGED fileVars => FInv'
    /\ EInv /\ UNCHANGED objects => EInv'
  <1>1. ASSUME LInv, UNCHANGED logVars PROVE LInv'
    <2>1. [L!Next]_logVars
      BY <1>1
    <2> HIDE DEF LInv
    <2> QED BY <1>1, <2>1, LogNext
  <1>2. ASSUME FInv, UNCHANGED fileVars PROVE FInv'
    <2>1. [F!Next]_fileVars
      BY <1>2
    <2> QED BY <1>2, <2>1, FilesNext
  <1>3. ASSUME EInv, UNCHANGED objects PROVE EInv'
    <2>1. this' = this /\ expected' = expected
      BY <1>3 DEF objects
    <2> QED BY <1>3, <2>1 DEF EInv
  <1> QED BY <1>1, <1>2, <1>3

\* What is recorded is kept and found again: an error and what led to it in its
\* chain and its result, the lines of a logger in each of its sinks, and the
\* bytes of a file in what is read back.
THEOREM RecordsRight == MCSpec => []RecordsMatch
  <1>1. MCInit => RecordsInv
    <2> SUFFICES ASSUME MCInit PROVE RecordsInv
      OBVIOUS
    <2>1. L!Init /\ F!Init
      BY DEF MCInit
    <2>2. kind = "errors" => E!Init
      BY DEF MCInit
    <2> QED BY <2>1, <2>2, LogInit, FilesInit, ErrorsInit DEF RecordsInv
  <1>2. RecordsInv /\ [MCNext]_<<vars, kind, uniqueVars, objects, logVars, fileVars>> => RecordsInv'
    <2> SUFFICES ASSUME RecordsInv, [MCNext]_<<vars, kind, uniqueVars, objects, logVars, fileVars>>
                 PROVE  RecordsInv'
      OBVIOUS
    <2>1. (kind = "errors" => EInv) /\ LInv /\ FInv
      BY DEF RecordsInv
    <2>2. CASE ErrorStep
      <3>1. E!Next /\ kind = "errors" /\ UNCHANGED <<kind, logVars, fileVars>>
        BY <2>2 DEF ErrorStep
      <3>2. [E!Next]_objects
        BY <3>1
      <3> QED BY <2>1, <3>1, <3>2, ErrorsNext, RecordsStutter DEF RecordsInv
    <2>3. CASE LogStep
      <3>1. L!Next /\ UNCHANGED <<kind, objects, fileVars>>
        BY <2>3 DEF LogStep
      <3>2. [L!Next]_logVars
        BY <3>1
      <3> QED BY <2>1, <3>1, <3>2, LogNext, RecordsStutter DEF RecordsInv
    <2>4. CASE FileStep
      <3>1. F!Next /\ UNCHANGED <<kind, objects, logVars>>
        BY <2>4 DEF FileStep
      <3>2. [F!Next]_fileVars
        BY <3>1
      <3> QED BY <2>1, <3>1, <3>2, FilesNext, RecordsStutter DEF RecordsInv
    <2>5. CASE HolderStep
      <3>1. kind # "errors" /\ kind' = kind /\ UNCHANGED <<logVars, fileVars>>
        BY <2>5 DEF HolderStep
      <3> QED BY <2>1, <3>1, RecordsStutter DEF RecordsInv
    <2>6. CASE SharedStep \/ UniqueStep \/ UNCHANGED <<vars, kind, uniqueVars, objects, logVars, fileVars>>
      <3>1. kind' = kind /\ UNCHANGED <<objects, logVars, fileVars>>
        BY <2>6 DEF SharedStep, UniqueStep
      <3> QED BY <2>1, <3>1, RecordsStutter DEF RecordsInv
    <2> QED BY <2>2, <2>3, <2>4, <2>5, <2>6 DEF MCNext
  <1>3. RecordsInv => RecordsMatch
    BY LogRight, FilesRight, ErrorsRight DEF RecordsInv, RecordsMatch
  <1> QED BY <1>1, <1>2, <1>3, PTL DEF MCSpec
=============================================================================
