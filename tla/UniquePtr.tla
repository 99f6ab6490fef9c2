----------------------------- MODULE UniquePtr ------------------------------
(***************************************************************************)
(* zen::unique_ptr (src/memory/unique_ptr.h), for single objects and for   *)
(* arrays.  A slot is a place that holds one unique_ptr: a variable of the *)
(* program, or the member next of a node, which has the name of the node.  *)
(* Destroying a node destroys its member, and so the list behind it.       *)
(***************************************************************************)
CONSTANTS
    Variables,      \* variables of type unique_ptr<Node, Deleter>
    Arrays,         \* variables of type unique_ptr<T[], Deleter>
    Nodes,          \* single objects, each with a member next
    Blocks,         \* arrays of objects
    Deleters,       \* values of the deleter type, one of them Deleter()
    DefaultDelete,  \* the deleter Deleter()
    Nothing         \* the null pointer

Slots == Variables \cup Arrays \cup Nodes
Pointees == Nodes \cup Blocks

\* Variables and objects have names of their own.
ConstantsAssumption ==
    /\ Variables \cap Arrays = {} /\ Nodes \cap Blocks = {}
    /\ (Variables \cup Arrays) \cap Pointees = {}
    /\ Nothing \notin Pointees
    /\ DefaultDelete \in Deleters

VARIABLES
    ptr,         \* ptr_ of each slot
    deleter,     \* deleter_ of each slot
    source,      \* the deleter that fits the memory of each object
    state,       \* "none", "alive", "dead", or "misused": freed by another deleter
    loose        \* objects that the program itself has to delete

uniqueVars == <<ptr, deleter, source, state, loose>>

\* The default constructor, and the constructor from nullptr.
Init ==
    /\ ptr = [s \in Slots |-> Nothing]
    /\ deleter = [s \in Slots |-> DefaultDelete]
    /\ source = [o \in Pointees |-> DefaultDelete]
    /\ state = [o \in Pointees |-> "none"]
    /\ loose = {}

\* The objects of the list that starts with node or block o: those in every
\* set that holds o and whatever its nodes point to.
Closed(S) == \A n \in S \cap Nodes : ptr[n] # Nothing => ptr[n] \in S
List(o) == {x \in Pointees : \A S \in SUBSET Pointees : {o} \ {Nothing} \subseteq S /\ Closed(S) => x \in S}

\* The program may use its variables, and the members of the nodes it reaches
\* from them.
Roots == {ptr[v] : v \in Variables} \cup loose
Usable(s) == s \in Nodes => \E o \in Roots : s \in List(o)
Alike(s, t) == s \in Arrays <=> t \in Arrays
Fits(s, o) == s \in Arrays <=> o \in Blocks

IsNull(s) == ptr[s] = Nothing
SamePointer(s, t) == ptr[s] = ptr[t]

-----------------------------------------------------------------------------
\* The destructor of a slot: deleter_(ptr_), when there is a pointer.  The
\* objects of the list die one by one, each by the deleter beside the pointer
\* to it, the first by d.
Destroyed(o, d) ==
    LET dies == List(o)
        by(x) == IF x = o THEN d ELSE deleter[CHOOSE n \in dies \cap Nodes : ptr[n] = x]
    IN [x \in Pointees |-> IF x \notin dies THEN state[x]
                          ELSE IF state[x] = "alive" /\ by(x) = source[x] THEN "dead"
                          ELSE "misused"]

\* ptr with the members of the dead nodes gone.
Without(dead, p) == [s \in Slots |-> IF s \in dead THEN Nothing ELSE p[s]]

\* The program allocates an object for deleter d, and owns it.
Allocate(o, d) ==
    /\ state[o] = "none"
    /\ state' = [state EXCEPT ![o] = "alive"]
    /\ source' = [source EXCEPT ![o] = d]
    /\ loose' = loose \cup {o}
    /\ UNCHANGED <<ptr, deleter>>

\* make_unique() initialises a new variable, which the program takes over.
MakeUnique(s, o) ==
    /\ s \in Variables \cup Arrays /\ Fits(s, o) /\ IsNull(s)
    /\ state[o] = "none"
    /\ state' = [state EXCEPT ![o] = "alive"]
    /\ source' = [source EXCEPT ![o] = DefaultDelete]
    /\ ptr' = [ptr EXCEPT ![s] = o]
    /\ deleter' = [deleter EXCEPT ![s] = DefaultDelete]
    /\ UNCHANGED loose

\* unique_ptr(p, d): a variable that held nothing is made anew.
Construct(s, o) ==
    /\ s \in Variables \cup Arrays /\ Fits(s, o) /\ IsNull(s)
    /\ o \in loose
    /\ ptr' = [ptr EXCEPT ![s] = o]
    /\ deleter' = [deleter EXCEPT ![s] = source[o]]
    /\ loose' = loose \ {o}
    /\ UNCHANGED <<source, state>>

\* reset(p): the new pointer is stored first, then the old object deleted by
\* the deleter of the slot, which stays.  The program hands over an object
\* that this deleter fits.  reset() and = nullptr store the null pointer.
Reset(s, o) ==
    /\ Usable(s)
    /\ o # Nothing => Fits(s, o) /\ o \in loose /\ source[o] = deleter[s] /\ s \notin List(o)
    /\ state' = Destroyed(ptr[s], deleter[s])
    /\ ptr' = Without(List(ptr[s]), [ptr EXCEPT ![s] = o])
    /\ loose' = loose \ {o}
    /\ UNCHANGED <<deleter, source>>

\* release(): the program owns the object again.
Release(s) ==
    /\ Usable(s) /\ ~IsNull(s)
    /\ loose' = loose \cup {ptr[s]}
    /\ ptr' = [ptr EXCEPT ![s] = Nothing]
    /\ UNCHANGED <<deleter, source, state>>

\* A slot that dies with the old object of another.
DiesWith(from, to) == from \in List(ptr[to])

\* Fault: the deleter stays behind.
MoveAssignPointer(from, to) ==
    /\ Usable(from) /\ Usable(to) /\ Alike(from, to)
    /\ ~DiesWith(from, to)
    /\ IF from = to
       THEN UNCHANGED <<ptr, deleter, state>>
       ELSE /\ state' = Destroyed(ptr[to], deleter[to])
            /\ ptr' = Without(List(ptr[to]), [ptr EXCEPT ![to] = ptr[from], ![from] = Nothing])
            /\ UNCHANGED deleter
    /\ UNCHANGED <<source, loose>>

\* operator=(unique_ptr&&), of the same type or another: reset(), then pointer
\* and deleter are taken.  The source must not die with the old object: after
\* head = move(head->next) they would be read from the freed node.
MoveAssign(from, to) ==
    /\ Usable(from) /\ Usable(to) /\ Alike(from, to)
    /\ ~DiesWith(from, to)
    /\ IF from = to
       THEN UNCHANGED <<ptr, deleter, state>>
       ELSE /\ state' = Destroyed(ptr[to], deleter[to])
            /\ ptr' = Without(List(ptr[to]), [ptr EXCEPT ![to] = ptr[from], ![from] = Nothing])
            /\ deleter' = [deleter EXCEPT ![to] = deleter[from]]
    /\ UNCHANGED <<source, loose>>

\* The move constructor makes a variable anew from another slot.
MoveConstruct(from, to) ==
    /\ Usable(from) /\ to \in Variables \cup Arrays /\ Alike(from, to)
    /\ from # to /\ IsNull(to)
    /\ ptr' = [ptr EXCEPT ![to] = ptr[from], ![from] = Nothing]
    /\ deleter' = [deleter EXCEPT ![to] = deleter[from]]
    /\ UNCHANGED <<source, state, loose>>

\* swap(): pointers and deleters change places.
Swap(from, to) ==
    /\ Usable(from) /\ Usable(to) /\ Alike(from, to)
    /\ ptr' = [ptr EXCEPT ![to] = ptr[from], ![from] = ptr[to]]
    /\ deleter' = [deleter EXCEPT ![to] = deleter[from], ![from] = deleter[to]]
    /\ UNCHANGED <<source, state, loose>>

-----------------------------------------------------------------------------
SlotStep(S) ==
    \/ \E s \in S : \/ \E o \in Pointees : MakeUnique(s, o) \/ Construct(s, o) \/ Reset(s, o)
                    \/ Reset(s, Nothing) \/ Release(s)
    \/ \E from, to \in S : MoveAssign(from, to) \/ MoveConstruct(from, to) \/ Swap(from, to)

\* The class for arrays repeats the operations of the other.
ArrayStep == SlotStep(Arrays)

Next ==
    \/ \E o \in Pointees, d \in Deleters : Allocate(o, d)
    \/ SlotStep(Variables \cup Nodes)
    \/ ArrayStep
-----------------------------------------------------------------------------
Owners(o) == {s \in Slots : ptr[s] = o}

\* Every object that is alive has one owner, a slot whose deleter fits it or
\* the program; no slot holds an object that is dead; no object was deleted
\* twice, or by a deleter that does not fit.  So two slots never compare equal.
OneOwner ==
    /\ \A o \in Pointees :
          /\ state[o] # "misused"
          /\ state[o] = "alive" =>
                IF o \in loose THEN Owners(o) = {}
                ELSE \E s \in Slots : Owners(o) = {s} /\ deleter[s] = source[o]
          /\ state[o] # "alive" => Owners(o) = {} /\ o \notin loose
    /\ \A s, t \in Slots : SamePointer(s, t) => s = t \/ IsNull(s)
=============================================================================
