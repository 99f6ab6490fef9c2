----------------------------- MODULE SharedPtr -----------------------------
(***************************************************************************)
(* zen::shared_ptr and zen::weak_ptr over their control_block              *)
(* (src/memory/shared_ptr.h, src/memory/weak_ptr.h), in one thread.        *)
(*                                                                         *)
(* A slot is a place that holds one smart pointer: a variable of the       *)
(* program, or a member of a managed object.  Destroying an object         *)
(* destroys its member pointers, which may bring further counts to zero    *)
(* while the first release is still running.  The pending part of the      *)
(* call stack is the sequence todo, innermost call first, and every ++ or  *)
(* -- of a count is a step.                                                *)
(***************************************************************************)
EXTENDS Integers, Sequences, FiniteSets, SequencesExt

CONSTANTS
    Objects,      \* the objects a program makes, each with its control block
    StrongSlots,  \* slots of type shared_ptr
    WeakSlots,    \* slots of type weak_ptr
    MembersOf,    \* for each object, the slots that are its members
    Null          \* the empty pointer

Slots == StrongSlots \cup WeakSlots
MemberSlots == UNION {MembersOf[o] : o \in Objects}
Roots == Slots \ MemberSlots

ASSUME SlotsAssumption == StrongSlots \cap WeakSlots = {} /\ Null \notin Objects
ASSUME MembersAssumption ==
    \A o, p \in Objects : MembersOf[o] \subseteq Slots
                          /\ (o # p => MembersOf[o] \cap MembersOf[p] = {})
ASSUME FiniteAssumption == IsFiniteSet(Slots)

VARIABLES
    target,        \* the object each slot points to (ptr_ and ctrl_)
    shared_count,  \* of the control block of each object
    weak_count,
    object,        \* each managed object: "none", "alive", "dying", "dead", its
                   \* memory kept with the block, or "freed"
    place,         \* where its memory is: "none" yet, "heap" or "block"
    block,         \* each control block: "none", "alive" or "freed"
    todo           \* calls in progress: what is still to be done, innermost first

vars == <<target, shared_count, weak_count, object, place, block, todo>>

Calls == {"release_ref", "release_weak", "destroyed"} \X Objects

TypeOK ==
    /\ target \in [Slots -> Objects \cup {Null}]
    /\ shared_count \in [Objects -> Nat]
    /\ weak_count \in [Objects -> Nat]
    /\ object \in [Objects -> {"none", "alive", "dying", "dead", "freed"}]
    /\ place \in [Objects -> {"none", "heap", "block"}]
    /\ block \in [Objects -> {"none", "alive", "freed"}]
    /\ todo \in Seq(Calls)

Init ==
    /\ target = [s \in Slots |-> Null]
    /\ shared_count = [o \in Objects |-> 0]
    /\ weak_count = [o \in Objects |-> 0]
    /\ object = [o \in Objects |-> "none"]
    /\ place = [o \in Objects |-> "none"]
    /\ block = [o \in Objects |-> "none"]
    /\ todo = <<>>

\* The program may use a root slot, or a member of an object that is alive,
\* between two statements, when no call is in progress.
Usable(s) ==
    /\ todo = <<>>
    /\ s \in MemberSlots => \E o \in Objects : s \in MembersOf[o] /\ object[o] = "alive"

\* The call that gives up what slot s holds, when it holds something.
Release(s) == <<IF s \in StrongSlots THEN "release_ref" ELSE "release_weak", target[s]>>
ReleaseOf(s) == IF target[s] = Null THEN <<>> ELSE <<Release(s)>>

-----------------------------------------------------------------------------
\* A slot that points nowhere.
IsEmpty(s) == target[s] = Null

\* use_count(), unique() and expired() of a slot.
UseCount(s) == IF IsEmpty(s) THEN 0 ELSE shared_count[target[s]]
Unique(s) == UseCount(s) = 1
Expired(w) == UseCount(w) = 0

\* Copying counts the target, when there is one: add_ref(), add_weak().
AddRef(s) == shared_count' = IF IsEmpty(s) THEN shared_count
                             ELSE [shared_count EXCEPT ![target[s]] = @ + 1]
AddWeak(s) == weak_count' = IF IsEmpty(s) THEN weak_count
                            ELSE [weak_count EXCEPT ![target[s]] = @ + 1]

\* A new object in memory of its own or within its block, whose counts are 1,
\* is put into slot s; what the slot held before is released.
NewBlock(s, o, where) ==
    /\ Usable(s) /\ s \in StrongSlots
    /\ block[o] = "none"
    /\ object' = [object EXCEPT ![o] = "alive"]
    /\ place' = [place EXCEPT ![o] = where]
    /\ block' = [block EXCEPT ![o] = "alive"]
    /\ shared_count' = [shared_count EXCEPT ![o] = 1]
    /\ weak_count' = [weak_count EXCEPT ![o] = 1]
    /\ target' = [target EXCEPT ![s] = o]
    /\ todo' = ReleaseOf(s)

\* shared_ptr(T*), reset(T*).
Make(s, o) == NewBlock(s, o, "heap")

\* make_shared(): one allocation for the block and the object.
MakeShared(s, o) == NewBlock(s, o, "block")

\* Fault: the old target is overwritten, not released.
CopyStrongForgets(from, to) ==
    /\ Usable(from) /\ Usable(to) /\ from \in StrongSlots /\ to \in StrongSlots
    /\ AddRef(from)
    /\ target' = [target EXCEPT ![to] = target[from]]
    /\ todo' = <<>>
    /\ UNCHANGED <<weak_count, object, place, block>>

\* shared_ptr::operator=(const shared_ptr&): the copy is counted first, then
\* swapped in, and the temporary releases the old target.
CopyStrong(from, to) ==
    /\ Usable(from) /\ Usable(to) /\ from \in StrongSlots /\ to \in StrongSlots
    /\ AddRef(from)
    /\ target' = [target EXCEPT ![to] = target[from]]
    /\ todo' = ReleaseOf(to)
    /\ UNCHANGED <<weak_count, object, place, block>>

\* Fault: the weak reference is not counted.
CopyWeakUncounted(from, to) ==
    /\ Usable(from) /\ Usable(to) /\ to \in WeakSlots
    /\ target' = [target EXCEPT ![to] = target[from]]
    /\ todo' = ReleaseOf(to)
    /\ UNCHANGED <<shared_count, weak_count, object, place, block>>

\* weak_ptr::operator=(const shared_ptr&), operator=(const weak_ptr&).
CopyWeak(from, to) ==
    /\ Usable(from) /\ Usable(to) /\ to \in WeakSlots
    /\ AddWeak(from)
    /\ target' = [target EXCEPT ![to] = target[from]]
    /\ todo' = ReleaseOf(to)
    /\ UNCHANGED <<shared_count, object, place, block>>

\* Two slots of one type, either of which may be a member.
Alike(from, to) == {from, to} \subseteq StrongSlots \/ {from, to} \subseteq WeakSlots

\* operator=(shared_ptr&&), operator=(weak_ptr&&): no count changes for what
\* is moved, the source becomes empty; a slot moved to itself keeps its target.
Move(from, to) ==
    /\ Usable(from) /\ Usable(to) /\ Alike(from, to)
    /\ target' = [target EXCEPT ![from] = Null, ![to] = target[from]]
    /\ todo' = IF from = to THEN <<>> ELSE ReleaseOf(to)
    /\ UNCHANGED <<shared_count, weak_count, object, place, block>>

\* swap(), of two shared_ptr or two weak_ptr.
Swap(from, to) ==
    /\ Usable(from) /\ Usable(to) /\ Alike(from, to)
    /\ target' = [target EXCEPT ![from] = target[to], ![to] = target[from]]
    /\ UNCHANGED <<shared_count, weak_count, object, place, block, todo>>

\* reset(), operator=(nullptr), and the destruction of a variable.
Reset(s) ==
    /\ Usable(s)
    /\ target[s] # Null
    /\ target' = [target EXCEPT ![s] = Null]
    /\ todo' = ReleaseOf(s)
    /\ UNCHANGED <<shared_count, weak_count, object, place, block>>

\* weak_ptr::lock() assigned to a strong slot: without a target, or when the
\* count of the target is 0, try_add_ref() fails and the slot becomes empty.
Lock(w, s) ==
    /\ Usable(w) /\ Usable(s) /\ w \in WeakSlots /\ s \in StrongSlots
    /\ IF Expired(w)
       THEN /\ target' = [target EXCEPT ![s] = Null]
            /\ UNCHANGED shared_count
       ELSE /\ target' = [target EXCEPT ![s] = target[w]]
            /\ AddRef(w)
    /\ todo' = ReleaseOf(s)
    /\ UNCHANGED <<weak_count, object, place, block>>
-----------------------------------------------------------------------------
\* The releases that the destruction of o makes of its members.
MemberReleases(o) ==
    LET members == SetToSeq({m \in MembersOf[o] : target[m] # Null})
    IN [i \in 1 .. Len(members) |-> Release(members[i])]

\* Fault: the block's weak reference is released before the object is gone.
TeardownBlockFirst(o) ==
    <<<<"release_weak", o>>>> \o MemberReleases(o) \o <<<<"destroyed", o>>>>

\* What follows when the last strong reference to o is released.
Teardown(o) == MemberReleases(o) \o <<<<"destroyed", o>>, <<"release_weak", o>>>>

\* release_ref(): --shared_count; at 0 the object is destroyed, its members
\* first give up what they hold, and then the weak reference that the strong
\* ones held together is released.
ReleaseRef ==
    /\ todo # <<>> /\ Head(todo)[1] = "release_ref"
    /\ LET o == Head(todo)[2]
       IN /\ shared_count' = [shared_count EXCEPT ![o] = @ - 1]
          /\ IF shared_count[o] - 1 = 0
             THEN /\ object' = [object EXCEPT ![o] = "dying"]
                  /\ target' = [s \in Slots |-> IF s \in MembersOf[o] THEN Null ELSE target[s]]
                  /\ todo' = Teardown(o) \o Tail(todo)
             ELSE /\ todo' = Tail(todo)
                  /\ UNCHANGED <<object, target>>
    /\ UNCHANGED <<weak_count, place, block>>

\* destroy_object() has run to its end: the deleter has freed the memory of
\* the object too, a destructor in place has not.
ObjectDestroyed ==
    /\ todo # <<>> /\ Head(todo)[1] = "destroyed"
    /\ LET o == Head(todo)[2]
       IN object' = [object EXCEPT ![o] = IF place[o] = "heap" THEN "freed" ELSE "dead"]
    /\ todo' = Tail(todo)
    /\ UNCHANGED <<target, shared_count, weak_count, place, block>>

\* release_weak(): --weak_count; at 0 the control block is freed, and with it
\* an object that lies within.
ReleaseWeak ==
    /\ todo # <<>> /\ Head(todo)[1] = "release_weak"
    /\ LET o == Head(todo)[2]
       IN /\ weak_count' = [weak_count EXCEPT ![o] = @ - 1]
          /\ IF weak_count[o] - 1 = 0
             THEN /\ block' = [block EXCEPT ![o] = "freed"]
                  /\ object' = IF place[o] = "block" THEN [object EXCEPT ![o] = "freed"] ELSE object
             ELSE UNCHANGED <<block, object>>
    /\ todo' = Tail(todo)
    /\ UNCHANGED <<target, shared_count, place>>

-----------------------------------------------------------------------------
Next ==
    \/ \E s \in Slots : Reset(s) \/ \E o \in Objects : Make(s, o) \/ MakeShared(s, o)
    \/ \E from, to \in Slots :
          CopyStrong(from, to) \/ CopyWeak(from, to) \/ Lock(from, to)
          \/ Move(from, to) \/ Swap(from, to)
    \/ ReleaseRef \/ ObjectDestroyed \/ ReleaseWeak

Spec == Init /\ [][Next]_vars
-----------------------------------------------------------------------------
Pending(call, o) == Cardinality({i \in 1 .. Len(todo) : todo[i] = <<call, o>>})
Strong(o) == {s \in StrongSlots : target[s] = o}
Weak(o)   == {s \in WeakSlots : target[s] = o}

\* The counts are right at every moment, in the middle of a cascade too: one
\* strong count per shared_ptr, one weak count per weak_ptr and one for all
\* strong references together, each until its release has been executed; and
\* an object is alive as long as its strong count is not 0.  Between two
\* statements unique() knows the only owner.
CountsMatch ==
    \A o \in Objects : block[o] = "alive" =>
        /\ shared_count[o] = Cardinality(Strong(o)) + Pending("release_ref", o)
        /\ weak_count[o] = Cardinality(Weak(o)) + Pending("release_weak", o)
                             + (IF shared_count[o] > 0 THEN 1 ELSE 0)
        /\ object[o] = "alive" <=> shared_count[o] > 0
        /\ todo = <<>> => \A s \in Strong(o) : Unique(s) <=> Strong(o) = {s}

\* Nothing that is still to be executed, and no slot, refers to a freed block
\* or, through a shared_ptr, to an object that is being or has been destroyed.
NoDangling ==
    /\ \A i \in 1 .. Len(todo) : block[todo[i][2]] = "alive"
    /\ \A o \in Objects : object[o] \in {"alive", "dying", "dead"} => block[o] = "alive"
    /\ \A s \in Slots : target[s] # Null => block[target[s]] = "alive"
    /\ \A s \in StrongSlots : target[s] # Null => object[target[s]] = "alive"

\* Objects reached from the set S through the shared_ptr members of objects:
\* those in every set that contains S and all that its members point to.
Closed(S) ==
    \A o \in S, m \in StrongSlots : m \in MembersOf[o] /\ target[m] # Null => target[m] \in S
Reach(S) == {o \in Objects : \A T \in SUBSET Objects : S \subseteq T /\ Closed(T) => o \in T}
Rooted == {target[r] : r \in {s \in Roots \cap StrongSlots : target[s] # Null}}

\* No leak but by a cycle: between two statements, an object that no variable
\* reaches is alive only because a cycle of shared_ptr members keeps it, and
\* the control block of a dead object is kept only by weak pointers.
OnlyCyclesLeak ==
    todo = <<>> =>
        /\ \A o \in Objects : object[o] = "alive" /\ o \notin Reach(Rooted) =>
              \E p \in Objects :
                  /\ o \in Reach({p})
                  /\ \E m \in MembersOf[p] \cap StrongSlots :
                        target[m] # Null /\ p \in Reach({target[m]})
        /\ \A o \in Objects :
              object[o] \in {"dead", "freed"} /\ Weak(o) = {} =>
                  object[o] = "freed" /\ block[o] = "freed"
=============================================================================
