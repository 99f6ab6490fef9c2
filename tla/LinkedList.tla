----------------------------- MODULE LinkedList -----------------------------
(***************************************************************************)
(* list (containers/sequential/list.h): nodes in a ring around a sentinel. *)
(* node[n] holds the fields of node n, Free when n is not allocated; an    *)
(* iterator is the node it points to.                                      *)
(***************************************************************************)
EXTENDS Objects

Sentinel == 0
NodeId == 0 .. MaxLen
Free == [data |-> Raw, prev |-> Sentinel, next |-> Sentinel]

\* create_sentinel: a ring of itself.
Empty == [node |-> [n \in NodeId |-> Free], used |-> {}, size |-> 0]

\* create_node: any memory that is free will do.
NewNode(v) == Min(NodeId \ ({Sentinel} \cup v.used))
CreateNode(v, n, x) == [v EXCEPT !.used = @ \cup {n}, !.node[n].data = x]

DestroyNode(v, n) == [v EXCEPT !.used = @ \ {n}, !.node[n] = Free]

\* Fault: the old predecessor is read after it was overwritten.
LinkBeforeLate(v, pos, n) ==
    LET inward == [v EXCEPT !.node[n].prev = v.node[pos].prev, !.node[n].next = pos]
        back == [inward EXCEPT !.node[pos].prev = n]
    IN  [back EXCEPT !.node[back.node[pos].prev].next = n]

LinkBefore(v, pos, n) ==
    LET inward == [v EXCEPT !.node[n].prev = v.node[pos].prev, !.node[n].next = pos]
        forth == [inward EXCEPT !.node[inward.node[pos].prev].next = n]
    IN  [forth EXCEPT !.node[pos].prev = n]

Unlink(v, n) ==
    LET passed == [v EXCEPT !.node[v.node[n].prev].next = v.node[n].next]
    IN  [passed EXCEPT !.node[passed.node[n].next].prev = passed.node[n].prev]

InsertedBefore(v, pos, x) ==
    LET n == NewNode(v)
    IN  [LinkBefore(CreateNode(v, n, x), pos, n) EXCEPT !.size = @ + 1]

PushedBack(v, x) == InsertedBefore(v, Sentinel, x)
PushedFront(v, x) == InsertedBefore(v, v.node[Sentinel].next, x)

Erased(v, n) == [DestroyNode(Unlink(v, n), n) EXCEPT !.size = @ - 1]

\* The nodes from n up to the sentinel, along next or along prev.
RECURSIVE Forward(_, _), Backward(_, _)
Forward(v, n) == IF n = Sentinel THEN <<>> ELSE <<n>> \o Forward(v, v.node[n].next)
Backward(v, n) == IF n = Sentinel THEN <<>> ELSE <<n>> \o Backward(v, v.node[n].prev)

Begin(v) == v.node[Sentinel].next
Nodes(v) == Forward(v, Begin(v))
Elements(v) == [k \in DOMAIN Nodes(v) |-> v.node[Nodes(v)[k]].data]

AppendAll(v, s) == FoldLeft(PushedBack, v, s)

\* assign_from: nodes are reused as far as both lists go, then elements are
\* appended or the rest erased.
Assigned(v, s) ==
    LET own == Nodes(v)
        reused == Upto(LAMBDA w, k : [w EXCEPT !.node[own[k]].data = s[k]],
                       v, 1, Min({Len(own), Len(s)}))
        longer == AppendAll(reused, SubSeq(s, Len(own) + 1, Len(s)))
    IN  FoldLeft(Erased, longer, SubSeq(own, Len(s) + 1, Len(own)))

\* erase(first, last) of the elements i to j.
ErasedRange(v, i, j) == FoldLeft(Erased, v, SubSeq(Nodes(v), i, j))

Cleared(v) ==
    [FoldLeft(DestroyNode, v, Nodes(v)) EXCEPT !.size = 0, !.node[Sentinel] = Free]

\* Every node that the loop passes, the sentinel included, swaps its links.
Reversed(v) ==
    [v EXCEPT !.node = [n \in NodeId |->
        [@[n] EXCEPT !.prev = v.node[n].next, !.next = v.node[n].prev]]]

\* The predicate holds for the values of drop.
Removed(v, drop) ==
    FoldLeft(LAMBDA w, n : IF w.node[n].data \in drop THEN Erased(w, n) ELSE w, v, Nodes(v))

\* unique: cur is the last element kept.
Unique(v) ==
    LET Visit(at, n) ==
            IF at.list.node[at.cur].data = at.list.node[n].data
            THEN [at EXCEPT !.list = Erased(at.list, n)]
            ELSE [at EXCEPT !.cur = n]
    IN  IF v.size <= 1 THEN v
        ELSE FoldLeft(Visit, [list |-> v, cur |-> Begin(v)], Tail(Nodes(v))).list

Equal(v, w) == v.size = w.size /\ Elements(v) = Elements(w)
-----------------------------------------------------------------------------
Init == this = [o \in Object |-> Empty] /\ expected = [o \in Object |-> <<>>]

CopyConstruction(o, p) == Update(o, AppendAll(Empty, Elements(this[p])), expected[p])

CopyAssignment(o, p) ==
    o # p /\ Update(o, Assigned(this[o], Elements(this[p])), expected[p])

\* The moved-from list gets a sentinel of its own.
Move(o, p) == o # p /\ UpdateBoth(o, this[p], expected[p], p, Empty, <<>>)

Fill(o) ==
    \E n \in 0 .. MaxLen, x \in Value :
        Update(o, AppendAll(Empty, Copies(n, x)), Copies(n, x))

PushBack(o) ==
    Room(o, 1) /\ \E x \in Value : Update(o, PushedBack(this[o], x), Append(expected[o], x))

PushFront(o) ==
    Room(o, 1) /\ \E x \in Value : Update(o, PushedFront(this[o], x), <<x>> \o expected[o])

PopBack(o) ==
    this[o].size > 0 /\ Update(o, Erased(this[o], this[o].node[Sentinel].prev), Front(expected[o]))

PopFront(o) ==
    this[o].size > 0 /\ Update(o, Erased(this[o], Begin(this[o])), Tail(expected[o]))

Insert(o) ==
    /\ Room(o, 1)
    /\ \E i \in 1 .. this[o].size, x \in Value :
          Update(o, InsertedBefore(this[o], Nodes(this[o])[i], x), InsertAt(expected[o], i, x))

Erase(o) ==
    \E i, j \in 1 .. this[o].size :
        i <= j /\ Update(o, ErasedRange(this[o], i, j), Without(expected[o], i, j))

Clear(o) == Update(o, Cleared(this[o]), <<>>)

Turn(o) == Update(o, Reversed(this[o]), Reverse(expected[o]))

\* remove(value), and remove_if with a predicate that holds for value only.
RemoveEqual(o) ==
    \E x \in Value :
        Update(o, Removed(this[o], {x}),
               SelectSeq(expected[o], LAMBDA y : y # x))

Deduplicate(o) ==
    LET s == expected[o]
        firsts == SelectSeq([k \in DOMAIN s |-> k], LAMBDA k : k = 1 \/ s[k] # s[k - 1])
    IN  Update(o, Unique(this[o]), [k \in DOMAIN firsts |-> s[firsts[k]]])

Next ==
    \E o \in Object :
        \/ Fill(o)
        \/ PushBack(o)
        \/ PushFront(o)
        \/ PopBack(o)
        \/ PopFront(o)
        \/ Insert(o)
        \/ Erase(o)
        \/ Clear(o)
        \/ Turn(o)
        \/ RemoveEqual(o)
        \/ Deduplicate(o)
        \/ \E p \in Object :
              \/ CopyConstruction(o, p)
              \/ CopyAssignment(o, p)
              \/ Move(o, p)
              \/ Swap(o, p)

Spec == Init /\ [][Next]_objects
-----------------------------------------------------------------------------
\* A list holds the sequence that its calls built, read forwards and
\* backwards; its size is the number of its nodes, and no node outlives its
\* removal from the ring.
ListMatches ==
    \A o \in Object :
        LET v == this[o]
        IN  /\ Elements(v) = expected[o]
            /\ Backward(v, v.node[Sentinel].prev) = Reverse(Nodes(v))
            /\ v.size = Len(expected[o]) /\ v.used = ToSet(Nodes(v))
            /\ \A p \in Object : Equal(v, this[p]) <=> expected[o] = expected[p]
=============================================================================
