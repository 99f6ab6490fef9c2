------------------------------- MODULE Vector -------------------------------
(***************************************************************************)
(* vector (containers/sequential/vector.h): an array of capacity cells, of *)
(* which the first size hold objects.  live counts the objects constructed *)
(* in the array and not destroyed.  Positions count from 1.                *)
(***************************************************************************)
EXTENDS Objects

Empty == [data |-> <<>>, size |-> 0, capacity |-> 0, live |-> 0]

Allocated(n) == [Empty EXCEPT !.data = Copies(n, Raw), !.capacity = n]

Construct(v, i, x) == [v EXCEPT !.data[i] = x, !.live = @ + 1]

DestroyRange(v, i, j) ==
    [v EXCEPT !.data = [k \in DOMAIN @ |-> IF k \in i .. j THEN Raw ELSE @[k]],
              !.live = @ - (j - i + 1)]

\* copy_construct_range, and the loops that construct one value n times.
ConstructAll(v, i, s) ==
    Upto(LAMBDA w, k : Construct(w, i + k - 1, s[k]), v, 1, Len(s))

Reallocate(v, n) ==
    [ConstructAll(Allocated(n), 1, SubSeq(v.data, 1, v.size)) EXCEPT !.size = v.size]

GrowCapacity(v) == IF v.capacity = 0 THEN 1 ELSE v.capacity * 2

EnsureCapacity(v, n) ==
    IF n <= v.capacity THEN v ELSE Reallocate(v, Max({GrowCapacity(v), n}))

Elements(v) == SubSeq(v.data, 1, v.size)

Constructed(s) ==
    IF s = <<>> THEN Empty
    ELSE [ConstructAll(Allocated(Len(s)), 1, s) EXCEPT !.size = Len(s)]

CopyAssigned(v, s) ==
    LET destroyed == DestroyRange(v, 1, v.size)
        base == IF Len(s) <= v.capacity THEN destroyed ELSE Allocated(Len(s))
    IN  [ConstructAll(base, 1, s) EXCEPT !.size = Len(s)]

Pushed(v, x) ==
    [Construct(EnsureCapacity(v, v.size + 1), v.size + 1, x) EXCEPT !.size = @ + 1]

MoveCell(v, to, from) == [v EXCEPT !.data[to] = v.data[from], !.data[from] = Moved]

\* Fault: the elements are shifted from the front.
InsertedFromFront(v, i, x) ==
    LET n == v.size
        g == EnsureCapacity(v, n + 1)
        opened == MoveCell(Construct(g, n + 1, Moved), n + 1, n)
        shifted == Upto(LAMBDA w, k : MoveCell(w, k, k - 1), opened, i + 1, n)
    IN  IF i > n THEN Pushed(v, x)
        ELSE [shifted EXCEPT !.data[i] = x, !.size = n + 1]

\* The last element is constructed one further, the others move up from the
\* back, and the new one is assigned to the gap.
Inserted(v, i, x) ==
    LET n == v.size
        g == EnsureCapacity(v, n + 1)
        opened == MoveCell(Construct(g, n + 1, Moved), n + 1, n)
        shifted == Downto(LAMBDA w, k : MoveCell(w, k, k - 1), opened, n, i + 1)
    IN  IF i > n THEN Pushed(v, x)
        ELSE [shifted EXCEPT !.data[i] = x, !.size = n + 1]

\* erase(first, last) of the elements i to j, and erase(pos) with i = j.
Erased(v, i, j) ==
    LET count == j - i + 1
        shifted == Upto(LAMBDA w, k : MoveCell(w, k, k + count), v, i, v.size - count)
    IN  [DestroyRange(shifted, v.size - count + 1, v.size) EXCEPT !.size = @ - count]

Resized(v, n, x) ==
    IF n > v.size
    THEN [ConstructAll(EnsureCapacity(v, n), v.size + 1, Copies(n - v.size, x))
             EXCEPT !.size = n]
    ELSE [DestroyRange(v, n + 1, v.size) EXCEPT !.size = n]

ShrunkToFit(v) ==
    IF v.size = v.capacity THEN v
    ELSE IF v.size = 0 THEN Empty ELSE Reallocate(v, v.size)

Cleared(v) == [DestroyRange(v, 1, v.size) EXCEPT !.size = 0]

Assigned(v, n, x) ==
    [ConstructAll(EnsureCapacity(Cleared(v), n), 1, Copies(n, x)) EXCEPT !.size = n]

Equal(v, w) ==
    v.size = w.size /\ \A k \in 1 .. v.size : v.data[k] = w.data[k]

\* operator<: the loop stops at the first place where the two differ.
Less(v, w) ==
    LET common == {k \in 1 .. Min({v.size, w.size}) : v.data[k] # w.data[k]}
    IN  IF common = {} THEN v.size < w.size
        ELSE v.data[Min(common)] < w.data[Min(common)]
-----------------------------------------------------------------------------
Init == this = [o \in Object |-> Empty] /\ expected = [o \in Object |-> <<>>]

\* An object is destroyed and another constructed in its place.
Construction(o) ==
    \E n \in 0 .. MaxLen, x \in Value \cup {Default} :
        Update(o, Constructed(Copies(n, x)), Copies(n, x))

CopyConstruction(o, p) == Update(o, Constructed(Elements(this[p])), expected[p])

CopyAssignment(o, p) ==
    o # p /\ Update(o, CopyAssigned(this[o], Elements(this[p])), expected[p])

\* The move constructor, or move assignment after the old elements are gone.
Move(o, p) == o # p /\ UpdateBoth(o, this[p], expected[p], p, Empty, <<>>)

Reserve(o) ==
    \E n \in 1 .. MaxLen :
        Update(o, IF n > this[o].capacity THEN Reallocate(this[o], n) ELSE this[o],
               expected[o])

ShrinkToFit(o) == Update(o, ShrunkToFit(this[o]), expected[o])

Clear(o) == Update(o, Cleared(this[o]), <<>>)

PushBack(o) ==
    Room(o, 1) /\ \E x \in Value : Update(o, Pushed(this[o], x), Append(expected[o], x))

PopBack(o) ==
    LET v == this[o]
    IN  /\ v.size > 0
        /\ Update(o, [DestroyRange(v, v.size, v.size) EXCEPT !.size = @ - 1],
                  Front(expected[o]))

Insert(o) ==
    /\ Room(o, 1)
    /\ \E i \in 1 .. this[o].size + 1, x \in Value :
          Update(o, Inserted(this[o], i, x), InsertAt(expected[o], i, x))

Erase(o) ==
    \E i, j \in 1 .. this[o].size :
        i <= j /\ Update(o, Erased(this[o], i, j), Without(expected[o], i, j))

Resize(o) ==
    \E n \in 0 .. MaxLen, x \in Value \cup {Default} :
        Update(o, Resized(this[o], n, x),
               SubSeq(expected[o] \o Copies(MaxLen, x), 1, n))

Assign(o) ==
    \E n \in 0 .. MaxLen, x \in Value : Update(o, Assigned(this[o], n, x), Copies(n, x))

Next ==
    \E o \in Object :
        \/ Construction(o)
        \/ Reserve(o)
        \/ ShrinkToFit(o)
        \/ Clear(o)
        \/ PushBack(o)
        \/ PopBack(o)
        \/ Insert(o)
        \/ Erase(o)
        \/ Resize(o)
        \/ Assign(o)
        \/ \E p \in Object :
              \/ CopyConstruction(o, p)
              \/ CopyAssignment(o, p)
              \/ Move(o, p)
              \/ Swap(o, p)

Spec == Init /\ [][Next]_objects
-----------------------------------------------------------------------------
\* A vector holds the sequence that its calls built, whatever its capacity
\* went through; the cells beyond its size hold no object; every object that
\* was constructed is destroyed once, by the vector that owns its array; and
\* comparison is that of the sequences.
VectorMatches ==
    \A o \in Object :
        LET v == this[o]
        IN  /\ Elements(v) = expected[o]
            /\ v.live = v.size /\ Len(v.data) = v.capacity
            /\ \A k \in v.size + 1 .. v.capacity : v.data[k] = Raw
            /\ \A p \in Object :
                  /\ Equal(v, this[p]) <=> expected[o] = expected[p]
                  /\ ~(Less(v, this[p]) /\ Less(this[p], v))
                  /\ Equal(v, this[p]) \/ Less(v, this[p]) \/ Less(this[p], v)
=============================================================================
