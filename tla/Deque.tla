------------------------------- MODULE Deque --------------------------------
(***************************************************************************)
(* Deque (containers/sequential/deque.h): a circular array.  head is the   *)
(* cell of the first element, tail the one after the last; cells count     *)
(* from 0, and in a full array head = tail.                                *)
(*                                                                         *)
(* An iterator is a cell, so the index that insert, erase and emplace work *)
(* out is a difference of cells, cut to a size_t.  strayed records that    *)
(* a call was made for which the result is not what its caller asked for;  *)
(* nothing is known of the object from then on.                            *)
(***************************************************************************)
EXTENDS Objects

Empty == [data |-> <<>>, capacity |-> 0, size |-> 0, head |-> 0, tail |-> 0,
          strayed |-> FALSE]

\* A size_t that stands for a negative difference.
Huge == 1000

Cell(d, i) == (d.head + i) % d.capacity
At(d, i) == d.data[Cell(d, i)]
Elements(d) == [i \in 1 .. d.size |-> At(d, i - 1)]

Reserved(d, n) ==
    IF n <= d.capacity THEN d
    ELSE [d EXCEPT !.data = [c \in 0 .. n - 1 |-> IF c < d.size THEN At(d, c) ELSE Raw],
                   !.capacity = n, !.head = 0, !.tail = d.size]

Grown(d) ==
    IF d.size # d.capacity THEN d
    ELSE Reserved(d, IF d.capacity = 0 THEN 4 ELSE d.capacity * 2)

PushedBack(d, x) ==
    LET g == Grown(d)
    IN  [g EXCEPT !.data[g.tail] = x, !.tail = (@ + 1) % g.capacity, !.size = @ + 1]

\* Fault: head is moved before the array grows.
PushedFrontEarly(d, x) ==
    LET moved == [d EXCEPT !.head = IF d.capacity = 0 THEN 0
                                    ELSE (@ + d.capacity - 1) % d.capacity]
        g == Grown(moved)
    IN  [g EXCEPT !.data[g.head] = x, !.size = @ + 1]

PushedFront(d, x) ==
    LET g == Grown(d)
        h == (g.head + g.capacity - 1) % g.capacity
    IN  [g EXCEPT !.data[h] = x, !.head = h, !.size = @ + 1]

PoppedBack(d) ==
    LET t == (d.tail + d.capacity - 1) % d.capacity
    IN  [d EXCEPT !.data[t] = Raw, !.tail = t, !.size = @ - 1]

PoppedFront(d) ==
    [d EXCEPT !.data[d.head] = Raw, !.head = (@ + 1) % d.capacity, !.size = @ - 1]

Cleared(d) == Upto(LAMBDA e, k : PoppedFront(e), d, 1, d.size)

PushedAll(d, s) == FoldLeft(PushedBack, d, s)

\* Constructors reserve twice the count, the copy constructor the capacity.
Constructed(s) == PushedAll(Reserved(Empty, 2 * Len(s)), s)
Copied(d) == PushedAll(Reserved(Empty, d.capacity), Elements(d))

Resized(d, n) ==
    IF n > d.size
    THEN PushedAll(Reserved(d, 2 * n), Copies(n - d.size, Default))
    ELSE Upto(LAMBDA e, k : PoppedBack(e), d, n + 1, d.size)

\* The cell that an iterator at element i (from 0; size is end()) points to,
\* and pos - begin().
IteratorCell(d, i) ==
    IF i = d.size THEN d.tail ELSE Cell(d, i)
IndexOf(d, i) ==
    LET difference == IteratorCell(d, i) - d.head
    IN  IF difference < 0 THEN Huge ELSE difference

SwapCells(d, i, j) ==
    [d EXCEPT !.data[Cell(d, i)] = At(d, j), !.data[Cell(d, j)] = At(d, i)]

\* insert: the new element goes to the end and is swapped down to its place.
Inserted(d, i, x) ==
    LET index == IndexOf(d, i)
    IN  IF index >= d.size THEN PushedBack(d, x)
        ELSE IF index = 0 THEN PushedFront(d, x)
        ELSE Downto(LAMBDA e, k : SwapCells(e, k, k - 1), PushedBack(d, x),
                    d.size, index + 1)

\* emplace: the new element goes to the front, which is swapped with one
\* element after the other.
Emplaced(d, i, x) ==
    LET index == IndexOf(d, i)
    IN  IF index = d.size THEN PushedBack(d, x)
        ELSE IF index = 0 THEN PushedFront(d, x)
        ELSE Upto(LAMBDA e, k : SwapCells(e, 0, k + 1), PushedFront(d, x), 0,
                  Min({index, d.size}) - 1)

\* erase of count elements at the index that was worked out.
Erased(d, index, count) ==
    LET shifted == Upto(LAMBDA e, k : [e EXCEPT !.data[Cell(e, k)] = At(e, k + count)],
                        d, index, d.size - count - 1)
    IN  Upto(LAMBDA e, k : PoppedBack(e), shifted, 1, count)
-----------------------------------------------------------------------------
Init == this = [o \in Object |-> Empty] /\ expected = [o \in Object |-> <<>>]

Usable(o) == ~this[o].strayed

\* The outcome of a call that takes an iterator.
UpdateAt(o, d, s) == Update(o, [d EXCEPT !.strayed = Elements(d) # s], s)

Construction(o) ==
    \E n \in 0 .. 2, x \in Value \cup {Default} : Update(o, Constructed(Copies(n, x)), Copies(n, x))

CopyAssignment(o, p) ==
    Usable(p) /\ o # p /\ Update(o, Copied(this[p]), expected[p])

Move(o, p) ==
    Usable(p) /\ o # p /\ UpdateBoth(o, this[p], expected[p], p, Empty, <<>>)

Exchange(o, p) == Usable(o) /\ Usable(p) /\ Swap(o, p)

Reserve(o) ==
    Usable(o) /\ Update(o, Reserved(this[o], MaxLen), expected[o])

Resize(o) ==
    /\ Usable(o)
    /\ \E n \in 0 .. MaxLen :
          Update(o, Resized(this[o], n), SubSeq(expected[o] \o Copies(MaxLen, Default), 1, n))

PushBack(o) ==
    /\ Usable(o) /\ Room(o, 1)
    /\ \E x \in Value \cup {Default} : Update(o, PushedBack(this[o], x), Append(expected[o], x))

PushFront(o) ==
    /\ Usable(o) /\ Room(o, 1)
    /\ \E x \in Value \cup {Default} : Update(o, PushedFront(this[o], x), <<x>> \o expected[o])

\* On an empty deque the pops throw.
PopBack(o) ==
    Usable(o) /\ this[o].size > 0 /\ Update(o, PoppedBack(this[o]), Front(expected[o]))

PopFront(o) ==
    Usable(o) /\ this[o].size > 0 /\ Update(o, PoppedFront(this[o]), Tail(expected[o]))

Clear(o) == Usable(o) /\ Update(o, Cleared(this[o]), <<>>)

Insert(o) ==
    /\ Usable(o) /\ Room(o, 1)
    /\ \E i \in 0 .. this[o].size, x \in Value \cup {Default} :
          UpdateAt(o, Inserted(this[o], i, x), InsertAt(expected[o], i + 1, x))

Emplace(o) ==
    /\ Usable(o) /\ Room(o, 1)
    /\ \E i \in 0 .. this[o].size, x \in Value \cup {Default} :
          /\ IndexOf(this[o], i) # Huge   \* or its loop runs off the array
          /\ UpdateAt(o, Emplaced(this[o], i, x), InsertAt(expected[o], i + 1, x))

Erase(o) ==
    /\ Usable(o)
    /\ \E i \in 0 .. this[o].size - 1 :
          UpdateAt(o, Erased(this[o], IndexOf(this[o], i), 1), Without(expected[o], i + 1, i + 1))

\* A range that passes the end of the array, or ends in a full one, would
\* have a negative count, with which the loop runs off the array.
EraseRange(o) ==
    /\ Usable(o)
    /\ \E i, j \in 0 .. this[o].size :
          LET count == IteratorCell(this[o], j) - IteratorCell(this[o], i)
          IN  /\ i < j /\ count > 0
              /\ UpdateAt(o, Erased(this[o], IndexOf(this[o], i), count),
                          Without(expected[o], i + 1, j))

Next ==
    \E o \in Object :
        \/ Construction(o)
        \/ Reserve(o)
        \/ Resize(o)
        \/ PushBack(o)
        \/ PushFront(o)
        \/ PopBack(o)
        \/ PopFront(o)
        \/ Clear(o)
        \/ Insert(o)
        \/ Emplace(o)
        \/ Erase(o)
        \/ EraseRange(o)
        \/ \E p \in Object :
              \/ CopyAssignment(o, p)
              \/ Move(o, p)
              \/ Exchange(o, p)

Spec == Init /\ [][Next]_objects
-----------------------------------------------------------------------------
\* As long as no call strayed, a deque holds the sequence that its calls
\* built, wherever in the array it lies and however often it grew or wrapped
\* around; front() and back() are its ends; and the cells outside it hold no
\* object.
DequeMatches ==
    \A o \in Object :
        LET d == this[o]
            held == {Cell(d, i) : i \in 0 .. d.size - 1}
        IN  Usable(o) =>
               /\ Elements(d) = expected[o]
               /\ d.size > 0 =>
                     /\ d.data[d.head] = expected[o][1]
                     /\ d.data[(d.tail + d.capacity - 1) % d.capacity] = Last(expected[o])
               /\ \A c \in 0 .. d.capacity - 1 : d.data[c] = Raw <=> c \notin held
=============================================================================
