--------------------------- MODULE SortedVectors ----------------------------
(***************************************************************************)
(* MultiMap and MultiSet (containers/associative/multimap.h, multiset.h):  *)
(* a std::vector kept sorted by lower_bound.  this[o].map is the data_ of  *)
(* a MultiMap, pairs <<key, value>>; this[o].set that of a MultiSet.       *)
(* expected[o].map[k] is the sequence of values that were inserted with key *)
(* k and not erased, the last one first: equal keys lie in the order       *)
(* opposite to insertion.  expected[o].set[k] is the number of k's.        *)
(*                                                                         *)
(* equal_range() of MultiMap and what uses it are templates that compile   *)
(* only with a comparison that takes its arguments in either order; they   *)
(* are read as written.                                                    *)
(***************************************************************************)
EXTENDS Objects

Key == Value

\* std::lower_bound and std::upper_bound over a sorted vector, as the number
\* of elements before the place they return.
LowerBound(s, Of(_), k) == Cardinality({i \in DOMAIN s : Of(s[i]) < k})
UpperBound(s, Of(_), k) == Cardinality({i \in DOMAIN s : Of(s[i]) <= k})

KeyOf(p) == p[1]

MapLower(s, k) == LowerBound(s, KeyOf, k)
MapUpper(s, k) == UpperBound(s, KeyOf, k)
MapInserted(s, k, x) == InsertAt(s, MapLower(s, k) + 1, <<k, x>>)

\* Fault: the key at the place found is not compared.
MapFindAny(s, k) ==
    LET i == MapLower(s, k) + 1 IN IF i <= Len(s) THEN i ELSE 0

\* The first element with key k, 0 for end().
MapFind(s, k) ==
    LET i == MapLower(s, k) + 1 IN IF i <= Len(s) /\ s[i][1] = k THEN i ELSE 0

MapErased(s, k) == IF MapFind(s, k) = 0 THEN s ELSE RemoveAt(s, MapFind(s, k))

\* equal_range as the elements in it: erase_all takes them away, count counts
\* them, get_values returns their values.
MapRange(s, k) == SubSeq(s, MapLower(s, k) + 1, MapUpper(s, k))
MapErasedAll(s, k) == Without(s, MapLower(s, k) + 1, MapUpper(s, k))
MapCount(s, k) == Len(MapRange(s, k))
MapGetValues(s, k) == [i \in DOMAIN MapRange(s, k) |-> MapRange(s, k)[i][2]]

Itself(x) == x
SetLower(s, x) == LowerBound(s, Itself, x)
SetUpper(s, x) == UpperBound(s, Itself, x)
SetInserted(s, x) == InsertAt(s, SetLower(s, x) + 1, x)
SetFind(s, x) == IF SetLower(s, x) = SetUpper(s, x) THEN 0 ELSE SetLower(s, x) + 1

\* Not less than x, and x not less than it.
SetErased(s, x) ==
    LET i == SetLower(s, x) + 1
    IN  IF i <= Len(s) /\ ~(x < s[i]) THEN RemoveAt(s, i) ELSE s

SetErasedAll(s, x) == Without(s, SetLower(s, x) + 1, SetUpper(s, x))
SetCount(s, x) == SetUpper(s, x) - SetLower(s, x)
-----------------------------------------------------------------------------
Init ==
    /\ this = [o \in Object |-> [map |-> <<>>, set |-> <<>>]]
    /\ expected = [o \in Object |-> [map |-> [k \in Key |-> <<>>], set |-> [k \in Key |-> 0]]]

ChangeMap(o, s, k, values) ==
    Update(o, [this[o] EXCEPT !.map = s], [expected[o] EXCEPT !.map[k] = values])
ChangeSet(o, s, k, n) ==
    Update(o, [this[o] EXCEPT !.set = s], [expected[o] EXCEPT !.set[k] = n])

MapInsert(o) ==
    /\ Len(this[o].map) < MaxLen
    /\ \E k \in Key, x \in Value :
          ChangeMap(o, MapInserted(this[o].map, k, x), k, <<x>> \o expected[o].map[k])

MapErase(o) ==
    \E k \in Key :
        ChangeMap(o, MapErased(this[o].map, k), k,
                  SubSeq(expected[o].map[k], 2, Len(expected[o].map[k])))

MapEraseAll(o) == \E k \in Key : ChangeMap(o, MapErasedAll(this[o].map, k), k, <<>>)

SetInsert(o) ==
    /\ Len(this[o].set) < MaxLen
    /\ \E x \in Value : ChangeSet(o, SetInserted(this[o].set, x), x, expected[o].set[x] + 1)

SetErase(o) ==
    \E x \in Value :
        ChangeSet(o, SetErased(this[o].set, x), x, Max({0, expected[o].set[x] - 1}))

SetEraseAll(o) == \E x \in Value : ChangeSet(o, SetErasedAll(this[o].set, x), x, 0)

Clear(o) ==
    Update(o, [map |-> <<>>, set |-> <<>>],
           [map |-> [k \in Key |-> <<>>], set |-> [k \in Key |-> 0]])

Next ==
    \E o \in Object :
        \/ MapInsert(o)
        \/ MapErase(o)
        \/ MapEraseAll(o)
        \/ SetInsert(o)
        \/ SetErase(o)
        \/ SetEraseAll(o)
        \/ Clear(o)
        \/ \E p \in Object : Swap(o, p)

Spec == Init /\ [][Next]_objects
-----------------------------------------------------------------------------
\* A sorted vector holds what was inserted and not erased, in order of its
\* keys, and the searches find the first of several equal elements, all of
\* them, or none.
SortedVectorsMatch ==
    \A o \in Object :
        LET m == this[o].map
            s == this[o].set
        IN  /\ \A i \in 2 .. Len(m) : m[i - 1][1] <= m[i][1]
            /\ \A i \in 2 .. Len(s) : s[i - 1] <= s[i]
            /\ Len(m) = MapThenSumSet(LAMBDA k : Len(expected[o].map[k]), Key)
            /\ Len(s) = MapThenSumSet(LAMBDA k : expected[o].set[k], Key)
            /\ \A k \in Key :
                  /\ MapGetValues(m, k) = expected[o].map[k]
                  /\ MapCount(m, k) = Len(expected[o].map[k])
                  /\ MapFind(m, k) = 0 <=> expected[o].map[k] = <<>>
                  /\ MapFind(m, k) # 0 =>
                        m[MapFind(m, k)] = <<k, Head(expected[o].map[k])>>
                  /\ SetCount(s, k) = expected[o].set[k]
                  /\ SetFind(s, k) # 0 <=> expected[o].set[k] > 0
=============================================================================
