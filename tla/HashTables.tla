----------------------------- MODULE HashTables -----------------------------
(***************************************************************************)
(* unordered_map, and unordered_set on top of it (containers/associative/  *)
(* unordered_map.h): an array of chains.  buckets[b] is the chain of bucket *)
(* b, first node first.  bucket_count is 0 after a move, and there is no   *)
(* array then.  expected[o] is a set of <<key, value>> pairs.              *)
(* The operators from Chains on, most of them named Set..., are UnorderedSet *)
(* (containers/associative/unordered_set.h): a vector of lists.  A set that *)
(* was moved from has no buckets and keeps its size_; expected[o] is a set *)
(* of keys.                                                                *)
(***************************************************************************)
EXTENDS Objects

CONSTANTS HashOf,          \* the hash value of each key, as a function
          InitialBuckets,  \* INITIAL_BUCKETS, a power of two; 8 in UnorderedSet
          Thresholds       \* values of load_factor_threshold_, in quarters

Key == DOMAIN HashOf
NotFound == <<>>

Table(n) == [buckets |-> [b \in 0 .. n - 1 |-> <<>>], bucket_count |-> n, size |-> 0]

\* hv & (bucket_count_ - 1): the count is a power of two.
BucketIndex(t, k) == HashOf[k] % t.bucket_count

Pair(k, x) == [first |-> k, second |-> x]

\* Nodes enter a chain at its front.
Linked(t, kv) == [t EXCEPT !.buckets[BucketIndex(t, kv.first)] = <<kv>> \o @]

\* Every bucket in turn, every node of it from the front.
AllNodes(t) == FlattenSeq([b \in 1 .. t.bucket_count |-> t.buckets[b - 1]])

\* Fault: a node that moves takes the rest of its chain along.
RehashedWithTail(t, n) ==
    LET firsts == FlattenSeq([b \in 1 .. t.bucket_count |-> SubSeq(t.buckets[b - 1], 1, 1)])
    IN  [FoldLeft(Linked, Table(n), firsts) EXCEPT !.size = t.size]

Rehashed(t, n) ==
    IF n <= t.bucket_count THEN t
    ELSE [FoldLeft(Linked, Table(n), AllNodes(t)) EXCEPT !.size = t.size]

\* The load factor may be 1.0, and it is tested before the insertion.
CheckLoad(t) == IF t.size > t.bucket_count THEN Rehashed(t, t.bucket_count * 2) ELSE t

\* The place of k in its chain, 0 when it is not there.
Place(t, k) ==
    LET chain == t.buckets[BucketIndex(t, k)]
        at == {i \in DOMAIN chain : HashOf[chain[i].first] = HashOf[k] /\ chain[i].first = k}
    IN  IF at = {} THEN 0 ELSE Min(at)

FindNode(t, k) ==
    IF Place(t, k) = 0 THEN NotFound ELSE t.buckets[BucketIndex(t, k)][Place(t, k)]

Inserted(t, kv) ==
    LET g == CheckLoad(t)
    IN  IF Place(g, kv.first) # 0 THEN g
        ELSE [Linked(g, kv) EXCEPT !.size = @ + 1]

Erased(t, k) ==
    IF Place(t, k) = 0 THEN t
    ELSE [t EXCEPT !.buckets[BucketIndex(t, k)] = Without(@, Place(t, k), Place(t, k)),
                   !.size = @ - 1]

Copied(t) == FoldLeft(Inserted, Table(t.bucket_count), AllNodes(t))

Cleared(t) == Table(t.bucket_count)

\* The first bucket from b on that is not empty, or the end.
FirstBucket(t, b) ==
    LET filled == {c \in b .. t.bucket_count - 1 : t.buckets[c] # <<>>}
    IN  IF filled = {} THEN t.bucket_count ELSE Min(filled)

\* umap_iterator: bucket_idx_ and the place in the chain; end() is place 0.
Begin(t) ==
    LET b == FirstBucket(t, 0) IN <<b, IF b < t.bucket_count THEN 1 ELSE 0>>

Advance(t, it) ==
    LET b == FirstBucket(t, it[1] + 1)
    IN  IF it[2] < Len(t.buckets[it[1]]) THEN <<it[1], it[2] + 1>>
        ELSE <<b, IF b < t.bucket_count THEN 1 ELSE 0>>

\* The nodes that a loop from it to end() visits.
RECURSIVE Visited(_, _)
Visited(t, it) ==
    IF it[2] = 0 THEN <<>>
    ELSE <<t.buckets[it[1]][it[2]]>> \o Visited(t, Advance(t, it))
-----------------------------------------------------------------------------
Init ==
    /\ this = [o \in Object |-> Table(InitialBuckets)]
    /\ expected = [o \in Object |-> {}]

KeysOf(e) == {p[1] : p \in e}

\* A table that was moved from may only be cleared, assigned and destroyed.
Usable(o) == this[o].bucket_count > 0

Insert(o) ==
    /\ Usable(o)
    /\ \E k \in Key, x \in Value :
          Update(o, Inserted(this[o], Pair(k, x)),
                 expected[o] \cup IF k \in KeysOf(expected[o]) THEN {} ELSE {<<k, x>>})

\* operator[] and an assignment to what it returns.
AssignAt(o) ==
    /\ Usable(o)
    /\ \E k \in Key, x \in Value :
          LET t == IF Place(this[o], k) = 0 THEN Inserted(this[o], Pair(k, Default)) ELSE this[o]
          IN  Update(o, [t EXCEPT !.buckets[BucketIndex(t, k)][Place(t, k)].second = x],
                     {p \in expected[o] : p[1] # k} \cup {<<k, x>>})

Erase(o) ==
    /\ Usable(o)
    /\ \E k \in Key : Update(o, Erased(this[o], k), {p \in expected[o] : p[1] # k})

\* erase(iterator): the node is looked for in the bucket of its own hash.  It
\* is freed before the iterator goes on from it, so that what comes back is
\* not used here.
EraseAt(o) ==
    /\ Usable(o)
    /\ \E kv \in ToSet(AllNodes(this[o])) :
          Update(o, Erased(this[o], kv.first), expected[o] \ {<<kv.first, kv.second>>})

Clear(o) == Update(o, Cleared(this[o]), {})

CopyAssignment(o, p) == o # p /\ Usable(p) /\ Update(o, Copied(this[p]), expected[p])

Move(o, p) == o # p /\ UpdateBoth(o, this[p], expected[p], p, Table(0), {})

Next ==
    \E o \in Object :
        \/ Insert(o)
        \/ AssignAt(o)
        \/ Erase(o)
        \/ EraseAt(o)
        \/ Clear(o)
        \/ \E p \in Object :
              \/ CopyAssignment(o, p)
              \/ Move(o, p)

Spec == Init /\ [][Next]_objects
-----------------------------------------------------------------------------
\* A table holds the keys that were inserted and not erased, each once and
\* with its last value: find() answers so, and a loop over the table visits
\* each of them once, however often it was rehashed or copied; there are
\* never more than one key per bucket and one.
TableMatches ==
    \A o \in Object :
        LET t == this[o]
            seen == Visited(t, Begin(t))
        IN  /\ t.size = Cardinality(expected[o]) /\ Len(seen) = t.size
            /\ {<<kv.first, kv.second>> : kv \in ToSet(seen)} = expected[o]
            /\ t.size <= t.bucket_count + 1
            /\ Usable(o) =>
                  \A k \in Key : FindNode(t, k) # NotFound <=> k \in KeysOf(expected[o])
-----------------------------------------------------------------------------
Chains(n) == [b \in 1 .. n |-> <<>>]
SetTable(n) == [buckets |-> Chains(n), size |-> 0, threshold |-> 3]

BucketCount(t) == Len(t.buckets)
BucketOf(t, x) == (HashOf[x] % BucketCount(t)) + 1

PushedTo(t, x) == [t EXCEPT !.buckets[BucketOf(t, x)] = Append(@, x), !.size = @ + 1]

\* rehash to any number of buckets, also a smaller one; size_ is counted anew.
SetRehashed(t, n) ==
    FoldLeft(PushedTo, [t EXCEPT !.buckets = Chains(n), !.size = 0], FlattenSeq(t.buckets))

\* load_factor_threshold_ is 3/4 at first; the test comes before the insertion.
CheckRehash(t) ==
    IF 4 * t.size > t.threshold * BucketCount(t) THEN SetRehashed(t, 2 * BucketCount(t)) ELSE t

\* reserve: count / load_factor_threshold_, cut to an integer, and one.
Reserved(t, n) == SetRehashed(t, (4 * n) \div t.threshold + 1)

Found(t, x) == Contains(t.buckets[BucketOf(t, x)], x)

\* Fault: the bucket is chosen before the table is rehashed.
InsertedEarly(t, x) ==
    LET g == CheckRehash(t)
    IN  IF Found(g, x) THEN g
        ELSE [g EXCEPT !.buckets[BucketOf(t, x)] = Append(@, x), !.size = @ + 1]

SetInserted(t, x) ==
    LET g == CheckRehash(t) IN IF Found(g, x) THEN g ELSE PushedTo(g, x)

SetErased(t, x) ==
    IF Found(t, x)
    THEN [t EXCEPT !.buckets[BucketOf(t, x)] = SelectSeq(@, LAMBDA y : y # x),
                   !.size = @ - 1]
    ELSE t

\* The first element from bucket b on, as an iterator <<bucket, place>>.
FirstFrom(t, b) ==
    LET filled == {c \in b .. BucketCount(t) : t.buckets[c] # <<>>}
    IN  IF filled = {} THEN <<BucketCount(t) + 1, 0>> ELSE <<Min(filled), 1>>

SetAdvance(t, it) ==
    IF it[2] < Len(t.buckets[it[1]]) THEN <<it[1], it[2] + 1>> ELSE FirstFrom(t, it[1] + 1)

\* erase(iterator) of the element at `it`: the rest, and the iterator it
\* answers.  After the last element of a chain it increments the end of the
\* chain, which in a list of the standard library is a ring and goes on with
\* the first element of the same chain; if there is none, with the next chain.
ErasedAt(t, it) ==
    LET chain == RemoveAt(t.buckets[it[1]], it[2])
        rest == [t EXCEPT !.buckets[it[1]] = chain, !.size = @ - 1]
    IN  [set |-> rest,
         next |-> IF it[2] <= Len(chain) THEN it
                  ELSE IF chain = <<>> THEN FirstFrom(rest, it[1] + 1) ELSE <<it[1], 1>>]

\* The iterators of t before end().
Positions(t) == {<<b, i>> \in (1 .. BucketCount(t)) \X (1 .. t.size) : i <= Len(t.buckets[b])}

RECURSIVE SetVisited(_, _)
SetVisited(t, it) ==
    IF it[2] = 0 THEN <<>>
    ELSE <<t.buckets[it[1]][it[2]]>> \o SetVisited(t, SetAdvance(t, it))
-----------------------------------------------------------------------------
SetInit ==
    /\ this = [o \in Object |-> SetTable(InitialBuckets)]
    /\ expected = [o \in Object |-> {}]

SetUsable(o) == this[o].buckets # <<>>

SetInsert(o) ==
    SetUsable(o) /\ \E x \in Key : Update(o, SetInserted(this[o], x), expected[o] \cup {x})

SetErase(o) ==
    SetUsable(o) /\ \E x \in Key : Update(o, SetErased(this[o], x), expected[o] \ {x})

SetEraseAt(o) ==
    SetUsable(o) /\ \E it \in Positions(this[o]) :
        Update(o, ErasedAt(this[o], it).set, expected[o] \ {this[o].buckets[it[1]][it[2]]})

MaxLoadFactor(o) ==
    \E lf \in Thresholds : Update(o, [this[o] EXCEPT !.threshold = lf], expected[o])

Rehash(o) ==
    SetUsable(o) /\ \E n \in 1 .. MaxLen : Update(o, SetRehashed(this[o], n), expected[o])

Reserve(o) ==
    SetUsable(o) /\ \E n \in 0 .. MaxLen : Update(o, Reserved(this[o], n), expected[o])

SetClear(o) ==
    Update(o, [this[o] EXCEPT !.buckets = Chains(InitialBuckets), !.size = 0], {})

SetMove(o, p) ==
    o # p /\ UpdateBoth(o, this[p], expected[p], p, [this[p] EXCEPT !.buckets = <<>>], {})

SetNext ==
    \E o \in Object :
        \/ SetInsert(o)
        \/ SetErase(o)
        \/ SetEraseAt(o)
        \/ MaxLoadFactor(o)
        \/ Rehash(o)
        \/ Reserve(o)
        \/ SetClear(o)
        \/ \E p \in Object : SetMove(o, p) \/ Swap(o, p)

SetSpec == SetInit /\ [][SetNext]_objects
-----------------------------------------------------------------------------
\* A set with buckets holds the keys inserted and not erased: find() finds
\* exactly those, and a loop visits each of them once, whatever number of
\* buckets and load factor the set was given.  A loop that goes on from what
\* erase(iterator) answers skips none of the others, and visits none of them
\* again unless it erased the last of several in a chain.
SetMatches ==
    \A o \in Object :
        LET t == this[o]
            seen == SetVisited(t, FirstFrom(t, 1))
        IN  SetUsable(o) =>
               /\ t.size = Cardinality(expected[o]) /\ Len(seen) = t.size
               /\ ToSet(seen) = expected[o]
               /\ \A x \in Key : Found(t, x) <=> x \in expected[o]
               /\ \A it \in Positions(t) :
                     LET after == Tail(SetVisited(t, it))
                         again == SetVisited(ErasedAt(t, it).set, ErasedAt(t, it).next)
                     IN  IF it[2] = Len(t.buckets[it[1]]) /\ it[2] > 1
                         THEN ToSet(after) \subseteq ToSet(again) ELSE again = after
=============================================================================
