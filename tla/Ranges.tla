------------------------------- MODULE Ranges -------------------------------
(***************************************************************************)
(* The algorithms on a range: algorithms/sort.h, find.h, transform.h and   *)
(* numeric.h.  A range is a sequence s; where an algorithm works on a part *)
(* of it, two of its positions say which: first, and last, one behind the  *)
(* end.  For the sorts and the searches the elements are <<key, tag>> and  *)
(* compared by their keys, so that equal elements can be told apart.       *)
(*                                                                         *)
(* What an algorithm leaves behind the end it returns is part of its       *)
(* answer: the answers of remove() and unique() are records of the whole   *)
(* array, cells moved from included, and the new end.  Predicates are sets *)
(* of values.  Last come iterators of a sequence s of the three categories *)
(* and what is built from them: advance() to prev() and reverse_iterator   *)
(* (iterators/iterator_base.h), range_view (type/ranges.h); the comparison *)
(* of pairs and tuples (utility/pair.h, tuple.h) and swap()                *)
(* (utility/swap.h).  An iterator is a place at = 0 .. Len(s), and whether *)
(* reverse_iterator wraps it.                                              *)
(***************************************************************************)
EXTENDS Loops

Comp(a, b) == a[1] < b[1]
Same(a, b) == a[1] = b[1]

\* The element at i moves before the greater ones that end at i - 1.
Sunk(s, first, i) ==
    LET j == Max({k \in first .. i : k = first \/ ~Comp(s[i], s[k - 1])})
    IN  SubSeq(s, 1, j - 1) \o <<s[i]>> \o SubSeq(s, j, i - 1) \o SubSeq(s, i + 1, Len(s))

InsertionSort(s, first, last) ==
    LET insert(t, i) == Sunk(t, first, i) IN Upto(insert, s, first + 1, last - 1)

MedianOfThree(s, first, mid, last) ==
    LET order(t, p) == IF Comp(t[p[2]], t[p[1]]) THEN Swapped(t, p[1], p[2]) ELSE t
    IN  FoldLeft(order, s, << <<first, mid>>, <<first, last - 1>>, <<mid, last - 1>> >>)

\* The scans from i upwards and from j downwards, of both partition loops.
ScanUp(s, pivot, i, last) == Min({k \in i .. last : k = last \/ ~Comp(s[k], pivot)})
ScanDown(s, pivot, first, j) == Max({k \in first .. j : k = first \/ Comp(s[k - 1], pivot)})

\* quick_sort swaps *i with *j, and *j is not the element it stopped at.
RECURSIVE Partitioned(_, _, _, _, _, _)
Partitioned(s, pivot, first, last, i, j) ==
    LET up == ScanUp(s, pivot, i, last)
        down == ScanDown(s, pivot, first, j)
    IN  IF up >= down THEN <<s, up>>
        ELSE Partitioned(Swapped(s, up, down), pivot, first, last, up + 1, down - 1)

RECURSIVE QuickSort(_, _, _)
QuickSort(s, first, last) ==
    IF last - first <= 16 THEN InsertionSort(s, first, last)
    ELSE LET t == MedianOfThree(s, first, first + (last - first) \div 2, last)
             p == Partitioned(t, t[last - 1], first, last, first, last - 1)
             i == p[2]
         IN  QuickSort(QuickSort(Swapped(p[1], i, last - 1), first, i), i + 1, last)

\* Fault: the merge stops where one of the runs ends.
MergedShort(a, b) ==
    IF a = <<>> \/ b = <<>> THEN SubSeq(a \o b, 1, 1)
    ELSE IF Comp(a[1], b[1]) THEN a \o b ELSE b \o a

\* Of equal elements the right one goes first.
RECURSIVE Merged(_, _)
Merged(a, b) ==
    IF a = <<>> \/ b = <<>> THEN a \o b
    ELSE IF Comp(Head(a), Head(b)) THEN <<Head(a)>> \o Merged(Tail(a), b)
    ELSE <<Head(b)>> \o Merged(a, Tail(b))

\* One pass: the runs of length width are merged in pairs.
MergePass(s, width) ==
    LET run(k) == SubSeq(s, k * width + 1, Min({(k + 1) * width, Len(s)}))
    IN  FlattenSeq([k \in 1 .. (Len(s) + 2 * width - 1) \div (2 * width) |->
                       Merged(run(2 * k - 2), run(2 * k - 1))])

RECURSIVE MergeSortFrom(_, _)
MergeSortFrom(s, width) ==
    IF width >= Len(s) THEN s ELSE MergeSortFrom(MergePass(s, width), 2 * width)

MergeSort(s) == MergeSortFrom(s, 1)
StableSort(s) == MergeSort(s)

\* The children of i, counted from 0, are 2i + 1 and 2i + 2.
RECURSIVE Heapify(_, _, _)
Heapify(s, n, i) ==
    LET larger(m, c) == IF c < n /\ Comp(s[m + 1], s[c + 1]) THEN c ELSE m
        largest == larger(larger(i, 2 * i + 1), 2 * i + 2)
    IN  IF largest = i THEN s ELSE Heapify(Swapped(s, i + 1, largest + 1), n, largest)

HeapSort(s) ==
    LET sift(t, i) == Heapify(t, Len(s), i - 1)
        extract(t, i) == Heapify(Swapped(t, 1, i), i - 1, 0)
    IN  Downto(extract, Downto(sift, s, Len(s) \div 2, 1), Len(s), 2)

\* The first of the least elements from i on.
Least(s, i) == Min({k \in i .. Len(s) : \A j \in i .. Len(s) : ~Comp(s[j], s[k])})

SelectionSort(s) ==
    LET select(t, i) == Swapped(t, i, Least(t, i)) IN Upto(select, s, 1, Len(s))

PartialSort(s) == QuickSort(s, 1, Len(s) + 1)

\* nth_element exchanges *i with the element before j, until i and j meet.
RECURSIVE Narrowed(_, _, _, _)
Narrowed(s, pivot, i, j) ==
    LET up == ScanUp(s, pivot, i, j)
        down == ScanDown(s, pivot, up, j)
    IN  IF up >= down THEN <<s, up>>
        ELSE Narrowed(Swapped(s, up, down - 1), pivot, up, down - 1)

RECURSIVE NthElement(_, _, _, _)
NthElement(s, first, nth, last) ==
    IF last - first <= 10 THEN InsertionSort(s, first, last)
    ELSE LET mid == first + (last - first) \div 2
             t == Swapped(MedianOfThree(s, first, mid, last), mid, last - 1)
             p == Narrowed(t, t[last - 1], first, last - 1)
             i == p[2]
             u == Swapped(p[1], i, last - 1)
         IN  IF i <= nth THEN NthElement(u, i + 1, nth, last) ELSE NthElement(u, first, nth, i)

InOrder(s) == \A i \in 2 .. Len(s) : ~Comp(s[i], s[i - 1])
-----------------------------------------------------------------------------
Find(s, x) == LET is(i) == Same(s[i], x) IN FirstWhere(is, Len(s))

FindFirstOf(s, set) ==
    LET among(i) == \E j \in DOMAIN set : Same(s[i], set[j]) IN FirstWhere(among, Len(s))

\* The predicate holds for the elements of set.
FindIfNot(s, set) ==
    LET fails(i) == \A j \in DOMAIN set : ~Same(s[i], set[j]) IN FirstWhere(fails, Len(s))

AdjacentFind(s) ==
    LET pair(i) == i < Len(s) /\ Same(s[i], s[i + 1]) IN FirstWhere(pair, Len(s))

Count(s, x) == Cardinality({i \in DOMAIN s : Same(s[i], x)})

\* Fault: the element in the middle stays undecided.
RECURSIVE BoundKeepsMiddle(_, _, _)
BoundKeepsMiddle(before, left, n) ==
    IF n <= 1 THEN left
    ELSE IF left + n \div 2 \in before THEN BoundKeepsMiddle(before, left + n \div 2, n - n \div 2)
    ELSE BoundKeepsMiddle(before, left, n \div 2)

\* The bisection of lower_bound and upper_bound: n positions from left on are
\* undecided; the elements at the positions in before come before the bound.
RECURSIVE Bound(_, _, _)
Bound(before, left, n) ==
    LET mid == n \div 2
    IN  IF n = 0 THEN left
        ELSE IF left + mid \in before THEN Bound(before, left + mid + 1, n - mid - 1)
        ELSE Bound(before, left, mid)

LowerBound(s, x) == Bound({i \in DOMAIN s : Comp(s[i], x)}, 1, Len(s))
UpperBound(s, x) == Bound({i \in DOMAIN s : ~Comp(x, s[i])}, 1, Len(s))
EqualRange(s, x) == <<LowerBound(s, x), UpperBound(s, x)>>

BinarySearch(s, x) == LowerBound(s, x) # Len(s) + 1 /\ ~Comp(x, s[LowerBound(s, x)])

\* How far the sequences s from i on and t agree.
Agreement(s, i, t) ==
    LET differs(k) == i + k - 1 > Len(s) \/ ~Same(s[i + k - 1], t[k])
    IN  FirstWhere(differs, Len(t)) - 1

Search(s, t) ==
    LET here(i) == Agreement(s, i, t) = Len(t)
    IN  IF t = <<>> THEN 1 ELSE FirstWhere(here, Len(s))

EqualTo(s, t) == Agreement(t, 1, s) = Len(s)

LexicographicalCompare(s, t) ==
    LET n == Min({Len(s), Len(t)})
        decides(i) == Comp(s[i], t[i]) \/ Comp(t[i], s[i])
        at == FirstWhere(decides, n)
    IN  IF at <= n THEN Comp(s[at], t[at]) ELSE Len(s) < Len(t)
-----------------------------------------------------------------------------
Tagged(keys) == FoldLeft(LAMBDA s, k : Append(s, <<k, Len(s) + 1>>), <<>>, keys)

Permutes(s, t) == Len(s) = Len(t) /\ ToSet(s) = ToSet(t)

SortedPermutation(s, t) == InOrder(s) /\ Permutes(s, t)

\* Equal elements keep their order.
Stable(s) == \A i \in 2 .. Len(s) : Same(s[i - 1], s[i]) => s[i - 1][2] < s[i][2]

NthInPlace(s, n) ==
    /\ \A i \in 1 .. n : ~Comp(s[n], s[i])
    /\ \A i \in n .. Len(s) : ~Comp(s[i], s[n])

\* What the sorts owe their callers.
SortsRight(keys) ==
    LET s == Tagged(keys)
        last == Len(s) + 1
    IN  /\ \A t \in {InsertionSort(s, 1, last), MergeSort(s), HeapSort(s), SelectionSort(s)} :
              SortedPermutation(t, s)
        /\ Stable(InsertionSort(s, 1, last))
        /\ Len(s) <= 16 => SortedPermutation(PartialSort(s), s)
        /\ \A nth \in DOMAIN s :
              LET t == NthElement(s, 1, nth, last) IN Permutes(t, s) /\ NthInPlace(t, nth)

\* What the searches owe their callers, for each key x and each short pattern.
FindsRight(keys, patterns) ==
    LET s == Tagged(keys)
        sorted == HeapSort(s)
    IN  \A pattern \in patterns :
          LET t == Tagged(pattern)
              x == IF t = <<>> THEN <<0, 0>> ELSE t[1]
              occurs(i) == /\ i + Len(t) <= Len(s) + 1
                           /\ SubSeq(keys, i, i + Len(t) - 1) = pattern
              below == Cardinality({i \in DOMAIN s : Comp(s[i], x)})
          IN  /\ Search(s, t) = Min({last \in {Len(s) + 1} : t # <<>>}
                                      \cup {i \in 1 .. Len(s) + 1 : occurs(i)})
              /\ EqualRange(sorted, x) = <<below + 1, below + 1 + Count(s, x)>>
              /\ BinarySearch(sorted, x) <=> Find(s, x) <= Len(s)
              /\ EqualTo(t, s) <=> IsPrefix(pattern, keys)
              /\ LexicographicalCompare(s, t) =>
                    ~LexicographicalCompare(t, s) /\ ~EqualTo(t, s)
              /\ pattern # keys => LexicographicalCompare(s, t) \/ LexicographicalCompare(t, s)
              /\ s # <<>> => (FindIfNot(s, t) = 1 <=> FindFirstOf(s, t) # 1)
              /\ FindFirstOf(s, t) = Min({Find(s, t[i]) : i \in DOMAIN t} \cup {Len(s) + 1})

\* What the documentation says of sort(): the range ends up in order.
SortSorts(keys) == SortedPermutation(PartialSort(Tagged(keys)), Tagged(keys))
-----------------------------------------------------------------------------
Moved == -2

\* transform, for_each: op is a function.  copy_if: the output grows.
Transform(s, op) == [i \in DOMAIN s |-> op[s[i]]]
CopyIf(s, pred) ==
    LET copy(out, x) == IF x \in pred THEN Append(out, x) ELSE out IN FoldLeft(copy, <<>>, s)

\* copy and copy_backward of positions i to j of s to the place where k is
\* the first, and the last, of the destination, within one array.
CopyCell(s, from, to) == [s EXCEPT ![to] = s[from]]
CopyWithin(s, i, j, k) ==
    LET copy(t, m) == CopyCell(t, m, k + m - i) IN Upto(copy, s, i, j)
CopyBackwardWithin(s, i, j, k) ==
    LET copy(t, m) == CopyCell(t, m, k + m - j) IN Downto(copy, s, j, i)

\* The same with the element moved out of its cell.
MoveCell(s, from, to) == [s EXCEPT ![to] = s[from], ![from] = Moved]
MoveWithin(s, i, j, k) ==
    LET move(t, m) == MoveCell(t, m, k + m - i) IN Upto(move, s, i, j)
MoveBackwardWithin(s, i, j, k) ==
    LET move(t, m) == MoveCell(t, m, k + m - j) IN Downto(move, s, j, i)

FillN(s, n, x) == [i \in DOMAIN s |-> IF i <= n THEN x ELSE s[i]]

\* generate with a generator that counts up from x; iota does the same.
Generate(s, x) == [i \in DOMAIN s |-> x + i - 1]

Replace(s, old, new) == [i \in DOMAIN s |-> IF s[i] = old THEN new ELSE s[i]]

\* result trails first; an element is moved only when the two differ.
RemoveIf(s, pred) ==
    LET keep(a, i) ==
            IF a.array[i] \in pred THEN a
            ELSE [array |-> IF i = a.result THEN a.array ELSE MoveCell(a.array, i, a.result),
                  result |-> a.result + 1]
    IN  Upto(keep, [array |-> s, result |-> 1], 1, Len(s))

Unique(s) ==
    LET keep(a, i) ==
            IF a.array[a.result] = a.array[i] THEN a
            ELSE [array |-> IF i = a.result + 1 THEN a.array
                            ELSE MoveCell(a.array, i, a.result + 1),
                  result |-> a.result + 1]
        walked == Upto(keep, [array |-> s, result |-> 1], 2, Len(s))
    IN  [walked EXCEPT !.result = IF s = <<>> THEN 1 ELSE @ + 1]

ReverseInPlace(s) ==
    LET exchange(t, i) == Swapped(t, i, Len(s) + 1 - i) IN Upto(exchange, s, 1, Len(s) \div 2)

ReverseCopy(s) == [i \in DOMAIN s |-> s[Len(s) + 1 - i]]

\* The loop of rotate: first and next go up together; when next reaches the
\* end it goes back to middle, and when first reaches middle, middle moves.
RECURSIVE RotateFrom(_, _, _, _, _)
RotateFrom(s, first, next, middle, last) ==
    IF first = next THEN [array |-> s, result |-> first]
    ELSE LET at == next + 1
         IN  RotateFrom(Swapped(s, first, next), first + 1,
                        IF at = last THEN middle ELSE at,
                        IF at # last /\ first + 1 = middle THEN at ELSE middle,
                        last)

\* Fault: middle stays where it was.
RotateStuck(s, first, middle, last) ==
    IF first = middle \/ middle = last THEN [array |-> s, result |-> first]
    ELSE [array |-> Swapped(s, first, middle), result |-> first + last - middle]

Rotate(s, first, middle, last) ==
    IF first = middle \/ middle = last THEN [array |-> s, result |-> first]
    ELSE RotateFrom(s, first, middle, middle, last)

\* shuffle draws r[i], any number below i + 1, for each place from the end.
Shuffle(s, r) ==
    LET exchange(t, i) == Swapped(t, i + 1, r[i] + 1) IN Downto(exchange, s, Len(s) - 1, 1)

Partition(s, pred) ==
    LET sift(a, i) ==
            IF a.array[i] \notin pred THEN a
            ELSE [array |-> Swapped(a.array, i, a.result), result |-> a.result + 1]
    IN  Upto(sift, [array |-> s, result |-> 1], 1, Len(s))

\* Both halves, and then the second part of the left half behind the first
\* part of the right half.  The answer for one element is an end or a start.
RECURSIVE StablePartition(_, _, _, _)
StablePartition(s, first, last, pred) ==
    IF last - first <= 1
    THEN [array |-> s,
          result |-> IF first = last THEN last ELSE IF s[first] \in pred THEN last ELSE first]
    ELSE LET middle == first + (last - first) \div 2
             left == StablePartition(s, first, middle, pred)
             right == StablePartition(left.array, middle, last, pred)
         IN  Rotate(right.array, left.result, middle, right.result)

IsPartitioned(s, pred) ==
    LET fails(i) == s[i] \notin pred
    IN  \A i \in FirstWhere(fails, Len(s)) .. Len(s) : s[i] \notin pred
-----------------------------------------------------------------------------
Accumulate(s, init) == FoldLeft(LAMBDA acc, x : acc + x, init, s)

InnerProduct(s, t, init) ==
    LET add(acc, i) == acc + s[i] * t[i] IN Upto(add, init, 1, Len(s))

\* The output may be the input itself: prev is kept apart.
AdjacentDifference(s) ==
    LET step(a, x) == [out |-> Append(a.out, x - a.prev), prev |-> x]
    IN  FoldLeft(step, [out |-> <<>>, prev |-> 0], s).out

PartialSum(s) ==
    LET step(a, x) == [out |-> Append(a.out, a.acc + x), acc |-> a.acc + x]
    IN  FoldLeft(step, [out |-> <<>>, acc |-> 0], s).out

\* Of equal elements min_element and max_element take the first.
MinElement(s) ==
    LET better(m, i) == IF s[i] < s[m] THEN i ELSE m IN Upto(better, 1, 2, Len(s))
MaxElement(s) ==
    LET better(m, i) == IF s[m] < s[i] THEN i ELSE m IN Upto(better, 1, 2, Len(s))
MinMaxElement(s) == <<MinElement(s), MaxElement(s)>>

MinOf(a, b) == IF b < a THEN b ELSE a
MaxOf(a, b) == IF a < b THEN b ELSE a
-----------------------------------------------------------------------------
Kept(a) == SubSeq(a.array, 1, a.result - 1)
Rest(a) == SubSeq(a.array, a.result, Len(a.array))
Outside(s, pred) == SelectSeq(s, LAMBDA x : x \notin pred)
Inside(s, pred) == SelectSeq(s, LAMBDA x : x \in pred)
SameElements(s, t) == \A x \in ToSet(s \o t) : Len(Inside(s, {x})) = Len(Inside(t, {x}))

\* What the algorithms that rearrange a range owe their callers.
RearrangedRight(s) ==
    LET n == Len(s)
    IN  /\ \A pred \in SUBSET ToSet(s) :
              LET part == Partition(s, pred)
              IN  /\ Kept(RemoveIf(s, pred)) = Outside(s, pred)
                  /\ CopyIf(s, pred) = Inside(s, pred)
                  /\ SameElements(part.array, s) /\ IsPartitioned(part.array, pred)
                  /\ part.result = Len(Inside(s, pred)) + 1
        /\ \A first \in 1 .. n + 1 : \A middle \in first .. n + 1 :
              LET a == Rotate(s, first, middle, n + 1)
              IN  a.array = SubSeq(s, 1, first - 1) \o SubSeq(s, middle, n)
                               \o SubSeq(s, first, middle - 1)
        /\ ReverseInPlace(s) = Reverse(s) /\ ReverseCopy(s) = Reverse(s)
        /\ LET u == Kept(Unique(s))
           IN  /\ \A i \in 2 .. Len(u) : u[i] # u[i - 1]
               /\ u = FoldLeft(LAMBDA out, x : IF out # <<>> /\ Last(out) = x THEN out
                                               ELSE Append(out, x), <<>>, s)

\* Overlapping copies and moves arrive whole when they go the right way.
OverlapRight(s) ==
    \A i \in DOMAIN s : \A j \in i .. Len(s) :
        LET part == SubSeq(s, i, j)
        IN  /\ \A k \in 1 .. i :
                  /\ SubSeq(CopyWithin(s, i, j, k), k, k + j - i) = part
                  /\ k < i => SubSeq(MoveWithin(s, i, j, k), k, k + j - i) = part
            /\ \A k \in j .. Len(s) :
                  /\ SubSeq(CopyBackwardWithin(s, i, j, k), k - j + i, k) = part
                  /\ k > j => SubSeq(MoveBackwardWithin(s, i, j, k), k - j + i, k) = part

\* What the numeric algorithms owe their callers.
ComputedRight(s) ==
    LET sum(t) == Accumulate(t, 0)
    IN  /\ \A i \in DOMAIN s : PartialSum(s)[i] = sum(SubSeq(s, 1, i))
        /\ PartialSum(AdjacentDifference(s)) = s
        /\ InnerProduct(s, Copies(Len(s), 1), 0) = sum(s)
        /\ s # <<>> =>
              LET least == MinMaxElement(s)[1]
                  greatest == MinMaxElement(s)[2]
              IN  /\ \A i \in DOMAIN s : s[least] <= s[i] /\ s[i] <= s[greatest]
                  /\ \A i \in DOMAIN s : s[i] = s[least] => least <= i
                  /\ \A i \in DOMAIN s : s[i] = s[greatest] => greatest <= i
                  /\ s[least] = FoldLeft(MinOf, s[1], s)
                  /\ s[greatest] = FoldLeft(MaxOf, s[1], s)
        /\ Len(s) <= 6 =>
              \A r \in [1 .. Len(s) - 1 -> 0 .. 1] : SameElements(Shuffle(s, r), s)
-----------------------------------------------------------------------------
Forwards(at) == [reverse |-> FALSE, at |-> at]
MakeReverse(it) == [reverse |-> TRUE, at |-> it.at]

\* ++, --, and += with any number.
Increment(it) == IF it.reverse THEN [it EXCEPT !.at = @ - 1] ELSE [it EXCEPT !.at = @ + 1]
Decrement(it) == IF it.reverse THEN [it EXCEPT !.at = @ + 1] ELSE [it EXCEPT !.at = @ - 1]
Plus(it, n) == IF it.reverse THEN [it EXCEPT !.at = @ - n] ELSE [it EXCEPT !.at = @ + n]

\* a - b and a < b; a reverse_iterator asks its bases the other way round.
Difference(a, b) == IF a.reverse THEN b.at - a.at ELSE a.at - b.at
Less(a, b) == IF a.reverse THEN b.at < a.at ELSE a.at < b.at

\* Fault: a reverse_iterator answers the element that its base stands on.
DereferenceBase(s, it) == s[Min({it.at + 1, Len(s)})]
\* operator* of a reverse_iterator: the element before its base.
Dereference(s, it) == IF it.reverse THEN s[it.at] ELSE s[it.at + 1]
Subscript(s, it, n) == Dereference(s, Plus(it, n))

\* advance_impl() for the three tags.  An input iterator does not go back.
AdvanceImpl(it, n, tag) ==
    CASE tag = "random_access" -> Plus(it, n)
      [] tag = "bidirectional" /\ n > 0 -> Upto(LAMBDA i, k : Increment(i), it, 1, n)
      [] tag = "bidirectional" /\ n <= 0 -> Upto(LAMBDA i, k : Decrement(i), it, 1, -n)
      [] tag = "input" -> Upto(LAMBDA i, k : Increment(i), it, 1, n)

RECURSIVE Counted(_, _, _)
Counted(first, last, n) == IF first = last THEN n ELSE Counted(Increment(first), last, n + 1)
DistanceImpl(first, last, tag) ==
    IF tag = "random_access" THEN Difference(last, first) ELSE Counted(first, last, 0)

Following(it, n, tag) == AdvanceImpl(it, n, tag)
Preceding(it, n, tag) == AdvanceImpl(it, -n, tag)
-----------------------------------------------------------------------------
\* A view of the elements of s; filter() and transform() answer a view of a
\* vector of their own that is gone when they return, and of which only the
\* distance of its two ends is left.
View(s) == [elements |-> s, size |-> Len(s)]
Gone == <<"gone">>
CountIf(view, pred) ==
    FoldLeft(LAMBDA count, x : IF x \in pred THEN count + 1 ELSE count, 0, view.elements)
Filter(view, pred) == [elements |-> Gone, size |-> Len(SelectSeq(view.elements, LAMBDA x : x \in pred))]
TransformView(view) == [elements |-> Gone, size |-> view.size]
-----------------------------------------------------------------------------
\* tuple_equal_impl goes from the last element, tuple_less_impl from the first.
RECURSIVE TupleEqual(_, _, _)
TupleEqual(a, b, n) == n = 0 \/ (a[n] = b[n] /\ TupleEqual(a, b, n - 1))

\* Fault: an element that is greater does not end the comparison.
RECURSIVE TupleLessAny(_, _, _)
TupleLessAny(a, b, n) == n < Len(a) /\ (a[n + 1] < b[n + 1] \/ TupleLessAny(a, b, n + 1))

RECURSIVE TupleLess(_, _, _)
TupleLess(a, b, n) ==
    /\ n < Len(a)
    /\ \/ a[n + 1] < b[n + 1]
       \/ ~(b[n + 1] < a[n + 1]) /\ TupleLess(a, b, n + 1)

PairEqual(p, q) == p[1] = q[1] /\ p[2] = q[2]
PairLess(p, q) == p[1] < q[1] \/ (~(q[1] < p[1]) /\ p[2] < q[2])

\* swap(T&, T&) through a temporary, and that of arrays, element by element.
SwapCells(m, a, b) ==
    LET temp == m[a]
        moved == [m EXCEPT ![a] = m[b]]
    IN  [moved EXCEPT ![b] = temp]
SwapArrays(m, n) == Upto(LAMBDA c, i : SwapCells(c, i, n + i), m, 1, n)
-----------------------------------------------------------------------------
\* Whatever the category, and forwards or through reverse_iterator: n steps
\* reach the n-th element of the sequence or of its reverse, their distance is
\* n, order and difference of iterators are those of their steps, and the way
\* back leads to the start.
IteratorsRight(s) ==
    \A reverse \in BOOLEAN, tag \in {"input", "bidirectional", "random_access"} :
        LET n == Len(s)
            first == IF reverse THEN MakeReverse(Forwards(n)) ELSE Forwards(0)
            order == IF reverse THEN Reverse(s) ELSE s
            at(k) == Following(first, k, tag)
        IN  \A k \in 0 .. n :
              /\ k < n => Dereference(s, at(k)) = order[k + 1] /\ Subscript(s, first, k) = order[k + 1]
              /\ DistanceImpl(first, at(k), tag) = k
              /\ Preceding(at(k), k, tag) = IF tag = "input" THEN at(k) ELSE first
              /\ \A j \in 0 .. n : /\ Less(at(j), at(k)) <=> j < k
                                   /\ Difference(at(j), at(k)) = j - k

\* A view counts what satisfies a predicate, and a filtered one is as long.
\* Tuples are ordered by the first elements that differ, equal when none does;
\* a pair is a tuple of two; swapping arrays exchanges all of their elements.
RecordsRight(s, t) ==
    /\ \A pred \in SUBSET ToSet(s) :
          /\ Filter(View(s), pred).size = CountIf(View(s), pred)
          /\ CountIf(View(s), pred) = Cardinality({i \in DOMAIN s : s[i] \in pred})
          /\ TransformView(View(s)).size = Len(s)
    /\ Len(s) = Len(t) =>
          LET differ == {i \in DOMAIN s : s[i] # t[i]}
          IN  /\ TupleEqual(s, t, Len(s)) <=> differ = {}
              /\ TupleLess(s, t, 0) <=> differ # {} /\ s[Min(differ)] < t[Min(differ)]
              /\ SwapArrays(s \o t, Len(s)) = t \o s
              /\ Len(s) = 2 => /\ PairEqual(s, t) <=> TupleEqual(s, t, 2)
                               /\ PairLess(s, t) <=> TupleLess(s, t, 0)
=============================================================================
