---------------------------- MODULE MCAlgorithms ----------------------------
(***************************************************************************)
(* The algorithms that one thread runs on data of its own.  One behaviour  *)
(* has one subject: the heap of the timer queue, swap by swap, or the      *)
(* functions of sort.h, find.h, transform.h and numeric.h on a range, of   *)
(* string.h and string_view.h and the bounded texts of the log and of the  *)
(* errors on a text, iterators on a range, of graph.h on a graph, of the   *)
(* math headers on a pair of numbers or a sample.  The input grows step by *)
(* step; the invariants apply every function to every input.               *)
(***************************************************************************)
EXTENDS TimerQueue, FiniteSets, TLC

CONSTANTS
    i1, i2, i3, i4, i5,
    MaxRange,      \* the length of a range
    MaxText,       \* the length of a text
    MaxSample,     \* the length of a sample
    MaxNodes, MaxDirected, MaxUndirected   \* the size of a graph

MCIds == {i1, i2, i3, i4, i5}
MCTimes == 0 .. 2
IdSymmetry == Permutations(MCIds)

VARIABLES subject, input

R == INSTANCE Ranges
T == INSTANCE Text
G == INSTANCE GraphAlgorithms
N == INSTANCE Numbers

UpTo(n, set) == UNION {[1 .. k -> set] : k \in 0 .. n}

\* Ranges long enough for the partition loops of quick_sort and nth_element.
Strided(n, k, m) == [i \in 1 .. n |-> (i * k) % m]
LongRanges == {Strided(13, k, m) : k \in {1, 5, 11}, m \in {2, 5, 17}}
LongerRanges == {Strided(17, k, m) : k \in {1, 5, 11}, m \in {2, 5, 17}}

MCInit ==
    /\ Init
    /\ \/ subject = "heap" /\ input = <<>>
       \/ subject = "range" /\ input \in {<<>>} \cup LongRanges
       \/ subject = "text" /\ input = <<>>
       \/ subject = "graph" /\ input = G!EmptyGraph
       \/ subject = "numbers" /\ input = <<0, 0>>
       \/ subject = "sample" /\ input = <<>>

HeapStep == subject = "heap" /\ Next /\ UNCHANGED <<subject, input>>

Grow(name, max, set) ==
    /\ subject = name /\ Len(input) < max
    /\ \E x \in set : input' = Append(input, x)
    /\ UNCHANGED <<vars, subject>>

GrowRange == Grow("range", MaxRange, 1 .. 3)
GrowText == Grow("text", MaxText, 0 .. 2)
GrowSample == Grow("sample", MaxSample, {0, 1, 4})

Change(graph) == input' = graph /\ UNCHANGED <<vars, subject>>
Ends == G!FoldFunction(LAMBDA edges, n : n + Len(edges), 0, input)

GraphAddNode ==
    /\ subject = "graph" /\ Cardinality(DOMAIN input) < MaxNodes
    /\ Change(G!AddNode(input))

GraphAddDirectedEdge ==
    /\ subject = "graph" /\ Cardinality(DOMAIN input) = MaxNodes /\ Ends < MaxDirected
    /\ \E u, v \in DOMAIN input : \E weight \in {1, 3} :
          Change(G!AddDirectedEdge(input, u, v, weight))

GraphAddUndirectedEdge ==
    /\ subject = "graph" /\ Cardinality(DOMAIN input) = MaxNodes /\ Ends < MaxUndirected
    /\ \E u, v \in DOMAIN input : \E weight \in {1, 3} :
          u < v /\ Change(G!AddUndirectedEdge(input, u, v, weight))

NextNumber ==
    /\ subject = "numbers"
    /\ \/ input[1] < 64 /\ input' = <<input[1] + 1, input[2]>>
       \/ input[2] < 12 /\ input' = <<input[1], input[2] + 1>>
    /\ UNCHANGED <<vars, subject>>

MCNext ==
    \/ HeapStep
    \/ GrowRange
    \/ GrowText
    \/ GraphAddNode
    \/ GraphAddDirectedEdge
    \/ GraphAddUndirectedEdge
    \/ NextNumber
    \/ GrowSample

MCSpec == MCInit /\ [][MCNext]_<<vars, subject, input>>

\* Ranges of more than sixteen elements.
LongRangesInit == Init /\ subject = "range" /\ input \in LongerRanges
LongRangesSpec == LongRangesInit /\ [][GrowRange]_<<vars, subject, input>>
-----------------------------------------------------------------------------
\* Sorting orders and keeps the elements, searching finds the first of what
\* is there; the algorithms that move elements in place lose and add none and
\* leave the arrangement they promise; the numeric ones compute their sums;
\* iterators of every category and direction walk the range alike, and tuples
\* of its elements are ordered by the first that differ.
RangesRight ==
    subject = "range" =>
        /\ R!SortsRight(input) /\ R!FindsRight(input, UpTo(2, 1 .. 3))
        /\ R!RearrangedRight(input) /\ R!OverlapRight(input) /\ R!ComputedRight(input)
        /\ Len(input) <= 4 => /\ R!IteratorsRight(input)
                              /\ \A t \in UpTo(3, 1 .. 3) : R!RecordsRight(input, t)

\* The searches with tables find what a plain comparison finds; the edit
\* distance is a metric; editing a text, views and wildcards agree with
\* their definitions; a text cut to a bounded array is whole or a beginning.
TextsRight ==
    subject = "text" =>
        /\ \A pattern \in UpTo(3, 0 .. 2) :
              /\ T!SearchesRight(input, pattern)
              /\ T!EditsRight(input, pattern) /\ T!ViewsRight(input, pattern)
              /\ Len(input) <= 4 => T!DistanceRight(input, pattern)
        /\ Len(input) <= 4 => \A t \in UpTo(2, 1 .. 2) : T!BoundedTextsRight(input, t)
        /\ \A pattern \in UpTo(3, {1, 2, T!Star, T!AnyChar}) :
              T!WildcardMatch(pattern, input) <=> T!Matches(pattern, input)

\* The traversals reach what is reachable, the paths are shortest, an order
\* exists exactly without a cycle, components and spanning tree are right.
GraphsRight ==
    subject = "graph" =>
        /\ G!TraversalsRight(input) /\ G!DistancesRight(input)
        /\ G!OrdersRight(input) /\ G!UndirectedRight(input)

\* Arithmetic without overflow, the statistics, the conversions, the draws and
\* the words of hashes and of sizes answer what their definitions say.
NumbersRight ==
    /\ subject = "numbers" => /\ N!ArithmeticRight(input[1], input[2])
                              /\ N!ConversionsRight(input[1]) /\ N!DrawsRight(input[1])
    /\ subject = "sample" =>
          /\ Len(input) <= 4 => N!ShufflesRight(input) /\ N!WordsRight(input)
          /\ \A b \in {<<1, 0, 4, 4>>, <<4, 1, 0>>, <<0, 1, 4, 1, 0>>, <<1, 4>>} :
                N!StatisticsRight(input, b)

\* The comment on sort(): the range is sorted, whatever its length.
SortSorts == subject = "range" => R!SortSorts(input)
=============================================================================
