---------------------------- MODULE MCContainers ----------------------------
(***************************************************************************)
(* One behaviour uses one class of container: kind says which.  The map    *)
(* has variables of its own; all other containers share this and expected. *)
(***************************************************************************)
EXTENDS RedBlackTree

CONSTANTS o1, o2   \* the names of the objects

VARIABLES kind, this, expected

objects == <<this, expected>>

MCKeys == 1 .. 10

TreeHashes == <<0, 1, 1, 4>>

V == INSTANCE Vector WITH Object <- {o1, o2}, Value <- {1, 2}, MaxLen <- 3
L == INSTANCE LinkedList WITH Object <- {o1, o2}, Value <- {1, 2}, MaxLen <- 3
D == INSTANCE Deque WITH Object <- {o1, o2}, Value <- {1}, MaxLen <- 3
U == INSTANCE HashTables WITH Object <- {o1, o2}, Value <- {1}, MaxLen <- 4,
                              HashOf <- TreeHashes, InitialBuckets <- 1, Thresholds <- {}
S == INSTANCE HashTables WITH Object <- {o1, o2}, Value <- {1}, MaxLen <- 2,
                              HashOf <- TreeHashes, InitialBuckets <- 2, Thresholds <- {3, 8}
M == INSTANCE SortedVectors WITH Object <- {o1}, Value <- {1, 2}, MaxLen <- 3
R == INSTANCE RingBuffers WITH Object <- {o1}, Value <- {1, 2}, MaxLen <- 3, CounterMod <- 8
B == INSTANCE DynamicBuffer WITH Object <- {o1, o2}, Value <- {1, 2}, MaxLen <- 2

MCInit ==
    /\ Init
    /\ \/ kind = "map" /\ this = <<>> /\ expected = <<>>
       \/ kind = "vector" /\ V!Init
       \/ kind = "list" /\ L!Init
       \/ kind = "deque" /\ D!Init
       \/ kind = "unordered_map" /\ U!Init
       \/ kind = "unordered_set" /\ S!SetInit
       \/ kind = "sorted_vectors" /\ M!Init
       \/ kind = "ring_buffer" /\ R!Init
       \/ kind = "masked_ring_buffer" /\ R!MaskedInit
       \/ kind = "dynamic_buffer" /\ B!Init

MapStep == kind = "map" /\ Next /\ UNCHANGED <<kind, objects>>
VectorStep == kind = "vector" /\ V!Next /\ UNCHANGED <<kind, treeVars>>
ListStep == kind = "list" /\ L!Next /\ UNCHANGED <<kind, treeVars>>
DequeStep == kind = "deque" /\ D!Next /\ UNCHANGED <<kind, treeVars>>
UnorderedMapStep == kind = "unordered_map" /\ U!Next /\ UNCHANGED <<kind, treeVars>>
UnorderedSetStep == kind = "unordered_set" /\ S!SetNext /\ UNCHANGED <<kind, treeVars>>
SortedVectorsStep == kind = "sorted_vectors" /\ M!Next /\ UNCHANGED <<kind, treeVars>>
RingBufferStep == kind = "ring_buffer" /\ R!Next /\ UNCHANGED <<kind, treeVars>>
MaskedRingBufferStep == kind = "masked_ring_buffer" /\ R!MaskedNext /\ UNCHANGED <<kind, treeVars>>
DynamicBufferStep == kind = "dynamic_buffer" /\ B!Next /\ UNCHANGED <<kind, treeVars>>

MCNext ==
    \/ MapStep
    \/ VectorStep
    \/ ListStep
    \/ DequeStep
    \/ UnorderedMapStep
    \/ UnorderedSetStep
    \/ SortedVectorsStep
    \/ RingBufferStep
    \/ MaskedRingBufferStep
    \/ DynamicBufferStep

MCSpec == MCInit /\ [][MCNext]_<<treeVars, kind, this, expected>>
-----------------------------------------------------------------------------
\* A vector, a list and a deque hold the sequence their calls built; so do the
\* buffers: the rings are bounded queues of bytes, the dynamic buffers arrays.
SequencesMatch ==
    /\ kind = "vector" => V!VectorMatches
    /\ kind = "list" => L!ListMatches
    /\ kind = "deque" => D!DequeMatches
    /\ kind = "ring_buffer" => R!RingMatches
    /\ kind = "masked_ring_buffer" => R!MaskedRingMatches
    /\ kind = "dynamic_buffer" => B!BuffersMatch

\* The hash tables and the sorted vectors hold the keys inserted and not
\* erased, and find exactly those.
TablesMatch ==
    /\ kind = "unordered_map" => U!TableMatches
    /\ kind = "unordered_set" => S!SetMatches
    /\ kind = "sorted_vectors" => M!SortedVectorsMatch
=============================================================================
