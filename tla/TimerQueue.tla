----------------------------- MODULE TimerQueue -----------------------------
(***************************************************************************)
(* zen::timer_queue (src/timer/timer_queue.h): a binary min-heap of timer  *)
(* entries in a fixed array, ordered by expire_ms.  Each iteration of      *)
(* sift_up, sift_down and of the loop of pop_expired is a step, so that    *)
(* the invariants speak about the array between two swaps too.             *)
(*                                                                         *)
(* heap[1] is heap_[0]: the parent of index i is i \div 2 and its children *)
(* are 2i and 2i + 1.  The sequence holds the first size_ elements only;   *)
(* what the array keeps beyond them is never read.                         *)
(***************************************************************************)
EXTENDS Integers, Sequences

CONSTANTS
    Capacity,  \* ZEN_TIMER_QUEUE_MAX
    Ids,       \* timer ids
    Times,     \* values of expire_ms and of now
    OutMax,    \* out_max, the room in the caller's array
    Never      \* ~0ULL, later than all Times

ASSUME CapacityAssumption == Capacity \in Nat
ASSUME TimesAssumption == Times \subseteq Nat
ASSUME OutMaxAssumption == OutMax \in Nat
ASSUME NeverAssumption == Never \in Nat /\ \A t \in Times : t < Never

Entry == [id : Ids, expire : Times, cancelled : BOOLEAN]

VARIABLES
    heap,     \* heap_[0 .. size_ - 1]
    op,       \* where the running operation is
    hole,     \* the index i of sift_up or sift_down
    clock,    \* the argument now of pop_expired
    out,      \* the caller's array, filled up to count
    before    \* the entries in the heap when pop_expired was called (history)

vars == <<heap, op, hole, clock, out, before>>

Ops == {"idle", "up", "pop", "down", "popped"}

Contents == {heap[i] : i \in 1 .. Len(heap)}

TypeOK ==
    /\ heap \in Seq(Entry)
    /\ Len(heap) <= Capacity
    /\ op \in Ops
    /\ hole \in Nat \ {0}
    /\ clock \in Nat
    /\ out \in Seq(Entry)
    /\ Len(out) <= OutMax
    /\ before \subseteq Entry

Init ==
    /\ heap = <<>>
    /\ op = "idle"
    /\ hole = 1
    /\ clock = 0
    /\ out = <<>>
    /\ before = {}

\* swap_entries(a, b).
Swapped(a, b) == [heap EXCEPT ![a] = heap[b], ![b] = heap[a]]

Ready == op \in {"idle", "popped"}

\* The locals of a call that has returned are gone: they are reset, so that
\* they do not tell states apart.
Forget == clock' = 0 /\ out' = <<>> /\ before' = {}

-----------------------------------------------------------------------------
\* push() on a full array returns false.
PushFull ==
    /\ Ready
    /\ Len(heap) >= Capacity
    /\ op' = "idle"
    /\ Forget
    /\ UNCHANGED <<heap, hole>>

\* push(): heap_[size_] = entry, sift_up(size_), ++size_.
PushPlace(id, expire) ==
    /\ Ready
    /\ Len(heap) < Capacity
    /\ \A e \in Contents : e.id # id
    /\ heap' = Append(heap, [id |-> id, expire |-> expire, cancelled |-> FALSE])
    /\ hole' = Len(heap) + 1
    /\ op' = "up"
    /\ Forget

\* sift_up(): the parent expires later, swap and climb.
SiftUpSwap ==
    /\ op = "up"
    /\ hole > 1
    /\ heap[hole \div 2].expire > heap[hole].expire
    /\ heap' = Swapped(hole \div 2, hole)
    /\ hole' = hole \div 2
    /\ UNCHANGED <<op, clock, out, before>>

\* Fault: one comparison with the parent, then stop.
SiftUpStopEarly ==
    /\ op = "up"
    /\ op' = "idle"
    /\ hole' = 1
    /\ UNCHANGED <<heap, clock, out, before>>

\* sift_up(): the root is reached or the parent is not later.
SiftUpStop ==
    /\ op = "up"
    /\ hole > 1 => heap[hole \div 2].expire <= heap[hole].expire
    /\ op' = "idle"
    /\ hole' = 1
    /\ UNCHANGED <<heap, clock, out, before>>

\* cancel(id): the first entry with that id is marked.
Cancel(id) ==
    /\ Ready
    /\ \E i \in 1 .. Len(heap) :
          /\ heap[i].id = id
          /\ \A j \in 1 .. i - 1 : heap[j].id # id
          /\ heap' = [heap EXCEPT ![i].cancelled = TRUE]
    /\ op' = "idle"
    /\ Forget
    /\ UNCHANGED hole

\* clear().
Clear ==
    /\ Ready
    /\ heap' = <<>>
    /\ op' = "idle"
    /\ Forget
    /\ UNCHANGED hole
-----------------------------------------------------------------------------
\* pop_expired(now, out, out_max) is called.
PopBegin(now) ==
    /\ Ready
    /\ clock' = now
    /\ out' = <<>>
    /\ before' = Contents
    /\ op' = "pop"
    /\ UNCHANGED <<heap, hole>>

\* pop_expired(): the top is due.  remove_top() moves the last entry to the
\* root and starts sift_down(0); a cancelled top is skipped, and a live one
\* is delivered if the caller's array has room left.
PopTake ==
    /\ op = "pop"
    /\ heap # <<>>
    /\ heap[1].expire <= clock
    /\ heap' = IF Len(heap) = 1 THEN <<>>
               ELSE SubSeq([heap EXCEPT ![1] = heap[Len(heap)]], 1, Len(heap) - 1)
    /\ out' = IF ~heap[1].cancelled /\ Len(out) < OutMax
              THEN Append(out, heap[1]) ELSE out
    /\ hole' = 1
    /\ op' = "down"
    /\ UNCHANGED <<clock, before>>

\* Fault: a full array ends the loop.
PopEndWhenFull ==
    /\ op = "pop"
    /\ heap # <<>> => heap[1].expire > clock \/ Len(out) >= OutMax
    /\ op' = "popped"
    /\ UNCHANGED <<heap, hole, clock, out, before>>

\* pop_expired(): nothing is due any more, return count.
PopEnd ==
    /\ op = "pop"
    /\ heap # <<>> => heap[1].expire > clock
    /\ op' = "popped"
    /\ UNCHANGED <<heap, hole, clock, out, before>>

\* Fault: the right child is compared with the parent, not with the left one.
SmallestOfPairs(i) ==
    LET left  == 2 * i
        right == 2 * i + 1
    IN IF right <= Len(heap) /\ heap[right].expire < heap[i].expire THEN right
       ELSE IF left <= Len(heap) /\ heap[left].expire < heap[i].expire THEN left ELSE i

\* sift_down(): the child that is earlier than its parent, the left one only
\* if the right one is not earlier still.
Smallest(i) ==
    LET left  == 2 * i
        right == 2 * i + 1
        s == IF left <= Len(heap) /\ heap[left].expire < heap[i].expire THEN left ELSE i
    IN IF right <= Len(heap) /\ heap[right].expire < heap[s].expire THEN right ELSE s

SiftDownSwap ==
    /\ op = "down"
    /\ heap # <<>>
    /\ Smallest(hole) # hole
    /\ heap' = Swapped(hole, Smallest(hole))
    /\ hole' = Smallest(hole)
    /\ UNCHANGED <<op, clock, out, before>>

SiftDownStop ==
    /\ op = "down"
    /\ heap # <<>> => Smallest(hole) = hole
    /\ op' = "pop"
    /\ hole' = 1
    /\ UNCHANGED <<heap, clock, out, before>>

Next ==
    \/ PushFull
    \/ \E id \in Ids : Cancel(id) \/ \E t \in Times : PushPlace(id, t)
    \/ SiftUpSwap \/ SiftUpStop
    \/ Clear
    \/ \E now \in Times : PopBegin(now)
    \/ PopTake \/ PopEnd
    \/ SiftDownSwap \/ SiftDownStop

Spec == Init /\ [][Next]_vars
-----------------------------------------------------------------------------
\* Along every path from the root times do not decrease, except above the
\* entry that climbs, below the entry that sinks; and whatever is two levels
\* apart across that entry is in order.
HeapOrder ==
    /\ \A i \in 2 .. Len(heap) :
          (op = "up" /\ i = hole) \/ (op = "down" /\ i \div 2 = hole)
            \/ heap[i \div 2].expire <= heap[i].expire
    /\ op \in {"up", "down"} =>
          \A i \in 2 .. Len(heap) :
              i \div 2 = hole /\ hole > 1 => heap[hole \div 2].expire <= heap[i].expire

\* The abstract store, over the same entries.
Store == INSTANCE TimerStore

\* next_expire(): what lies on top, cancelled or not; ~0ULL when empty.
NextExpire == IF heap = <<>> THEN Never ELSE heap[1].expire

\* Whenever an operation looks at the top of the heap, the top is an earliest
\* entry: pop_expired() may stop at the first one that is not due, and a loop
\* that sleeps until next_expire() misses no timer.
TopIsEarliest ==
    op \in {"idle", "pop", "popped"} => NextExpire = Store!NextExpire(Contents, Never)

\* pop_expired() as a whole: it takes out exactly the due entries, however the
\* sifts moved them, and delivers the earliest live ones in order.
PopMatchesStore ==
    op = "popped" =>
        /\ Contents = before \ Store!Due(before, clock)
        /\ out \in Store!Deliveries(before, clock, OutMax)
=============================================================================
