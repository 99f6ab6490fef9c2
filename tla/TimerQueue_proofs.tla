------------------------- MODULE TimerQueue_proofs -------------------------
(***************************************************************************)
(* Proofs about zen::timer_queue (TimerQueue.tla) for every capacity, every *)
(* set of timer ids and every set of times: the heap order survives every  *)
(* swap of the sifts, and the top of the heap is an earliest entry.        *)
(*                                                                         *)
(* The second fact goes from the root to any index, by the least index for *)
(* which it would fail.                                                    *)
(***************************************************************************)
EXTENDS TimerQueue, SequenceTheorems, FiniteSetTheorems, WellFoundedInduction, TLAPS

Less == {p \in Nat \X Nat : p[1] < p[2]}

\* A nonempty set of indices of heap_ has a least one.
LEMMA LeastIndex ==
    ASSUME NEW T \in SUBSET Nat, T # {}
    PROVE  \E x \in T : \A y \in T : x <= y
  <1>1. IsWellFoundedOn(Less, Nat)
    <2>1. Less = OpToRel(<, Nat)
      BY Zenon DEF OpToRel, Less
    <2> QED BY <2>1, NatLessThanWellFounded, Zenon DEF OpToRel
  <1>2. PICK x \in T : \A y \in T : ~ (<<y, x>> \in Less)
    BY <1>1, WFMin, Zenon
  <1>3. \A y \in T : ~ (y < x)
    BY <1>2 DEF Less
  <1> QED BY <1>3

\* parent = (i - 1) / 2 and the two children of sift_down(), counted from 1.
LEMMA Half ==
    ASSUME NEW i \in Nat, i > 1
    PROVE  /\ i \div 2 \in Nat /\ i \div 2 >= 1 /\ i \div 2 < i
           /\ \A p \in Nat : i \div 2 = p <=> i = 2 * p \/ i = 2 * p + 1
  OBVIOUS

-----------------------------------------------------------------------------
\* What a sift_up() or sift_down() in progress knows of its index.
HoleInHeap ==
    /\ op = "up" => hole <= Len(heap)
    /\ op = "down" => heap = <<>> \/ hole <= Len(heap)

IndInv == TypeOK /\ HoleInHeap /\ HeapOrder

\* The expiry times in the heap are numbers.
LEMMA EntryTimes ==
    ASSUME TypeOK
    PROVE  /\ Len(heap) \in Nat
           /\ \A i \in 1 .. Len(heap) : heap[i] \in Entry /\ heap[i].expire \in Nat
  <1>1. heap \in Seq(Entry)
    BY DEF TypeOK
  <1>2. Len(heap) \in Nat /\ heap \in [1 .. Len(heap) -> Entry]
    BY <1>1, LenProperties
  <1>3. \A e \in Entry : e.expire \in Nat
    BY TimesAssumption DEF Entry
  <1> QED BY <1>2, <1>3

\* An entry written to one index leaves the others alone.
LEMMA WriteEntry ==
    ASSUME TypeOK, NEW k \in 1 .. Len(heap), NEW e \in Entry
    PROVE  /\ [heap EXCEPT ![k] = e] \in Seq(Entry)
           /\ Len([heap EXCEPT ![k] = e]) = Len(heap)
           /\ \A i \in 1 .. Len(heap) : [heap EXCEPT ![k] = e][i] = IF i = k THEN e ELSE heap[i]
  BY ExceptSeq DEF TypeOK

\* swap_entries() exchanges two entries and leaves the others alone.
LEMMA SwapEntries ==
    ASSUME TypeOK, NEW a \in 1 .. Len(heap), NEW b \in 1 .. Len(heap)
    PROVE  /\ Swapped(a, b) \in Seq(Entry)
           /\ Len(Swapped(a, b)) = Len(heap)
           /\ \A i \in 1 .. Len(heap) :
                 Swapped(a, b)[i] = IF i = a THEN heap[b] ELSE IF i = b THEN heap[a] ELSE heap[i]
  <1>1. heap \in Seq(Entry) /\ heap[a] \in Entry /\ heap[b] \in Entry
    BY EntryTimes DEF TypeOK
  <1> DEFINE h == [heap EXCEPT ![a] = heap[b]]
  <1>2. h \in Seq(Entry) /\ Len(h) = Len(heap)
        /\ \A i \in 1 .. Len(heap) : h[i] = IF i = a THEN heap[b] ELSE heap[i]
    BY <1>1, ExceptSeq
  <1>3. Swapped(a, b) = [h EXCEPT ![b] = heap[a]]
    BY DEF Swapped
  <1> HIDE DEF h
  <1>4. /\ Swapped(a, b) \in Seq(Entry) /\ Len(Swapped(a, b)) = Len(h)
        /\ \A i \in 1 .. Len(h) : Swapped(a, b)[i] = IF i = b THEN heap[a] ELSE h[i]
    BY <1>1, <1>2, <1>3, ExceptSeq
  <1> QED BY <1>2, <1>4

\* The constructor: an empty heap.
LEMMA InitInv == Init => IndInv
  BY CapacityAssumption, OutMaxAssumption, EmptySeq
  DEF Init, IndInv, TypeOK, HoleInHeap, HeapOrder, Ops

\* push(): the new entry stands at the end, where no order is claimed yet.
LEMMA PushStep ==
    ASSUME IndInv, NEW id \in Ids, NEW t \in Times, PushPlace(id, t)
    PROVE  IndInv'
  <1> USE DEF IndInv, PushPlace
  <1> DEFINE e == [id |-> id, expire |-> t, cancelled |-> FALSE]
  <1>1. e \in Entry /\ heap \in Seq(Entry)
    BY DEF Entry, TypeOK
  <1>2. /\ heap' \in Seq(Entry) /\ Len(heap') = Len(heap) + 1
        /\ \A i \in 1 .. Len(heap) : heap'[i] = heap[i]
    BY <1>1, AppendProperties
  <1>3. TypeOK'
    BY <1>2, EntryTimes, CapacityAssumption, OutMaxAssumption, EmptySeq DEF TypeOK, Ops, Forget
  <1>4. HoleInHeap'
    BY <1>2 DEF HoleInHeap
  <1>5. HeapOrder'
    <2>1. op \notin {"up", "down"}
      BY DEF Ready
    <2>2. ASSUME NEW i \in 2 .. Len(heap') PROVE i = hole' \/ heap'[i \div 2].expire <= heap'[i].expire
      BY <1>2, <2>1, EntryTimes, Half DEF HeapOrder
    <2>3. ASSUME NEW i \in 2 .. Len(heap') PROVE i \div 2 # hole'
      BY <1>2, EntryTimes, Half
    <2> QED BY <2>2, <2>3 DEF HeapOrder
  <1> QED BY <1>3, <1>4, <1>5

\* sift_up(): the entry climbs one level; what hung below it and what hung
\* below its parent are both below the parent's old time.
LEMMA SiftUpSwapStep ==
    ASSUME IndInv, SiftUpSwap
    PROVE  IndInv'
  <1> USE DEF IndInv, SiftUpSwap
  <1> DEFINE p == hole \div 2
  <1>1. hole \in 1 .. Len(heap) /\ hole \in Nat /\ p \in 1 .. Len(heap) /\ p < hole /\ p \in Nat
    BY EntryTimes, Half DEF HoleInHeap, TypeOK
  <1>2. /\ heap' \in Seq(Entry) /\ Len(heap') = Len(heap)
        /\ \A i \in 1 .. Len(heap) :
              heap'[i] = IF i = p THEN heap[hole] ELSE IF i = hole THEN heap[p] ELSE heap[i]
    BY <1>1, SwapEntries
  <1>3. TypeOK'
    BY <1>1, <1>2 DEF TypeOK
  <1>4. HoleInHeap'
    BY <1>1, <1>2 DEF HoleInHeap
  <1>5. heap[hole].expire < heap[p].expire
    BY <1>1, EntryTimes
  <1>6. ASSUME NEW i \in 2 .. Len(heap'), i # p
        PROVE  heap'[i \div 2].expire <= heap'[i].expire
    <2>1. i \in Nat /\ i > 1 /\ i \in 1 .. Len(heap) /\ i \div 2 \in 1 .. Len(heap) /\ i \div 2 < i
      BY <1>2, EntryTimes, Half
    <2>2. CASE i = hole
      BY <2>1, <2>2, <1>1, <1>2, <1>5, EntryTimes
    <2>3. CASE i # hole /\ i \div 2 = hole
      <3>1. heap[p].expire <= heap[i].expire
        BY <2>1, <2>3 DEF HeapOrder
      <3> QED BY <3>1, <2>1, <2>3, <1>1, <1>2, <1>6
    <2>4. CASE i # hole /\ i \div 2 # hole
      <3>1. heap[i \div 2].expire <= heap[i].expire
        BY <2>1, <2>4 DEF HeapOrder
      <3>2. CASE i \div 2 = p
        BY <3>1, <3>2, <2>1, <2>4, <1>1, <1>2, <1>5, <1>6, EntryTimes
      <3>3. CASE i \div 2 # p
        BY <3>1, <3>3, <2>1, <2>4, <1>1, <1>2, <1>6
      <3> QED BY <3>2, <3>3
    <2> QED BY <2>2, <2>3, <2>4
  <1>7. ASSUME NEW i \in 2 .. Len(heap'), i \div 2 = p, p > 1
        PROVE  heap'[p \div 2].expire <= heap'[i].expire
    <2>1. p \div 2 \in 1 .. Len(heap) /\ p \div 2 < p
      BY <1>1, <1>7, Half
    <2>2. heap[p \div 2].expire <= heap[p].expire
      BY <1>1, <1>7 DEF HeapOrder
    <2>3. i \in 1 .. Len(heap) /\ i # p
      BY <1>2, <1>7, <1>1, EntryTimes, Half
    <2>4. CASE i = hole
      BY <2>1, <2>2, <2>3, <2>4, <1>1, <1>2
    <2>5. CASE i # hole
      <3>1. heap[p].expire <= heap[i].expire
        BY <2>3, <2>5, <1>2, <1>7 DEF HeapOrder
      <3> QED BY <3>1, <2>1, <2>2, <2>3, <2>5, <1>1, <1>2, EntryTimes
    <2> QED BY <2>4, <2>5
  <1>8. HeapOrder'
    BY <1>6, <1>7 DEF HeapOrder
  <1> QED BY <1>3, <1>4, <1>8

\* sift_up() ends: its index is the root or not earlier than its parent.
LEMMA SiftUpStopStep ==
    ASSUME IndInv, SiftUpStop
    PROVE  IndInv'
  <1> USE DEF IndInv, SiftUpStop
  <1>1. TypeOK' /\ HoleInHeap'
    BY DEF TypeOK, HoleInHeap, Ops
  <1>2. ASSUME NEW i \in 2 .. Len(heap) PROVE heap[i \div 2].expire <= heap[i].expire
    <2>1. CASE i = hole
      BY <2>1, EntryTimes
    <2>2. CASE i # hole
      BY <2>2 DEF HeapOrder
    <2> QED BY <2>1, <2>2
  <1> QED BY <1>1, <1>2 DEF HeapOrder

\* cancel() marks an entry and moves none.
LEMMA CancelStep ==
    ASSUME IndInv, NEW id \in Ids, Cancel(id)
    PROVE  IndInv'
  <1> USE DEF IndInv, Cancel
  <1>1. PICK k \in 1 .. Len(heap) : heap' = [heap EXCEPT ![k].cancelled = TRUE]
    OBVIOUS
  <1>2. heap \in Seq(Entry) /\ heap[k] \in Entry
    BY EntryTimes DEF TypeOK
  <1> DEFINE e == [heap[k] EXCEPT !.cancelled = TRUE]
  <1>3. e \in Entry /\ e.expire = heap[k].expire
    BY <1>2 DEF Entry
  <1>4. heap' = [heap EXCEPT ![k] = e]
    BY <1>1
  <1> HIDE DEF e
  <1>5. /\ heap' \in Seq(Entry) /\ Len(heap') = Len(heap)
        /\ \A i \in 1 .. Len(heap) : heap'[i] = IF i = k THEN e ELSE heap[i]
    <2>1. TypeOK
      OBVIOUS
    <2> HIDE DEF IndInv, Cancel
    <2> QED BY <2>1, <1>3, <1>4, WriteEntry
  <1>6. \A i \in 1 .. Len(heap) : heap'[i].expire = heap[i].expire
    BY <1>3, <1>5
  <1>7. TypeOK' /\ HoleInHeap'
    BY <1>5, CapacityAssumption, OutMaxAssumption, EmptySeq DEF TypeOK, HoleInHeap, Ops, Forget
  <1>8. ASSUME NEW i \in 2 .. Len(heap') PROVE heap'[i \div 2].expire <= heap'[i].expire
    <2>1. op \notin {"up", "down"}
      BY DEF Ready
    <2>2. i \in 1 .. Len(heap) /\ i \div 2 \in 1 .. Len(heap)
      BY <1>5, EntryTimes, Half
    <2> QED BY <1>5, <1>6, <2>1, <2>2 DEF HeapOrder
  <1> QED BY <1>7, <1>8 DEF HeapOrder

\* remove_top(): the last entry takes the place of the first.
LEMMA RemoveTop ==
    ASSUME TypeOK, heap # <<>>,
           heap' = IF Len(heap) = 1 THEN <<>>
                   ELSE SubSeq([heap EXCEPT ![1] = heap[Len(heap)]], 1, Len(heap) - 1)
    PROVE  /\ Len(heap) \in Nat /\ Len(heap) >= 1
           /\ heap' \in Seq(Entry) /\ Len(heap') = Len(heap) - 1
           /\ \A i \in 1 .. Len(heap') : heap'[i] = IF i = 1 THEN heap[Len(heap)] ELSE heap[i]
  <1>1. heap \in Seq(Entry) /\ Len(heap) \in Nat /\ Len(heap) >= 1 /\ heap[Len(heap)] \in Entry
    BY EntryTimes, EmptySeq DEF TypeOK
  <1> DEFINE h == [heap EXCEPT ![1] = heap[Len(heap)]]
  <1>2. /\ h \in Seq(Entry) /\ Len(h) = Len(heap)
        /\ \A i \in 1 .. Len(heap) : h[i] = IF i = 1 THEN heap[Len(heap)] ELSE heap[i]
    BY <1>1, ExceptSeq
  <1>3. heap' = IF Len(heap) = 1 THEN <<>> ELSE SubSeq(h, 1, Len(heap) - 1)
    OBVIOUS
  <1> HIDE DEF h
  <1>4. \A i \in 1 .. Len(heap) - 1 : h[i] \in Entry
    BY <1>1, <1>2, EntryTimes
  <1>5. CASE Len(heap) = 1
    BY <1>1, <1>3, <1>5, EmptySeq
  <1>6. CASE Len(heap) # 1
    <2>1. \A n \in Nat : n >= 1 /\ n # 1 => n - 1 \in Int /\ 1 <= n - 1
      OBVIOUS
    <2>2. Len(heap) - 1 \in Int /\ 1 <= Len(heap) - 1
      BY <2>1, <1>1, <1>6, Zenon
    <2>3. /\ SubSeq(h, 1, Len(heap) - 1) \in Seq(Entry)
          /\ Len(SubSeq(h, 1, Len(heap) - 1)) = Len(heap) - 1
          /\ \A i \in 1 .. Len(heap) - 1 : SubSeq(h, 1, Len(heap) - 1)[i] = h[i]
      BY <2>2, <1>1, <1>4, SubSeqProperties
    <2> QED BY <1>1, <1>2, <1>3, <1>6, <2>3
  <1> QED BY <1>1, <1>5, <1>6

\* PopTake: below the root, where the last entry is now, no order is claimed.
LEMMA PopTakeStep ==
    ASSUME IndInv, PopTake
    PROVE  IndInv'
  <1>1. TypeOK /\ heap # <<>> /\ heap' = IF Len(heap) = 1 THEN <<>>
               ELSE SubSeq([heap EXCEPT ![1] = heap[Len(heap)]], 1, Len(heap) - 1)
    BY DEF IndInv, PopTake
  <1>2. /\ Len(heap) \in Nat /\ Len(heap) >= 1
        /\ heap' \in Seq(Entry) /\ Len(heap') = Len(heap) - 1
        /\ \A i \in 1 .. Len(heap') : heap'[i] = IF i = 1 THEN heap[Len(heap)] ELSE heap[i]
    BY <1>1, RemoveTop
  <1>3. heap \in Seq(Entry)
    BY <1>1 DEF TypeOK
  <1>5. /\ heap' \in Seq(Entry) /\ Len(heap') = Len(heap) - 1
        /\ \A i \in 2 .. Len(heap') : heap'[i] = heap[i]
    BY <1>2
  <1> USE DEF IndInv, PopTake
  <1>6. out' \in Seq(Entry) /\ Len(out') <= OutMax
    <2>1. out \in Seq(Entry) /\ Len(out) \in Nat /\ heap[1] \in Entry
      BY <1>2, <1>3, EntryTimes, LenProperties DEF TypeOK
    <2> QED BY <2>1, AppendProperties, OutMaxAssumption DEF TypeOK
  <1>7. TypeOK'
    BY <1>2, <1>5, <1>6, CapacityAssumption DEF TypeOK, Ops
  <1>8. HoleInHeap'
    BY <1>2, <1>5, EmptySeq DEF HoleInHeap
  <1>9. ASSUME NEW i \in 2 .. Len(heap'), i \div 2 # 1
        PROVE  heap'[i \div 2].expire <= heap'[i].expire
    <2>1. i \in 2 .. Len(heap) /\ i \div 2 \in 2 .. Len(heap')
      BY <1>2, <1>5, <1>9, Half
    <2> QED BY <1>5, <2>1 DEF HeapOrder
  <1> QED BY <1>7, <1>8, <1>9 DEF HeapOrder

\* sift_down() goes to a child that is earlier than its parent and than the
\* other child, or stays where it is.
LEMMA SmallestChild ==
    ASSUME TypeOK, NEW i \in 1 .. Len(heap)
    PROVE  /\ Smallest(i) \in 1 .. Len(heap)
           /\ Smallest(i) # i =>
                 /\ Smallest(i) = 2 * i \/ Smallest(i) = 2 * i + 1
                 /\ heap[Smallest(i)].expire < heap[i].expire
           /\ \A j \in 1 .. Len(heap) :
                 j = 2 * i \/ j = 2 * i + 1 => heap[Smallest(i)].expire <= heap[j].expire
  BY EntryTimes DEF Smallest

\* sift_down(): the entry sinks one level below its earliest child.
LEMMA SiftDownSwapStep ==
    ASSUME IndInv, SiftDownSwap
    PROVE  IndInv'
  <1> USE DEF IndInv, SiftDownSwap
  <1> DEFINE s == Smallest(hole)
  <1>1. hole \in 1 .. Len(heap) /\ hole \in Nat
    BY EntryTimes DEF HoleInHeap, TypeOK
  <1>2. /\ s \in 2 .. Len(heap) /\ s \in Nat /\ s > hole /\ s \div 2 = hole
        /\ heap[s].expire < heap[hole].expire
        /\ \A j \in 1 .. Len(heap) : j = 2 * hole \/ j = 2 * hole + 1 =>
              heap[s].expire <= heap[j].expire
    <2>1. TypeOK /\ s # hole
      OBVIOUS
    <2> HIDE DEF IndInv, SiftDownSwap, s
    <2>2. /\ s \in 1 .. Len(heap)
          /\ s = 2 * hole \/ s = 2 * hole + 1
          /\ heap[s].expire < heap[hole].expire
          /\ \A j \in 1 .. Len(heap) : j = 2 * hole \/ j = 2 * hole + 1 =>
                heap[s].expire <= heap[j].expire
      BY <1>1, <2>1, SmallestChild DEF s
    <2>3. Len(heap) \in Nat
      BY <2>1, EntryTimes
    <2>4. s \in Nat /\ s > 1 /\ s > hole /\ s \in 2 .. Len(heap)
      BY <1>1, <2>2, <2>3
    <2> QED BY <1>1, <2>2, <2>4, Half
  <1>3. heap' = Swapped(hole, s) /\ hole' = s /\ op = "down" /\ op' = "down"
    OBVIOUS
  <1> HIDE DEF s
  <1>4. /\ heap' \in Seq(Entry) /\ Len(heap') = Len(heap)
        /\ \A i \in 1 .. Len(heap) :
              heap'[i] = IF i = hole THEN heap[s] ELSE IF i = s THEN heap[hole] ELSE heap[i]
    BY <1>1, <1>2, <1>3, SwapEntries
  <1>5. TypeOK' /\ HoleInHeap'
    BY <1>1, <1>2, <1>3, <1>4 DEF TypeOK, HoleInHeap
  <1>6. ASSUME NEW i \in 2 .. Len(heap'), i \div 2 # s
        PROVE  heap'[i \div 2].expire <= heap'[i].expire
    <2>1. i \in Nat /\ i > 1 /\ i \in 1 .. Len(heap) /\ i \div 2 \in 1 .. Len(heap) /\ i \div 2 < i
      BY <1>4, EntryTimes, Half
    <2>2. CASE i \div 2 = hole
      <3>1. i = 2 * hole \/ i = 2 * hole + 1
        BY <1>1, <2>1, <2>2, Half
      <3>2. CASE i = s
        BY <3>2, <2>1, <2>2, <1>1, <1>2, <1>4, EntryTimes
      <3>3. CASE i # s
        BY <3>1, <3>3, <2>1, <2>2, <1>1, <1>2, <1>4
      <3> QED BY <3>2, <3>3
    <2>3. CASE i \div 2 # hole /\ i = hole
      <3>1. heap[i \div 2].expire <= heap[s].expire
        BY <2>3, <1>2, <1>3, <1>6, <2>1 DEF HeapOrder
      <3> QED BY <3>1, <2>1, <2>3, <1>1, <1>2, <1>4, <1>6
    <2>4. CASE i \div 2 # hole /\ i # hole
      <3>1. heap[i \div 2].expire <= heap[i].expire /\ i # s
        BY <2>4, <1>2, <1>3, <1>4 DEF HeapOrder
      <3> QED BY <3>1, <2>1, <2>4, <1>1, <1>2, <1>4, <1>6
    <2> QED BY <2>2, <2>3, <2>4
  <1>7. ASSUME NEW i \in 2 .. Len(heap'), i \div 2 = s
        PROVE  heap'[s \div 2].expire <= heap'[i].expire
    <2>1. i \in 1 .. Len(heap) /\ i > s /\ i \in 2 .. Len(heap)
      BY <1>2, <1>4, <1>7, EntryTimes, Half
    <2>2. heap[s].expire <= heap[i].expire
      BY <2>1, <1>2, <1>3, <1>7 DEF HeapOrder
    <2>3. heap'[s \div 2] = heap[s]
      BY <1>1, <1>2, <1>4
    <2>4. heap'[i] = heap[i]
      BY <2>1, <1>1, <1>2, <1>4
    <2> QED BY <2>2, <2>3, <2>4
  <1>8. HeapOrder'
    BY <1>3, <1>6, <1>7 DEF HeapOrder
  <1> QED BY <1>5, <1>8

\* sift_down() ends: neither child is earlier.
LEMMA SiftDownStopStep ==
    ASSUME IndInv, SiftDownStop
    PROVE  IndInv'
  <1> USE DEF IndInv, SiftDownStop
  <1>1. TypeOK' /\ HoleInHeap'
    BY DEF TypeOK, HoleInHeap, Ops
  <1>2. ASSUME NEW i \in 2 .. Len(heap) PROVE heap[i \div 2].expire <= heap[i].expire
    <2>1. i \in Nat /\ i > 1 /\ i \in 1 .. Len(heap) /\ Len(heap) \in Nat
      BY EntryTimes
    <2>2. CASE i \div 2 = hole
      <3>1. hole \in 1 .. Len(heap) /\ (i = 2 * hole \/ i = 2 * hole + 1)
        BY <2>1, <2>2, Half DEF HoleInHeap, TypeOK
      <3>2. Smallest(hole) = hole
        BY <2>1, EmptySeq
      <3> QED BY <2>1, <2>2, <3>1, <3>2, SmallestChild
    <2>3. CASE i \div 2 # hole
      BY <2>3 DEF HeapOrder
    <2> QED BY <2>2, <2>3
  <1> QED BY <1>1, <1>2 DEF HeapOrder

\* The calls that change no entry, and clear().
LEMMA OtherSteps ==
    ASSUME IndInv,
           \/ PushFull \/ Clear \/ PopEnd
           \/ (\E now \in Times : PopBegin(now))
           \/ UNCHANGED vars
    PROVE  IndInv'
  <1> USE DEF IndInv, TypeOK, HoleInHeap, HeapOrder, Ops
  <1>1. CASE PushFull
    BY <1>1, CapacityAssumption, OutMaxAssumption, EmptySeq DEF PushFull, Forget, Ready
  <1>2. CASE Clear
    BY <1>2, CapacityAssumption, OutMaxAssumption, EmptySeq DEF Clear, Forget
  <1>3. CASE PopEnd
    BY <1>3 DEF PopEnd
  <1>4. ASSUME NEW now \in Times, PopBegin(now) PROVE IndInv'
    <2>1. before' \subseteq Entry
      BY <1>4, EntryTimes DEF PopBegin, Contents
    <2> QED BY <1>4, <2>1, TimesAssumption, OutMaxAssumption, EmptySeq DEF PopBegin, Ready
  <1>5. CASE UNCHANGED vars
    BY <1>5 DEF vars
  <1> QED BY <1>1, <1>2, <1>3, <1>4, <1>5

\* Every step of timer_queue preserves the invariant.
LEMMA NextStep == IndInv /\ [Next]_vars => IndInv'
  BY PushStep, SiftUpSwapStep, SiftUpStopStep, CancelStep, PopTakeStep,
     SiftDownSwapStep, SiftDownStopStep, OtherSteps DEF Next

-----------------------------------------------------------------------------
\* The heap is a heap, up to the one entry a sift is moving, at every moment
\* of every sequence of push, cancel, pop_expired and clear.
THEOREM HeapOrdered == Spec => []HeapOrder
  <1>1. Spec => []IndInv
    BY InitInv, NextStep, PTL DEF Spec
  <1>2. IndInv => HeapOrder
    BY DEF IndInv
  <1> QED BY <1>1, <1>2, PTL

\* The entries, indices and locals of timer_queue keep their types, and the
\* heap never outgrows ZEN_TIMER_QUEUE_MAX nor the output its array.
THEOREM TypeCorrect == Spec => []TypeOK
  <1>1. Spec => []IndInv
    BY InitInv, NextStep, PTL DEF Spec
  <1>2. IndInv => TypeOK
    BY DEF IndInv
  <1> QED BY <1>1, <1>2, PTL

\* Outside the sifts no entry is earlier than the root: take the least index
\* that is; its parent has a smaller index and is not later.
LEMMA RootIsEarliest ==
    ASSUME IndInv, op \notin {"up", "down"}, heap # <<>>
    PROVE  \A i \in 1 .. Len(heap) : heap[1].expire <= heap[i].expire
  <1> USE DEF IndInv
  <1> DEFINE T == {i \in 1 .. Len(heap) : heap[i].expire < heap[1].expire}
  <1>1. ASSUME T # {} PROVE FALSE
    <2>1. T \in SUBSET Nat
      BY EntryTimes
    <2>2. PICK x \in T : \A y \in T : x <= y
      BY <1>1, <2>1, LeastIndex
    <2> HIDE DEF T
    <2>3. x \in 1 .. Len(heap) /\ heap[x].expire < heap[1].expire
      BY <2>2 DEF T
    <2>4. x \in Nat /\ x > 1
      BY <2>3, EntryTimes
    <2>5. x \div 2 \in 1 .. Len(heap) /\ x \div 2 < x
      BY <2>3, <2>4, EntryTimes, Half
    <2>6. heap[x \div 2].expire <= heap[x].expire
      BY <2>3, <2>4, EntryTimes DEF HeapOrder
    <2>7. heap[1].expire \in Nat /\ heap[x].expire \in Nat /\ heap[x \div 2].expire \in Nat
      BY <2>3, <2>5, EntryTimes, EmptySeq DEF TypeOK
    <2>8. x \div 2 \in T
      BY <2>3, <2>5, <2>6, <2>7 DEF T
    <2> QED BY <2>2, <2>4, <2>5, <2>8, Half
  <1>2. heap[1].expire \in Nat
    BY EntryTimes, EmptySeq DEF TypeOK
  <1> QED BY <1>1, <1>2, EntryTimes

\* Whenever an operation of timer_queue looks at the top of the heap, it sees
\* an earliest entry: next_expire() and the loop of pop_expired() are right
\* for every capacity.
THEOREM TopCorrect == Spec => []TopIsEarliest
  <1>1. ASSUME IndInv, op \in {"idle", "pop", "popped"}
        PROVE  NextExpire = Store!NextExpire(Contents, Never)
    <2>1. CASE heap = <<>>
      <3>1. Contents = {}
        BY <2>1, EmptySeq DEF Contents
      <3> QED BY <2>1, <3>1 DEF NextExpire, Store!NextExpire
    <2>2. CASE heap # <<>>
      <3>1. Len(heap) \in Nat /\ Len(heap) >= 1
        BY <1>1, <2>2, EntryTimes, EmptySeq DEF IndInv, TypeOK
      <3>2. heap[1] \in Contents
        BY <3>1 DEF Contents
      <3>3. \A e \in Contents : heap[1].expire <= e.expire
        BY <1>1, <2>2, RootIsEarliest DEF Contents
      <3>4. heap[1] \in Store!Earliest(Contents)
        BY <3>2, <3>3 DEF Store!Earliest
      <3>5. \A e \in Store!Earliest(Contents) : e.expire = heap[1].expire
        <4>1. \A e \in Contents : e.expire \in Nat
          BY <1>1, EntryTimes DEF Contents, IndInv
        <4> QED BY <4>1, <3>2, <3>3 DEF Store!Earliest
      <3>6. (CHOOSE e \in Store!Earliest(Contents) : TRUE).expire = heap[1].expire
        BY <3>4, <3>5
      <3> QED BY <2>2, <3>2, <3>6 DEF NextExpire, Store!NextExpire
    <2> QED BY <2>1, <2>2
  <1>2. IndInv => TopIsEarliest
    BY <1>1 DEF TopIsEarliest
  <1>3. Spec => []IndInv
    BY InitInv, NextStep, PTL DEF Spec
  <1> QED BY <1>2, <1>3, PTL
-----------------------------------------------------------------------------
\* No two entries of the heap have the same id, so no entry is there twice.
DistinctIds == \A i, j \in 1 .. Len(heap) : heap[i].id = heap[j].id => i = j

\* The entries that the running pop_expired() has taken out.
Taken == before \ Contents

\* What the loop of pop_expired() knows: all it took out is due, and not later
\* than what is left; the output is in order, holds live taken entries, and
\* lacks one only when it is full of entries that are not later.
Progress ==
    /\ IsFiniteSet(before) /\ Contents \subseteq before
    /\ \A e \in Taken : e.expire <= clock
    /\ \A e \in Taken, f \in Contents : e.expire <= f.expire
    /\ \A i \in 1 .. Len(out) : out[i] \in Taken /\ ~out[i].cancelled
    /\ \A i, j \in 1 .. Len(out) : i < j => out[i].expire <= out[j].expire /\ out[i] # out[j]
    /\ \A e \in Taken :
          \/ e.cancelled
          \/ \E i \in 1 .. Len(out) : out[i] = e
          \/ Len(out) = OutMax /\ \A i \in 1 .. Len(out) : out[i].expire <= e.expire

PopInv ==
    /\ DistinctIds
    /\ op \in {"pop", "down", "popped"} => Progress
    /\ op = "popped" => \A e \in Contents : e.expire > clock

\* The heap holds finitely many entries.
LEMMA FiniteContents == TypeOK => IsFiniteSet(Contents)
  <1> SUFFICES ASSUME TypeOK PROVE IsFiniteSet(Contents)
    OBVIOUS
  <1>1. heap \in [1 .. Len(heap) -> Entry] /\ Len(heap) \in Nat
    BY LenProperties DEF TypeOK
  <1>2. heap \in Surjection(1 .. Len(heap), Contents)
    BY <1>1 DEF Contents, Surjection
  <1>3. IsFiniteSet(1 .. Len(heap))
    BY <1>1, FS_Interval
  <1> QED BY <1>2, <1>3, FS_Surjection

\* A swap moves entries of the heap and changes none.
LEMMA SwapKeepsEntries ==
    ASSUME TypeOK, DistinctIds, NEW a \in 1 .. Len(heap), NEW b \in 1 .. Len(heap),
           heap' = Swapped(a, b)
    PROVE  Contents' = Contents /\ DistinctIds'
  <1>1. /\ Len(heap') = Len(heap)
        /\ \A i \in 1 .. Len(heap) :
              heap'[i] = IF i = a THEN heap[b] ELSE IF i = b THEN heap[a] ELSE heap[i]
    BY SwapEntries
  <1>2. DistinctIds'
    BY <1>1 DEF DistinctIds
  <1>3. ASSUME NEW i \in 1 .. Len(heap) PROVE \E j \in 1 .. Len(heap) : heap'[j] = heap[i]
    <2>1. CASE i = a
      BY <2>1, <1>1
    <2>2. CASE i = b
      BY <2>2, <1>1
    <2>3. CASE i # a /\ i # b
      BY <2>3, <1>1
    <2> QED BY <2>1, <2>2, <2>3
  <1>4. \A i \in 1 .. Len(heap) : \E j \in 1 .. Len(heap) : heap'[i] = heap[j]
    BY <1>1
  <1>5. \A x : x \in Contents <=> \E i \in 1 .. Len(heap) : x = heap[i]
    BY DEF Contents
  <1>6. \A x : x \in Contents' <=> \E i \in 1 .. Len(heap) : x = heap'[i]
    BY <1>1 DEF Contents
  <1>7. \A x : x \in Contents' <=> x \in Contents
    <2>1. ASSUME NEW x \in Contents' PROVE x \in Contents
      <3>1. PICK i \in 1 .. Len(heap) : x = heap'[i]
        BY <2>1, <1>6
      <3>2. PICK j \in 1 .. Len(heap) : heap'[i] = heap[j]
        BY <1>4
      <3> QED BY <3>1, <3>2, <1>5
    <2>2. ASSUME NEW x \in Contents PROVE x \in Contents'
      <3>1. PICK i \in 1 .. Len(heap) : x = heap[i]
        BY <2>2, <1>5
      <3>2. PICK j \in 1 .. Len(heap) : heap'[j] = heap[i]
        BY <1>3
      <3> QED BY <3>1, <3>2, <1>6
    <2> QED BY <2>1, <2>2
  <1>8. Contents' = Contents
    BY <1>7
  <1> QED BY <1>2, <1>8

\* What the sifts do not touch.
LEMMA SiftKeepsProgress ==
    ASSUME Contents' = Contents, DistinctIds', PopInv, op' # "popped",
           op' \in {"pop", "down"} => op \in {"pop", "down"},
           UNCHANGED <<clock, out, before>>
    PROVE  PopInv'
  BY DEF PopInv, Progress, Taken

\* PopTake: the root is due and an earliest entry, and the output takes it or
\* has no room for it, or it was cancelled.
LEMMA PopTakeProgress ==
    ASSUME IndInv, PopInv, PopTake
    PROVE  PopInv'
  <1> DEFINE top == heap[1]
  <1>1. TypeOK /\ heap # <<>> /\ top.expire <= clock /\ op = "pop" /\ op' = "down"
        /\ heap' = (IF Len(heap) = 1 THEN <<>>
                    ELSE SubSeq([heap EXCEPT ![1] = heap[Len(heap)]], 1, Len(heap) - 1))
        /\ UNCHANGED <<clock, before>>
    BY DEF IndInv, PopTake
  <1>2. /\ Len(heap) \in Nat /\ Len(heap) >= 1
        /\ Len(heap') = Len(heap) - 1
        /\ \A i \in 1 .. Len(heap') : heap'[i] = IF i = 1 THEN heap[Len(heap)] ELSE heap[i]
    BY <1>1, RemoveTop
  <1>3. DistinctIds /\ Progress
    BY <1>1 DEF PopInv
  <1>4. DistinctIds'
    BY <1>2, <1>3 DEF DistinctIds
  <1>5. Contents' = Contents \ {top} /\ top \in Contents
    <2>1. ASSUME NEW i \in 1 .. Len(heap), i # 1 PROVE heap[i] # top /\ \E j \in 1 .. Len(heap') : heap'[j] = heap[i]
      <3>1. heap[i] # top
        BY <2>1, <1>2, <1>3 DEF DistinctIds
      <3>2. CASE i = Len(heap)
        <4>1. 1 \in 1 .. Len(heap')
          BY <2>1, <3>2, <1>2
        <4>2. heap'[1] = heap[i]
          BY <4>1, <3>2, <1>2
        <4> QED BY <3>1, <4>1, <4>2
      <3>3. CASE i # Len(heap)
        <4>1. i \in 1 .. Len(heap')
          BY <2>1, <3>3, <1>2
        <4>2. heap'[i] = heap[i]
          BY <4>1, <2>1, <1>2
        <4> QED BY <3>1, <4>1, <4>2
      <3> QED BY <3>2, <3>3
    <2>2. ASSUME NEW j \in 1 .. Len(heap') PROVE \E i \in 1 .. Len(heap) : i # 1 /\ heap'[j] = heap[i]
      <3>1. CASE j = 1
        BY <3>1, <1>2
      <3>2. CASE j # 1
        BY <3>2, <1>2
      <3> QED BY <3>1, <3>2
    <2>3. 1 \in 1 .. Len(heap)
      BY <1>2
    <2>4. \A x : x \in Contents <=> \E i \in 1 .. Len(heap) : x = heap[i]
      BY DEF Contents
    <2>5. \A x : x \in Contents' <=> \E i \in 1 .. Len(heap') : x = heap'[i]
      BY DEF Contents
    <2>6. \A x : x \in Contents' <=> \E i \in 1 .. Len(heap) : i # 1 /\ x = heap[i]
      <3>1. ASSUME NEW x \in Contents' PROVE \E i \in 1 .. Len(heap) : i # 1 /\ x = heap[i]
        <4>1. PICK j \in 1 .. Len(heap') : x = heap'[j]
          BY <3>1, <2>5
        <4> QED BY <4>1, <2>2
      <3>2. ASSUME NEW x, NEW i \in 1 .. Len(heap), i # 1, x = heap[i] PROVE x \in Contents'
        <4>1. PICK j \in 1 .. Len(heap') : heap'[j] = heap[i]
          BY <3>2, <2>1
        <4> QED BY <3>2, <4>1, <2>5
      <3> QED BY <3>1, <3>2
    <2>7. \A x : x \in Contents' <=> x \in Contents /\ x # top
      BY <2>1, <2>4, <2>6
    <2>8. top \in Contents
      BY <2>3, <2>4
    <2> HIDE DEF top
    <2> QED BY <2>7, <2>8
  <1>6. Taken' = Taken \cup {top} /\ top \notin Taken /\ top \in before
    BY <1>1, <1>3, <1>5 DEF Taken, Progress
  <1>7. \A f \in Contents : top.expire <= f.expire
    BY <1>1, RootIsEarliest DEF Contents
  <1>8. Len(out) \in Nat /\ out \in Seq(Entry) /\ top \in Entry /\ Len(out) <= OutMax
    BY <1>1, <1>2, EntryTimes, LenProperties DEF TypeOK
  <1>9. /\ \A e \in Taken' : e.expire <= clock
        /\ \A e \in Taken', f \in Contents' : e.expire <= f.expire
        /\ Contents' \subseteq before
    BY <1>1, <1>3, <1>5, <1>6, <1>7 DEF Progress
  <1>10. CASE ~top.cancelled /\ Len(out) < OutMax
    <2>1. out' = Append(out, top)
      BY <1>10 DEF PopTake
    <2>2. /\ Len(out') = Len(out) + 1 /\ out'[Len(out) + 1] = top
          /\ \A i \in 1 .. Len(out) : out'[i] = out[i]
      BY <2>1, <1>8, AppendProperties
    <2>3. \A i \in 1 .. Len(out') : out'[i] \in Taken' /\ ~out'[i].cancelled
      BY <2>2, <1>3, <1>6, <1>8, <1>10 DEF Progress
    <2>4. \A i, j \in 1 .. Len(out') : i < j => out'[i].expire <= out'[j].expire /\ out'[i] # out'[j]
      <3> SUFFICES ASSUME NEW i \in 1 .. Len(out'), NEW j \in 1 .. Len(out'), i < j
                   PROVE  out'[i].expire <= out'[j].expire /\ out'[i] # out'[j]
        OBVIOUS
      <3>1. i \in 1 .. Len(out) /\ out'[i] = out[i]
        BY <2>2, <1>8
      <3>2. out[i] \in Taken
        BY <3>1, <1>3 DEF Progress
      <3>3. CASE j = Len(out) + 1
        BY <3>1, <3>2, <3>3, <2>2, <1>3, <1>5, <1>6 DEF Progress
      <3>4. CASE j # Len(out) + 1
        <4>1. j \in 1 .. Len(out) /\ out'[j] = out[j]
          BY <3>4, <2>2, <1>8
        <4> QED BY <3>1, <4>1, <1>3 DEF Progress
      <3> QED BY <3>3, <3>4
    <2>5. ASSUME NEW e \in Taken'
          PROVE  e.cancelled \/ \E i \in 1 .. Len(out') : out'[i] = e
      <3>1. CASE e = top
        BY <3>1, <2>2, <1>8
      <3>2. CASE e # top
        <4>1. e \in Taken
          BY <3>2, <1>6
        <4>2. e.cancelled \/ \E i \in 1 .. Len(out) : out[i] = e
          BY <4>1, <1>3, <1>10 DEF Progress
        <4> QED BY <4>2, <2>2, <1>8
      <3> QED BY <3>1, <3>2
    <2> QED BY <1>1, <1>4, <1>9, <2>3, <2>4, <2>5 DEF PopInv, Progress
  <1>11. CASE ~(~top.cancelled /\ Len(out) < OutMax)
    <2>1. out' = out
      BY <1>11 DEF PopTake
    <2>2. \A i \in 1 .. Len(out) : out[i].expire <= top.expire
      BY <1>3, <1>5 DEF Progress
    <2>3. top.cancelled \/ Len(out) = OutMax
      BY <1>8, <1>11, OutMaxAssumption
    <2>4. ASSUME NEW e \in Taken'
          PROVE  \/ e.cancelled
                 \/ \E i \in 1 .. Len(out) : out[i] = e
                 \/ Len(out) = OutMax /\ \A i \in 1 .. Len(out) : out[i].expire <= e.expire
      <3>1. CASE e = top
        BY <3>1, <2>2, <2>3
      <3>2. CASE e # top
        BY <3>2, <1>3, <1>6 DEF Progress
      <3> QED BY <3>1, <3>2
    <2>5. /\ \A i \in 1 .. Len(out) : out[i] \in Taken' /\ ~out[i].cancelled
          /\ \A i, j \in 1 .. Len(out) : i < j => out[i].expire <= out[j].expire /\ out[i] # out[j]
      BY <1>3, <1>6 DEF Progress
    <2> QED BY <1>1, <1>4, <1>9, <2>1, <2>4, <2>5 DEF PopInv, Progress
  <1> QED BY <1>10, <1>11

\* Every step of timer_queue preserves what pop_expired() knows.
LEMMA PopInvStep ==
    ASSUME IndInv, PopInv, [Next]_vars
    PROVE  PopInv'
  <1>1. TypeOK /\ DistinctIds /\ HoleInHeap
    BY DEF IndInv, PopInv
  <1>2. ASSUME NEW id \in Ids, NEW t \in Times, PushPlace(id, t) PROVE PopInv'
    <2> DEFINE e == [id |-> id, expire |-> t, cancelled |-> FALSE]
    <2>1. heap \in Seq(Entry) /\ e \in Entry /\ heap' = Append(heap, e) /\ e.id = id
          /\ \A i \in 1 .. Len(heap) : heap[i].id # id
      BY <1>1, <1>2 DEF PushPlace, TypeOK, Entry, Contents
    <2> HIDE DEF e
    <2>2. /\ Len(heap) \in Nat /\ Len(heap') = Len(heap) + 1 /\ heap'[Len(heap) + 1] = e
          /\ \A i \in 1 .. Len(heap) : heap'[i] = heap[i]
      BY <2>1, AppendProperties, LenProperties
    <2>3. DistinctIds'
      BY <2>1, <2>2, <1>1 DEF DistinctIds
    <2> QED BY <2>3, <1>2 DEF PopInv, PushPlace
  <1>3. ASSUME NEW id \in Ids, Cancel(id) PROVE PopInv'
    <2>1. PICK k \in 1 .. Len(heap) : heap' = [heap EXCEPT ![k].cancelled = TRUE]
      BY <1>3 DEF Cancel
    <2> DEFINE e == [heap[k] EXCEPT !.cancelled = TRUE]
    <2>2. e \in Entry /\ e.id = heap[k].id /\ heap' = [heap EXCEPT ![k] = e]
      BY <2>1, <1>1, EntryTimes DEF Entry
    <2> HIDE DEF e
    <2>3. Len(heap') = Len(heap) /\ \A i \in 1 .. Len(heap) : heap'[i] = IF i = k THEN e ELSE heap[i]
      BY <2>2, <1>1, WriteEntry
    <2>4. DistinctIds'
      BY <2>2, <2>3, <1>1 DEF DistinctIds
    <2> QED BY <2>4, <1>3 DEF PopInv, Cancel
  <1>4. CASE SiftUpSwap
    <2>1. hole \in 1 .. Len(heap) /\ hole \div 2 \in 1 .. Len(heap)
      BY <1>1, <1>4, EntryTimes, Half DEF SiftUpSwap, HoleInHeap, TypeOK
    <2>2. Contents' = Contents /\ DistinctIds'
      BY <1>1, <1>4, <2>1, SwapKeepsEntries DEF SiftUpSwap
    <2> QED BY <1>4, <2>2, SiftKeepsProgress DEF SiftUpSwap
  <1>5. CASE SiftUpStop
    BY <1>5 DEF SiftUpStop, PopInv, DistinctIds
  <1>6. CASE SiftDownSwap
    <2>1. hole \in 1 .. Len(heap) /\ Smallest(hole) \in 1 .. Len(heap)
      BY <1>1, <1>6, EntryTimes, SmallestChild DEF SiftDownSwap, HoleInHeap, TypeOK
    <2>2. Contents' = Contents /\ DistinctIds'
      BY <1>1, <1>6, <2>1, SwapKeepsEntries DEF SiftDownSwap
    <2> QED BY <1>6, <2>2, SiftKeepsProgress DEF SiftDownSwap
  <1>7. CASE SiftDownStop
    <2>1. Contents' = Contents /\ DistinctIds'
      BY <1>1, <1>7 DEF SiftDownStop, Contents, DistinctIds
    <2> QED BY <1>7, <2>1, SiftKeepsProgress DEF SiftDownStop
  <1>8. CASE PushFull
    BY <1>8 DEF PushFull, PopInv, DistinctIds
  <1>9. CASE Clear
    BY <1>9, EmptySeq DEF Clear, PopInv, DistinctIds
  <1>10. ASSUME NEW now \in Times, PopBegin(now) PROVE PopInv'
    <2>1. Contents' = Contents /\ before' = Contents /\ out' = <<>> /\ DistinctIds' /\ op' = "pop"
      BY <1>1, <1>10 DEF PopBegin, Contents, DistinctIds
    <2>2. Taken' = {} /\ Len(out') = 0
      BY <2>1, EmptySeq DEF Taken
    <2>3. IsFiniteSet(before')
      BY <2>1, <1>1, FiniteContents
    <2> QED BY <2>1, <2>2, <2>3 DEF PopInv, Progress
  <1>11. CASE PopTake
    BY <1>11, PopTakeProgress
  <1>12. CASE PopEnd
    <2>1. Contents' = Contents /\ UNCHANGED <<clock, out, before>> /\ DistinctIds' /\ op = "pop" /\ op' = "popped"
      BY <1>1, <1>12 DEF PopEnd, Contents, DistinctIds
    <2>2. Progress'
      BY <2>1 DEF PopInv, Progress, Taken
    <2>3. ASSUME NEW e \in Contents PROVE e.expire > clock
      <3>1. PICK i \in 1 .. Len(heap) : e = heap[i]
        BY DEF Contents
      <3>2. heap # <<>> /\ Len(heap) \in Nat /\ 1 \in 1 .. Len(heap) /\ clock \in Nat
        BY <3>1, <1>1, EntryTimes, EmptySeq DEF TypeOK
      <3>3. heap[1].expire > clock /\ heap[1].expire <= heap[i].expire
        BY <3>2, <1>12, <2>1, RootIsEarliest DEF PopEnd
      <3> QED BY <3>1, <3>2, <3>3, <1>1, EntryTimes
    <2> QED BY <2>1, <2>2, <2>3 DEF PopInv
  <1>13. CASE UNCHANGED vars
    BY <1>13 DEF vars, PopInv, Progress, Taken, Contents, DistinctIds
  <1> QED BY <1>2, <1>3, <1>4, <1>5, <1>6, <1>7, <1>8, <1>9, <1>10, <1>11, <1>12, <1>13 DEF Next

\* A sequence without repetitions has as many elements as places.
LEMMA CountOut ==
    ASSUME TypeOK, \A i, j \in 1 .. Len(out) : i < j => out[i] # out[j]
    PROVE  /\ IsFiniteSet(Store!ToSet(out)) /\ Cardinality(Store!ToSet(out)) = Len(out)
           /\ Store!ToSet(out) = {out[i] : i \in 1 .. Len(out)}
           /\ out \in [1 .. Len(out) -> Store!ToSet(out)]
  <1>1. out \in [1 .. Len(out) -> Entry] /\ Len(out) \in Nat /\ DOMAIN out = 1 .. Len(out)
    BY LenProperties DEF TypeOK
  <1> DEFINE S == {out[i] : i \in 1 .. Len(out)}
  <1>2. Store!ToSet(out) = S
    BY <1>1 DEF Store!ToSet
  <1>3. out \in [1 .. Len(out) -> S]
    BY <1>1
  <1> HIDE DEF S
  <1>4. \A i, j \in 1 .. Len(out) : out[i] = out[j] => i = j
    BY <1>1
  <1>5. \A s \in S : \E i \in 1 .. Len(out) : out[i] = s
    BY DEF S
  <1>6. out \in Bijection(1 .. Len(out), S)
    BY <1>3, <1>4, <1>5 DEF Bijection, Injection, Surjection, IsInjective
  <1>7. IsFiniteSet(1 .. Len(out)) /\ Cardinality(1 .. Len(out)) = Len(out)
    <2>1. 1 \in Int /\ Len(out) \in Int /\ (Len(out) = 0 \/ ~(1 > Len(out)))
      BY <1>1
    <2> QED BY <2>1, <1>1, FS_Interval
  <1>8. IsFiniteSet(S) /\ Cardinality(S) = Len(out)
    BY <1>6, <1>7, FS_Bijection DEF ExistsBijection
  <1> QED BY <1>2, <1>3, <1>8 DEF S

\* Cardinality is one operator in both modules.
LEMMA SameCount == \A S : Store!Cardinality(S) = Cardinality(S)
  BY DEF Store!Cardinality, Cardinality, Store!IsFiniteSet, IsFiniteSet

\* pop_expired() as a whole, for every capacity, room of the output, set of
\* ids and set of times: it takes out exactly the due entries, and delivers
\* live ones, earliest first, as many as there is room for.
THEOREM PopCorrect == Spec => []PopMatchesStore
  <1>1. Init => PopInv
    BY EmptySeq DEF Init, PopInv, DistinctIds
  <1>2. ASSUME IndInv, PopInv, op = "popped"
        PROVE  /\ Contents = before \ Store!Due(before, clock)
               /\ out \in Store!Deliveries(before, clock, OutMax)
    <2>1. TypeOK /\ Progress /\ \A e \in Contents : e.expire > clock
      BY <1>2 DEF IndInv, PopInv
    <2>2. \A e \in before : e.expire \in Nat
      BY <2>1, TimesAssumption DEF TypeOK, Entry
    <2>3. Store!Due(before, clock) = Taken /\ Contents = before \ Taken
      BY <2>1, <2>2 DEF Store!Due, Taken, Progress, TypeOK
    <2> DEFINE C == Store!Live(Taken)
               T == Store!ToSet(out)
               n == IF Cardinality(C) < OutMax THEN Cardinality(C) ELSE OutMax
    <2>4. /\ IsFiniteSet(T) /\ Cardinality(T) = Len(out) /\ T = {out[i] : i \in 1 .. Len(out)}
          /\ out \in [1 .. Len(out) -> T]
      BY <2>1, CountOut DEF Progress
    <2>5. T \subseteq C
      BY <2>1, <2>4 DEF Progress, Store!Live
    <2>6. Len(out) \in Nat /\ Len(out) <= OutMax
      BY <2>1, LenProperties DEF TypeOK
    <2>7. \A e \in C \ T : Len(out) = OutMax /\ \A i \in 1 .. Len(out) : out[i].expire <= e.expire
      BY <2>1, <2>4 DEF Progress, Store!Live
    <2>8. IsFiniteSet(C)
      <3>1. C \subseteq before /\ IsFiniteSet(before)
        BY <2>1 DEF Progress, Store!Live, Taken
      <3> QED BY <3>1, FS_Subset
    <2> HIDE DEF C, T
    <2>9. n = Len(out)
      <3>1. Cardinality(T) <= Cardinality(C) /\ Cardinality(C) \in Nat
        BY <2>5, <2>8, FS_Subset, FS_CardinalityType
      <3>2. CASE Len(out) = OutMax
        BY <3>1, <3>2, <2>4, OutMaxAssumption
      <3>3. CASE Len(out) # OutMax
        <4>1. \A e \in C : e \in T
          BY <2>7, <3>3
        <4>2. Cardinality(C) = Len(out)
          <5>1. C = T
            BY <4>1, <2>5
          <5> QED BY <5>1, <2>4
        <4> QED BY <4>2, <3>3, <2>6, OutMaxAssumption
      <3> QED BY <3>2, <3>3
    <2> HIDE DEF n
    <2>10. T \in Store!kSubset(n, C)
      BY <2>4, <2>5, <2>9, SameCount DEF Store!kSubset
    <2>11. \A i, j \in 1 .. Len(out) : i # j => out[i] # out[j]
      BY <2>1, <2>6 DEF Progress
    <2>12. out \in Store!SetToSeqs(T)
      BY <2>4, <2>11, SameCount DEF Store!SetToSeqs
    <2>13. Store!SortedByExpire(out)
      BY <2>1 DEF Progress, Store!SortedByExpire
    <2>14. \A i \in 1 .. n : \A e \in C \ Store!ToSet(out) : out[i].expire <= e.expire
      BY <2>7, <2>9 DEF T
    <2>15. n = IF Store!Cardinality(C) < OutMax THEN Store!Cardinality(C) ELSE OutMax
      BY SameCount DEF n
    <2>16. C = Store!Live(Store!Due(before, clock))
      BY <2>3 DEF C
    <2>17. out \in Store!Deliveries(before, clock, OutMax)
      BY <2>10, <2>12, <2>13, <2>14, <2>15, <2>16 DEF Store!Deliveries
    <2> QED BY <2>3, <2>17
  <1>3. IndInv /\ PopInv => PopMatchesStore
    BY <1>2 DEF PopMatchesStore
  <1>4. Spec => [](IndInv /\ PopInv)
    BY InitInv, NextStep, <1>1, PopInvStep, PTL DEF Spec
  <1> QED BY <1>3, <1>4, PTL
=============================================================================
