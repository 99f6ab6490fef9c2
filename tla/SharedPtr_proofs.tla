-------------------------- MODULE SharedPtr_proofs --------------------------
(***************************************************************************)
(* Proofs about shared_ptr and weak_ptr (SharedPtr.tla), for any set of    *)
(* objects and any members, cyclic or not: counts match what holds them,   *)
(* nothing dangles, and only cycles leak.                                  *)
(*                                                                         *)
(* The counts are compared with two quantities: how many slots hold an     *)
(* object (Holders), and how many calls in progress are about it (Count).  *)
(***************************************************************************)
EXTENDS SharedPtr, FiniteSetTheorems, SequenceTheorems, WellFoundedInduction, TLAPS

Num(b) == IF b THEN 1 ELSE 0

\* The slots of the set K that f points to p, and their number.
Held(f, K, p) == {k \in K : f[k] = p}
Holders(f, K, p) == Cardinality(Held(f, K, p))

\* 1 for a slot that holds p.
At(f, s, p) == Num(f[s] = p)

\* The places of c in the sequence s, and their number.
PlacesOf(s, c) == {i \in 1 .. Len(s) : s[i] = c}
Count(s, c) == Cardinality(PlacesOf(s, c))

\* A count of holders is zero exactly when nothing holds the block.
LEMMA HoldersFinite ==
    ASSUME NEW f, NEW K, IsFiniteSet(K), NEW p
    PROVE  IsFiniteSet(Held(f, K, p)) /\ Holders(f, K, p) \in Nat
           /\ (Holders(f, K, p) = 0 <=> Held(f, K, p) = {})
  BY FS_Subset, FS_CardinalityType, FS_EmptySet DEF Held, Holders

\* A slot s of K that is made to point to x.
LEMMA HoldersChange ==
    ASSUME NEW f, NEW g, NEW K, IsFiniteSet(K), NEW s \in K, NEW x, NEW p,
           g[s] = x, \A k \in K : k # s => g[k] = f[k]
    PROVE  Holders(g, K, p) = Holders(f, K, p) - Num(f[s] = p) + Num(x = p)
  <1> DEFINE Hs == Held(f, K, p)
  <1>2. IsFiniteSet(Hs) /\ Cardinality(Hs) \in Nat
    BY HoldersFinite DEF Holders
  <1>3. Held(g, K, p) = IF x = p THEN (Hs \ {s}) \cup {s} ELSE Hs \ {s}
    BY DEF Held
  <1>4. s \in Hs <=> f[s] = p
    BY DEF Held
  <1> HIDE DEF Hs
  <1>5. IsFiniteSet(Hs \ {s}) /\ Cardinality(Hs \ {s}) = Cardinality(Hs) - Num(f[s] = p)
    BY <1>2, <1>4, FS_RemoveElement DEF Num
  <1>6. Cardinality((Hs \ {s}) \cup {s}) = Cardinality(Hs \ {s}) + 1
    <2>1. s \notin Hs \ {s}
      OBVIOUS
    <2> QED BY <2>1, <1>5, FS_AddElement
  <1>7. Cardinality(Held(g, K, p)) = Cardinality(Hs) - Num(f[s] = p) + Num(x = p)
    <2>1. CASE x = p
      BY <2>1, <1>3, <1>5, <1>6, <1>2 DEF Num
    <2>2. CASE x # p
      BY <2>2, <1>3, <1>5, <1>2 DEF Num
    <2> QED BY <2>1, <2>2
  <1> QED BY <1>7 DEF Holders, Hs

\* A slot that is made to point elsewhere, of K or not.
LEMMA SlotOfK ==
    ASSUME NEW f, NEW g, NEW K, IsFiniteSet(K), NEW s, NEW p, s \in K,
           \A k \in K : k # s => g[k] = f[k]
    PROVE  Holders(g, K, p) = Holders(f, K, p) - At(f, s, p) + At(g, s, p)
  BY HoldersChange DEF At

\* A slot that is not in K does not change what K holds.
LEMMA OtherSlot ==
    ASSUME NEW f, NEW g, NEW K, IsFiniteSet(K), NEW s, NEW p, s \notin K,
           \A k \in K : k # s => g[k] = f[k]
    PROVE  Holders(g, K, p) = Holders(f, K, p)
  BY DEF Holders, Held

\* A count of calls is a number, and zero when no call is about it.
LEMMA CountFinite ==
    ASSUME NEW S, NEW s \in Seq(S), NEW c
    PROVE  /\ IsFiniteSet(PlacesOf(s, c)) /\ Count(s, c) \in Nat
           /\ Count(s, c) = 0 <=> PlacesOf(s, c) = {}
           /\ Count(s, c) = 0 <=> \A i \in 1 .. Len(s) : s[i] # c
  <1>1. IsFiniteSet(1 .. Len(s))
    BY LenProperties, FS_Interval
  <1>2. PlacesOf(s, c) \in SUBSET (1 .. Len(s))
    BY DEF PlacesOf
  <1>3. IsFiniteSet(PlacesOf(s, c))
    BY <1>1, <1>2, FS_Subset
  <1>4. Count(s, c) \in Nat /\ (Count(s, c) = 0 <=> PlacesOf(s, c) = {})
    BY <1>3, FS_CardinalityType, FS_EmptySet DEF Count
  <1>5. PlacesOf(s, c) = {} <=> \A i \in 1 .. Len(s) : s[i] # c
    BY DEF PlacesOf
  <1> QED BY <1>3, <1>4, <1>5

\* Places move, and their number stays: n \in T becomes n + k.
LEMMA Shift ==
    ASSUME NEW T \in SUBSET Nat, IsFiniteSet(T), NEW k \in Nat
    PROVE  /\ IsFiniteSet({i \in Nat : i >= k /\ i - k \in T})
           /\ Cardinality({i \in Nat : i >= k /\ i - k \in T}) = Cardinality(T)
  <1> DEFINE Us == {i \in Nat : i >= k /\ i - k \in T}
             f == [i \in T |-> i + k]
  <1>1. \A i \in T : i \in Nat /\ i + k \in Us
    OBVIOUS
  <1>2. \A u \in Us : u - k \in T /\ (u - k) + k = u
    OBVIOUS
  <1>3. \A i, j \in T : i + k = j + k => i = j
    OBVIOUS
  <1> HIDE DEF Us
  <1>4. f \in [T -> Us]
    BY <1>1
  <1>5. \A i, j \in T : f[i] = f[j] => i = j
    BY <1>3
  <1>6. \A u \in Us : \E i \in T : f[i] = u
    BY <1>2
  <1> HIDE DEF f
  <1>7. f \in Bijection(T, Us)
    BY <1>4, <1>5, <1>6 DEF Bijection, Injection, Surjection, IsInjective
  <1>8. IsFiniteSet(Us) /\ Cardinality(Us) = Cardinality(T)
    BY <1>7, FS_Bijection DEF ExistsBijection
  <1> QED BY <1>8 DEF Us

\* One sequence after the other.
LEMMA CountConcat ==
    ASSUME NEW S, NEW s \in Seq(S), NEW t \in Seq(S), NEW c
    PROVE  s \o t \in Seq(S) /\ Count(s \o t, c) = Count(s, c) + Count(t, c)
  <1>1. /\ s \o t \in Seq(S)
        /\ Len(s \o t) = Len(s) + Len(t)
        /\ \A i \in 1 .. Len(s) + Len(t) : (s \o t)[i] = IF i <= Len(s) THEN s[i] ELSE t[i - Len(s)]
    BY ConcatProperties
  <1>2. Len(s) \in Nat /\ Len(t) \in Nat
    BY LenProperties
  <1> DEFINE A == PlacesOf(s, c)
             B == PlacesOf(t, c)
             C == {i \in Nat : i >= Len(s) /\ i - Len(s) \in B}
  <1>3. IsFiniteSet(A) /\ IsFiniteSet(B) /\ Cardinality(A) \in Nat /\ Cardinality(B) \in Nat
    BY CountFinite DEF Count
  <1>4. B \in SUBSET Nat
    BY <1>2 DEF PlacesOf
  <1>5. IsFiniteSet(C) /\ Cardinality(C) = Cardinality(B)
    <2> HIDE DEF B
    <2> QED BY <1>2, <1>3, <1>4, Shift
  <1>6. PlacesOf(s \o t, c) = A \cup C
    <2>1. ASSUME NEW i \in PlacesOf(s \o t, c) PROVE i \in A \cup C
      BY <1>1, <1>2 DEF PlacesOf
    <2>2. ASSUME NEW i \in A PROVE i \in PlacesOf(s \o t, c)
      BY <1>1, <1>2 DEF PlacesOf
    <2>3. ASSUME NEW i \in C PROVE i \in PlacesOf(s \o t, c)
      BY <1>1, <1>2 DEF PlacesOf
    <2> QED BY <2>1, <2>2, <2>3
  <1>7. A \cap C = {}
    BY <1>2 DEF PlacesOf
  <1> HIDE DEF A, B, C
  <1>8. Cardinality(A \cup C) = Cardinality(A) + Cardinality(C)
    <2>1. Cardinality(A \cap C) = 0
      BY <1>7, FS_EmptySet
    <2>2. Cardinality(A \cup C) = Cardinality(A) + Cardinality(C) - Cardinality(A \cap C)
      BY <1>3, <1>5, FS_Union
    <2> QED BY <2>1, <2>2, <1>3, <1>5
  <1> QED BY <1>1, <1>5, <1>6, <1>8 DEF Count, A, B

\* The counts of no call and of one call.
LEMMA CountShort ==
    ASSUME NEW c
    PROVE  /\ Count(<<>>, c) = 0
           /\ \A x : Count(<<x>>, c) = Num(x = c)
  <1>1. Count(<<>>, c) = 0
    <2>1. PlacesOf(<<>>, c) = {}
      BY EmptySeq DEF PlacesOf
    <2> QED BY <2>1, FS_EmptySet DEF Count
  <1>2. ASSUME NEW x PROVE Count(<<x>>, c) = Num(x = c)
    <2>1. PlacesOf(<<x>>, c) = IF x = c THEN {1} ELSE {}
      BY DEF PlacesOf
    <2> QED BY <2>1, FS_EmptySet, FS_Singleton DEF Count, Num
  <1> QED BY <1>1, <1>2

\* The innermost call and the others.
LEMMA CountHead ==
    ASSUME NEW S, NEW s \in Seq(S), s # <<>>, NEW c
    PROVE  Count(s, c) = Num(Head(s) = c) + Count(Tail(s), c)
  <1>1. Head(s) \in S /\ Tail(s) \in Seq(S)
    BY HeadTailProperties
  <1>2. PICK x \in S, t \in Seq(S) : x = Head(s) /\ t = Tail(s)
    BY <1>1
  <1>3. PICK h : h = <<x>> /\ h \in Seq(S)
    <2>1. <<x>> \in Seq(S)
      BY <1>2
    <2> QED BY <2>1
  <1>4. Len(h) = 1 /\ h[1] = s[1]
    <2>1. Head(s) = s[1]
      BY HeadTailProperties
    <2> QED BY <2>1, <1>2, <1>3
  <1>5. /\ h \o t \in Seq(S) /\ Len(h \o t) = 1 + Len(t)
        /\ \A i \in 1 .. 1 + Len(t) : (h \o t)[i] = IF i <= 1 THEN h[i] ELSE t[i - 1]
    BY <1>2, <1>3, <1>4, ConcatProperties
  <1>6. /\ Len(s) \in Nat /\ Len(t) = Len(s) - 1
        /\ \A i \in 1 .. Len(t) : t[i] = s[i + 1]
    BY <1>2, HeadTailProperties, LenProperties
  <1>7. Len(h \o t) = Len(s) /\ \A i \in 1 .. Len(s) : (h \o t)[i] = s[i]
    BY <1>4, <1>5, <1>6
  <1>8. s = h \o t
    <2>1. PICK u \in Seq(S) : u = h \o t
      BY <1>5
    <2>2. Len(s) = Len(u) /\ \A i \in 1 .. Len(s) : s[i] = u[i]
      BY <2>1, <1>7
    <2>3. s = u
      BY <2>1, <2>2, SeqEqual
    <2> QED BY <2>1, <2>3
  <1>9. Count(h \o t, c) = Count(h, c) + Count(t, c)
    <2>1. h \in Seq(S) /\ t \in Seq(S)
      BY <1>2, <1>3
    <2>2. \A a, b \in Seq(S) : Count(a \o b, c) = Count(a, c) + Count(b, c)
      BY CountConcat
    <2> QED BY <2>1, <2>2
  <1>10. Count(h, c) = Num(x = c)
    BY <1>3, CountShort
  <1> QED BY <1>2, <1>8, <1>9, <1>10

\* The calls of a sequence.
Elems(s) == {s[i] : i \in 1 .. Len(s)}

\* Whoever has still to finish destroying an object releases its block next.
PairedIn(s) ==
    \A i \in 1 .. Len(s) :
        s[i][1] = "destroyed" => i < Len(s) /\ s[i + 1] = <<"release_weak", s[i][2]>>

\* A call is in progress exactly when its count is not zero.
LEMMA ElemsCounted ==
    ASSUME NEW S, NEW s \in Seq(S), NEW c
    PROVE  Count(s, c) = 0 <=> c \notin Elems(s)
  BY CountFinite DEF Elems

\* The calls of two lists together.
LEMMA ElemsConcat ==
    ASSUME NEW S, NEW s \in Seq(S), NEW t \in Seq(S)
    PROVE  /\ Elems(s \o t) = Elems(s) \cup Elems(t)
           /\ PairedIn(s) /\ PairedIn(t) => PairedIn(s \o t)
  <1>1. PICK u \in Seq(S) : u = s \o t
    BY ConcatProperties
  <1>2. /\ Len(u) = Len(s) + Len(t)
        /\ \A i \in 1 .. Len(s) + Len(t) : u[i] = IF i <= Len(s) THEN s[i] ELSE t[i - Len(s)]
    BY <1>1, ConcatProperties
  <1>3. Len(s) \in Nat /\ Len(t) \in Nat
    BY LenProperties
  <1>4. \A i \in 1 .. Len(s) : i \in 1 .. Len(u) /\ u[i] = s[i]
    BY <1>2, <1>3
  <1>5. ASSUME NEW i \in 1 .. Len(t)
        PROVE  Len(s) + i \in 1 .. Len(u) /\ u[Len(s) + i] = t[i]
    <2>1. PICK k \in 1 .. Len(s) + Len(t) : k = Len(s) + i /\ ~(k <= Len(s)) /\ k - Len(s) = i
      BY <1>3
    <2> QED BY <2>1, <1>2
  <1>6. \A i \in 1 .. Len(u) : i \in 1 .. Len(s) \/ \E j \in 1 .. Len(t) : i = Len(s) + j
    <2>1. ASSUME NEW i \in 1 .. Len(u), i \notin 1 .. Len(s) PROVE i - Len(s) \in 1 .. Len(t) /\ i = Len(s) + (i - Len(s))
      BY <2>1, <1>2, <1>3
    <2> QED BY <2>1
  <1>7. Elems(u) = Elems(s) \cup Elems(t)
    <2>1. ASSUME NEW c \in Elems(u) PROVE c \in Elems(s) \cup Elems(t)
      <3>1. PICK i \in 1 .. Len(u) : c = u[i]
        BY DEF Elems
      <3>2. CASE i \in 1 .. Len(s)
        BY <3>1, <3>2, <1>4 DEF Elems
      <3>3. CASE i \notin 1 .. Len(s)
        <4>1. PICK j \in 1 .. Len(t) : i = Len(s) + j
          BY <3>3, <1>6
        <4>2. c = t[j]
          BY <3>1, <4>1, <1>5
        <4> QED BY <4>1, <4>2 DEF Elems
      <3> QED BY <3>2, <3>3
    <2>2. ASSUME NEW c \in Elems(s) \cup Elems(t) PROVE c \in Elems(u)
      BY <1>4, <1>5 DEF Elems
    <2> QED BY <2>1, <2>2
  <1>8. ASSUME PairedIn(s), PairedIn(t) PROVE PairedIn(u)
    <2> SUFFICES ASSUME NEW i \in 1 .. Len(u), u[i][1] = "destroyed"
                 PROVE  i < Len(u) /\ u[i + 1] = <<"release_weak", u[i][2]>>
      BY DEF PairedIn
    <2>1. CASE i \in 1 .. Len(s)
      <3>1. i < Len(s) /\ s[i + 1] = <<"release_weak", s[i][2]>>
        BY <1>4, <1>8, <2>1 DEF PairedIn
      <3>2. i + 1 \in 1 .. Len(s) /\ i < Len(u)
        BY <3>1, <2>1, <1>2, <1>3
      <3> QED BY <3>1, <3>2, <2>1, <1>4
    <2>2. CASE i \notin 1 .. Len(s)
      <3>1. PICK j \in 1 .. Len(t) : i = Len(s) + j
        BY <2>2, <1>6
      <3>2. j < Len(t) /\ t[j + 1] = <<"release_weak", t[j][2]>>
        BY <3>1, <1>5, <1>8 DEF PairedIn
      <3>3. j + 1 \in 1 .. Len(t) /\ i + 1 = Len(s) + (j + 1) /\ i < Len(u)
        BY <3>1, <3>2, <1>2, <1>3
      <3> QED BY <3>1, <3>2, <3>3, <1>5
    <2> QED BY <2>1, <2>2
  <1> QED BY <1>1, <1>7, <1>8

\* The calls that are left when the first returns.
LEMMA ElemsTail ==
    ASSUME NEW S, NEW s \in Seq(S), s # <<>>
    PROVE  /\ Head(s) \in S /\ Tail(s) \in Seq(S)
           /\ Elems(s) = {Head(s)} \cup Elems(Tail(s))
           /\ PairedIn(s) => PairedIn(Tail(s))
  <1>1. Head(s) \in S /\ Tail(s) \in Seq(S)
    BY HeadTailProperties
  <1>2. PICK t \in Seq(S) : t = Tail(s)
    BY <1>1
  <1>3. /\ Len(s) \in Nat /\ Len(s) >= 1 /\ Len(t) = Len(s) - 1
        /\ \A i \in 1 .. Len(t) : t[i] = s[i + 1]
    BY <1>2, HeadTailProperties, LenProperties, EmptySeq
  <1>4. Head(s) = s[1]
    BY HeadTailProperties
  <1>5. \A i \in 1 .. Len(s) : i = 1 \/ (i - 1 \in 1 .. Len(t) /\ t[i - 1] = s[i])
    BY <1>3
  <1>6. \A i \in 1 .. Len(t) : i + 1 \in 1 .. Len(s) /\ t[i] = s[i + 1]
    BY <1>3
  <1>7. 1 \in 1 .. Len(s)
    BY <1>3
  <1>8. Elems(s) = {s[1]} \cup Elems(t)
    <2>1. ASSUME NEW c \in Elems(s) PROVE c \in {s[1]} \cup Elems(t)
      BY <1>5 DEF Elems
    <2>2. ASSUME NEW c \in {s[1]} \cup Elems(t) PROVE c \in Elems(s)
      BY <1>6, <1>7 DEF Elems
    <2> QED BY <2>1, <2>2
  <1>9. ASSUME PairedIn(s) PROVE PairedIn(t)
    <2> SUFFICES ASSUME NEW i \in 1 .. Len(t), t[i][1] = "destroyed"
                 PROVE  i < Len(t) /\ t[i + 1] = <<"release_weak", t[i][2]>>
      BY DEF PairedIn
    <2>1. i + 1 \in 1 .. Len(s) /\ s[i + 1][1] = "destroyed"
      BY <1>6
    <2>2. i + 1 < Len(s) /\ s[(i + 1) + 1] = <<"release_weak", s[i + 1][2]>>
      BY <2>1, <1>9 DEF PairedIn
    <2>3. i + 1 \in 1 .. Len(t) /\ i < Len(t)
      BY <2>2, <1>3
    <2> QED BY <2>2, <2>3, <1>6
  <1> QED BY <1>1, <1>2, <1>4, <1>8, <1>9

-----------------------------------------------------------------------------
\* The two counts of a block, and what they say of its object.
Counted(o) ==
    /\ shared_count[o] = Holders(target, StrongSlots, o) + Count(todo, <<"release_ref", o>>)
    /\ weak_count[o] = Holders(target, WeakSlots, o) + Count(todo, <<"release_weak", o>>)
                          + Num(shared_count[o] > 0)
    /\ object[o] = "alive" <=> shared_count[o] > 0

\* Whoever refers to a block finds it, and an owner finds the object alive.
Referred ==
    /\ \A c \in Elems(todo) : block[c[2]] = "alive"
    /\ \A c \in Elems(todo) : c[1] = "destroyed" => object[c[2]] \in {"dying", "dead", "freed"}
    /\ \A s \in Slots : target[s] # Null => block[target[s]] = "alive"
    /\ \A s \in StrongSlots : target[s] # Null => object[target[s]] = "alive"

\* Where the memory of an object is, and how far its destruction has come.
Placed(o) ==
    /\ object[o] \in {"alive", "dying", "dead"} => block[o] = "alive"
    /\ block[o] = "alive" => place[o] \in {"heap", "block"}
    /\ block[o] = "alive" /\ place[o] = "heap" =>
          /\ object[o] # "dead"
          /\ object[o] = "dying" => <<"destroyed", o>> \in Elems(todo)

IndInv ==
    /\ TypeOK
    /\ \A o \in Objects : block[o] = "alive" => Counted(o)
    /\ \A o \in Objects : Placed(o)
    /\ Referred
    /\ PairedIn(todo)

\* Slots are finite, so counts of holders are numbers.
LEMMA FiniteSlots == IsFiniteSet(StrongSlots) /\ IsFiniteSet(WeakSlots)
  <1>1. StrongSlots \in SUBSET Slots /\ WeakSlots \in SUBSET Slots
    BY DEF Slots
  <1> QED BY <1>1, FiniteAssumption, FS_Subset

\* Facts about the empty list of calls.
LEMMA NoCalls ==
    /\ Elems(<<>>) = {} /\ PairedIn(<<>>) /\ <<>> \in Seq(Calls)
    /\ \A c : Count(<<>>, c) = 0
  BY EmptySeq, CountShort DEF Elems, PairedIn

\* The call that gives up a slot, if there is one.
LEMMA OneCall ==
    ASSUME TypeOK, NEW s \in Slots
    PROVE  /\ ReleaseOf(s) \in Seq(Calls)
           /\ PairedIn(ReleaseOf(s))
           /\ \A c \in Elems(ReleaseOf(s)) : target[s] # Null /\ c[2] = target[s] /\ c[1] # "destroyed"
           /\ \A p \in Objects :
                 /\ Count(ReleaseOf(s), <<"release_ref", p>>) = Num(s \in StrongSlots /\ target[s] = p)
                 /\ Count(ReleaseOf(s), <<"release_weak", p>>) = Num(s \in WeakSlots /\ target[s] = p)
  <1>1. target[s] \in Objects \cup {Null} /\ s \in StrongSlots \cup WeakSlots
    BY DEF TypeOK, Slots
  <1>2. CASE target[s] = Null
    BY <1>2, NoCalls, SlotsAssumption DEF ReleaseOf, Num
  <1>3. CASE target[s] # Null
    <2>1. PICK r \in Calls : r = Release(s)
      <3>1. PICK o \in Objects : o = target[s]
        BY <1>1, <1>3
      <3>2. PICK which \in {"release_ref", "release_weak"} :
               which = IF s \in StrongSlots THEN "release_ref" ELSE "release_weak"
        OBVIOUS
      <3>3. <<which, o>> \in Calls
        BY DEF Calls
      <3>4. Release(s) = <<which, o>>
        BY <3>1, <3>2 DEF Release
      <3> QED BY <3>3, <3>4
    <2>2. PICK q : q = <<r>>
      OBVIOUS
    <2>3. q \in Seq(Calls) /\ Len(q) = 1 /\ q[1] = r /\ ReleaseOf(s) = q
      BY <2>1, <2>2, <1>3 DEF ReleaseOf
    <2>4. r[1] # "destroyed" /\ r[2] = target[s]
      BY <2>1 DEF Release
    <2>5. Elems(q) = {r} /\ PairedIn(q)
      BY <2>3, <2>4 DEF Elems, PairedIn
    <2>6. ASSUME NEW p \in Objects
          PROVE  /\ Count(q, <<"release_ref", p>>) = Num(s \in StrongSlots /\ target[s] = p)
                 /\ Count(q, <<"release_weak", p>>) = Num(s \in WeakSlots /\ target[s] = p)
      <3>1. \A c : Count(q, c) = Num(r = c)
        BY <2>2, CountShort
      <3>2. r = <<"release_ref", p>> <=> s \in StrongSlots /\ target[s] = p
        BY <2>1 DEF Release
      <3>3. r = <<"release_weak", p>> <=> s \in WeakSlots /\ target[s] = p
        BY <2>1, <1>1, SlotsAssumption DEF Release
      <3> QED BY <3>1, <3>2, <3>3 DEF Num
    <2> QED BY <2>3, <2>4, <2>5, <2>6, <1>3
  <1> QED BY <1>2, <1>3

\* What the statements preserve: the object stays where it is, each slot takes
\* over a target that the program has, and the counts follow.
LEMMA Statement ==
    ASSUME IndInv, todo = <<>>, TypeOK', PairedIn(todo)', UNCHANGED <<object, place, block>>,
           \A c \in Elems(todo') : c[1] # "destroyed" /\ block[c[2]] = "alive",
           \A s \in Slots : target'[s] # Null => block[target'[s]] = "alive",
           \A s \in StrongSlots : target'[s] # Null => object[target'[s]] = "alive",
           \A p \in Objects : block[p] = "alive" =>
              /\ shared_count'[p] = Holders(target', StrongSlots, p)
                                       + Count(todo', <<"release_ref", p>>)
              /\ weak_count'[p] = Holders(target', WeakSlots, p)
                                       + Count(todo', <<"release_weak", p>>) + Num(shared_count[p] > 0)
              /\ shared_count'[p] > 0 <=> shared_count[p] > 0
    PROVE  IndInv'
  <1>1. ASSUME NEW p \in Objects, block'[p] = "alive" PROVE Counted(p)'
    <2>1. Counted(p) /\ block[p] = "alive" /\ object'[p] = object[p]
      BY <1>1 DEF IndInv
    <2>2. Num(shared_count'[p] > 0) = Num(shared_count[p] > 0)
      BY <2>1 DEF Num
    <2> QED BY <2>1, <2>2 DEF Counted
  <1>2. ASSUME NEW p \in Objects PROVE Placed(p)'
    <2>1. Placed(p) /\ Elems(todo) = {}
      BY NoCalls DEF IndInv
    <2> QED BY <2>1 DEF Placed
  <1>3. Referred'
    BY DEF Referred
  <1> QED BY <1>1, <1>2, <1>3 DEF IndInv

\* How the numbers of holders change when s is pointed to x and gives up
\* what it held.
LEMMA AssignCounts ==
    ASSUME TypeOK, NEW s \in Slots, NEW x, NEW p \in Objects
    PROVE  LET g == [target EXCEPT ![s] = x]
           IN /\ Holders(g, StrongSlots, p) + Count(ReleaseOf(s), <<"release_ref", p>>)
                    = Holders(target, StrongSlots, p) + Num(s \in StrongSlots /\ x = p)
              /\ Holders(g, WeakSlots, p) + Count(ReleaseOf(s), <<"release_weak", p>>)
                    = Holders(target, WeakSlots, p) + Num(s \in WeakSlots /\ x = p)
  <1> DEFINE g == [target EXCEPT ![s] = x]
  <1>1. DOMAIN target = Slots /\ StrongSlots \subseteq Slots /\ WeakSlots \subseteq Slots
    BY DEF TypeOK, Slots
  <1>2. /\ Count(ReleaseOf(s), <<"release_ref", p>>) = Num(s \in StrongSlots /\ target[s] = p)
        /\ Count(ReleaseOf(s), <<"release_weak", p>>) = Num(s \in WeakSlots /\ target[s] = p)
    BY OneCall
  <1>3. ASSUME NEW K \in {StrongSlots, WeakSlots}
        PROVE  /\ Holders(g, K, p) \in Nat /\ Holders(target, K, p) \in Nat
               /\ Holders(g, K, p) + Num(s \in K /\ target[s] = p)
                     = Holders(target, K, p) + Num(s \in K /\ x = p)
    <2>1. IsFiniteSet(K) /\ K \in SUBSET Slots
      BY <1>1, FiniteSlots
    <2>2. PICK f : f = target
      OBVIOUS
    <2>3. PICK h : h = [f EXCEPT ![s] = x]
      OBVIOUS
    <2>4. /\ Holders(h, K, p) \in Nat /\ Holders(f, K, p) \in Nat
          /\ Holders(h, K, p) = IF s \in K THEN Holders(f, K, p) - At(f, s, p) + At(h, s, p)
                                ELSE Holders(f, K, p)
      <3>1. h[s] = x /\ \A k \in K : k # s => h[k] = f[k]
        BY <1>1, <2>1, <2>2, <2>3
      <3>2. /\ Holders(h, K, p) \in Nat /\ Holders(f, K, p) \in Nat
            /\ Holders(h, K, p) = IF s \in K THEN Holders(f, K, p) - At(f, s, p) + At(h, s, p)
                                  ELSE Holders(f, K, p)
        BY <3>1, <2>1, HoldersFinite, SlotOfK, OtherSlot
      <3> QED BY <3>1, <3>2
    <2>5. h[s] = x
      BY <1>1, <2>2, <2>3
    <2> QED BY <2>2, <2>3, <2>4, <2>5 DEF At, Num
  <1> HIDE DEF g
  <1>4. /\ Holders(g, StrongSlots, p) + Count(ReleaseOf(s), <<"release_ref", p>>)
              = Holders(target, StrongSlots, p) + Num(s \in StrongSlots /\ x = p)
        /\ Holders(g, WeakSlots, p) + Count(ReleaseOf(s), <<"release_weak", p>>)
              = Holders(target, WeakSlots, p) + Num(s \in WeakSlots /\ x = p)
    BY <1>2, <1>3
  <1> QED BY <1>4 DEF g

\* A slot is pointed to x, counted before; what it held is released next.
LEMMA Assign ==
    ASSUME IndInv, todo = <<>>, NEW s \in Slots, NEW x \in Objects \cup {Null},
           target' = [target EXCEPT ![s] = x], todo' = ReleaseOf(s),
           UNCHANGED <<object, place, block>>,
           x # Null => block[x] = "alive",
           s \in StrongSlots /\ x # Null => object[x] = "alive",
           shared_count' \in [Objects -> Nat], weak_count' \in [Objects -> Nat],
           \A p \in Objects : shared_count'[p] = shared_count[p] + Num(s \in StrongSlots /\ x = p),
           \A p \in Objects : weak_count'[p] = weak_count[p] + Num(s \in WeakSlots /\ x = p)
    PROVE  IndInv'
  <1>1. TypeOK /\ Referred
    BY DEF IndInv
  <1>2. /\ todo' \in Seq(Calls) /\ PairedIn(todo')
        /\ \A c \in Elems(todo') : c[1] # "destroyed" /\ block[c[2]] = "alive"
    BY <1>1, OneCall DEF Referred
  <1>3. TypeOK'
    BY <1>1, <1>2 DEF TypeOK
  <1>4. target \in [Slots -> Objects \cup {Null}] /\ StrongSlots \subseteq Slots
    BY <1>1 DEF TypeOK, Slots
  <1>5. \A k \in Slots : target'[k] = IF k = s THEN x ELSE target[k]
    BY <1>4
  <1>6. /\ \A k \in Slots : target'[k] # Null => block[target'[k]] = "alive"
        /\ \A k \in StrongSlots : target'[k] # Null => object[target'[k]] = "alive"
    BY <1>1, <1>4, <1>5 DEF Referred
  <1>7. ASSUME NEW p \in Objects, block[p] = "alive"
        PROVE  /\ shared_count'[p] = Holders(target', StrongSlots, p)
                                        + Count(todo', <<"release_ref", p>>)
               /\ weak_count'[p] = Holders(target', WeakSlots, p)
                                        + Count(todo', <<"release_weak", p>>) + Num(shared_count[p] > 0)
               /\ shared_count'[p] > 0 <=> shared_count[p] > 0
    <2>1. Counted(p) /\ shared_count[p] \in Nat /\ weak_count[p] \in Nat
      BY <1>1, <1>7 DEF IndInv, TypeOK
    <2>2. \A c : Count(todo, c) = 0
      BY NoCalls
    <2>3. /\ Holders(target', StrongSlots, p) + Count(todo', <<"release_ref", p>>)
                = Holders(target, StrongSlots, p) + Num(s \in StrongSlots /\ x = p)
          /\ Holders(target', WeakSlots, p) + Count(todo', <<"release_weak", p>>)
                = Holders(target, WeakSlots, p) + Num(s \in WeakSlots /\ x = p)
      BY <1>1, AssignCounts, ZenonT(40)
    <2>4. /\ Holders(target, StrongSlots, p) \in Nat /\ Holders(target', StrongSlots, p) \in Nat
          /\ Holders(target, WeakSlots, p) \in Nat /\ Holders(target', WeakSlots, p) \in Nat
          /\ Count(todo', <<"release_ref", p>>) \in Nat /\ Count(todo', <<"release_weak", p>>) \in Nat
      BY <1>2, FiniteSlots, HoldersFinite, CountFinite
    <2>5. s \in StrongSlots /\ x = p => shared_count[p] > 0
      BY <2>1, SlotsAssumption DEF Counted
    <2>6. Num(shared_count[p] > 0) \in Nat /\ Num(s \in WeakSlots /\ x = p) \in Nat
      BY DEF Num
    <2>7. shared_count'[p] = Holders(target', StrongSlots, p) + Count(todo', <<"release_ref", p>>)
      BY <2>1, <2>2, <2>3, <2>4 DEF Counted
    <2>8. weak_count'[p] = Holders(target', WeakSlots, p)
                              + Count(todo', <<"release_weak", p>>) + Num(shared_count[p] > 0)
      BY <2>1, <2>2, <2>3, <2>4, <2>6, SMTT(30) DEF Counted
    <2>9. shared_count'[p] > 0 <=> shared_count[p] > 0
      BY <2>1, <2>5 DEF Num
    <2> QED BY <2>7, <2>8, <2>9
  <1> QED BY <1>2, <1>3, <1>6, <1>7, Statement

\* make_shared and the constructor from a pointer: both counts begin at one.
LEMMA NewBlockStep ==
    ASSUME IndInv, NEW s \in Slots, NEW o \in Objects, NEW where \in {"heap", "block"}, NewBlock(s, o, where)
    PROVE  IndInv'
  <1>1. TypeOK /\ Referred /\ todo = <<>> /\ s \in StrongSlots /\ block[o] = "none"
    BY DEF IndInv, NewBlock, Usable
  <1>2. /\ todo' \in Seq(Calls) /\ PairedIn(todo')
        /\ \A c \in Elems(todo') : c[1] # "destroyed" /\ block[c[2]] = "alive"
    BY <1>1, OneCall DEF Referred, NewBlock
  <1>3. TypeOK'
    <2>1. /\ target' \in [Slots -> Objects \cup {Null}]
          /\ shared_count' \in [Objects -> Nat] /\ weak_count' \in [Objects -> Nat]
      BY <1>1 DEF TypeOK, NewBlock
    <2>2. /\ object' \in [Objects -> {"none", "alive", "dying", "dead", "freed"}]
          /\ place' \in [Objects -> {"none", "heap", "block"}]
          /\ block' \in [Objects -> {"none", "alive", "freed"}]
      BY <1>1 DEF TypeOK, NewBlock
    <2> QED BY <1>2, <2>1, <2>2 DEF TypeOK
  <1>4. target \in [Slots -> Objects \cup {Null}] /\ StrongSlots \subseteq Slots /\ WeakSlots \subseteq Slots
    BY <1>1 DEF TypeOK, Slots
  <1>5. \A k \in Slots : target'[k] = IF k = s THEN o ELSE target[k]
    BY <1>4 DEF NewBlock
  <1>6. /\ object'[o] = "alive" /\ place'[o] = where /\ block'[o] = "alive"
        /\ shared_count'[o] = 1 /\ weak_count'[o] = 1
        /\ \A p \in Objects : p # o =>
              /\ object'[p] = object[p] /\ place'[p] = place[p] /\ block'[p] = block[p]
              /\ shared_count'[p] = shared_count[p] /\ weak_count'[p] = weak_count[p]
    BY <1>1 DEF TypeOK, NewBlock
  <1>7. \A k \in Slots : target[k] # o
    BY <1>1, SlotsAssumption DEF Referred
  <1>8. Holders(target, StrongSlots, o) = 0 /\ Holders(target, WeakSlots, o) = 0
    BY <1>4, <1>7, FS_EmptySet DEF Holders, Held
  <1>9. ASSUME NEW p \in Objects
        PROVE  /\ Holders(target', StrongSlots, p) + Count(todo', <<"release_ref", p>>)
                     = Holders(target, StrongSlots, p) + Num(p = o)
               /\ Holders(target', WeakSlots, p) + Count(todo', <<"release_weak", p>>)
                     = Holders(target, WeakSlots, p)
               /\ Holders(target, WeakSlots, p) \in Nat /\ Holders(target, StrongSlots, p) \in Nat
               /\ Holders(target', WeakSlots, p) \in Nat /\ Holders(target', StrongSlots, p) \in Nat
               /\ Count(todo', <<"release_ref", p>>) \in Nat /\ Count(todo', <<"release_weak", p>>) \in Nat
    <2>1. target' = [target EXCEPT ![s] = o] /\ todo' = ReleaseOf(s)
      BY DEF NewBlock
    <2>2. /\ Holders(target', StrongSlots, p) + Count(todo', <<"release_ref", p>>)
                = Holders(target, StrongSlots, p) + Num(s \in StrongSlots /\ o = p)
          /\ Holders(target', WeakSlots, p) + Count(todo', <<"release_weak", p>>)
                = Holders(target, WeakSlots, p) + Num(s \in WeakSlots /\ o = p)
      BY <2>1, <1>1, AssignCounts
    <2>3. Num(s \in StrongSlots /\ o = p) = Num(p = o) /\ Num(s \in WeakSlots /\ o = p) = 0
      BY <1>1, SlotsAssumption DEF Num
    <2>4. /\ Holders(target, WeakSlots, p) \in Nat /\ Holders(target, StrongSlots, p) \in Nat
          /\ Holders(target', WeakSlots, p) \in Nat /\ Holders(target', StrongSlots, p) \in Nat
          /\ Count(todo', <<"release_ref", p>>) \in Nat /\ Count(todo', <<"release_weak", p>>) \in Nat
      BY <1>2, FiniteSlots, HoldersFinite, CountFinite
    <2> QED BY <2>2, <2>3, <2>4
  <1>10. ASSUME NEW p \in Objects, block'[p] = "alive" PROVE Counted(p)'
    <2>1. CASE p = o
      BY <2>1, <1>6, <1>8, <1>9 DEF Counted, Num
    <2>2. CASE p # o
      <3>1. Counted(p)
        BY <2>2, <1>6, <1>10 DEF IndInv
      <3>2. \A c : Count(todo, c) = 0
        BY <1>1, NoCalls
      <3>3. shared_count[p] = Holders(target, StrongSlots, p)
            /\ weak_count[p] = Holders(target, WeakSlots, p) + Num(shared_count[p] > 0)
        <4>1. Num(shared_count[p] > 0) \in Nat
          BY DEF Num
        <4> QED BY <3>1, <3>2, <1>9, <4>1 DEF Counted
      <3>4. shared_count'[p] = Holders(target', StrongSlots, p) + Count(todo', <<"release_ref", p>>)
        <4>1. Num(p = o) = 0
          BY <2>2 DEF Num
        <4>2. Holders(target', StrongSlots, p) + Count(todo', <<"release_ref", p>>)
                 = Holders(target, StrongSlots, p) + 0
          BY <4>1, <1>9
        <4>3. Holders(target, StrongSlots, p) \in Nat /\ shared_count'[p] = shared_count[p]
          BY <2>2, <1>6, <1>9
        <4> QED BY <4>2, <4>3, <3>3
      <3>5. weak_count'[p] = Holders(target', WeakSlots, p) + Count(todo', <<"release_weak", p>>)
                                + Num(shared_count'[p] > 0)
        BY <3>3, <2>2, <1>6, <1>9
      <3> QED BY <3>1, <3>4, <3>5, <2>2, <1>6 DEF Counted
    <2> QED BY <2>1, <2>2
  <1>11. ASSUME NEW p \in Objects PROVE Placed(p)'
    <2>1. Placed(p) /\ Elems(todo) = {}
      BY <1>1, NoCalls DEF IndInv
    <2> QED BY <2>1, <1>6 DEF Placed
  <1>12. Referred'
    <2>1. \A c \in Elems(todo') : c[1] # "destroyed" /\ block'[c[2]] = "alive"
      <3>1. \A c \in Elems(todo') : c[2] \in Objects
        <4>1. \A c \in Elems(todo') : c \in Calls
          BY <1>2 DEF Elems
        <4> QED BY <4>1 DEF Calls
      <3> QED BY <3>1, <1>2, <1>6
    <2>2. /\ \A k \in Slots : target'[k] # Null => block'[target'[k]] = "alive"
          /\ \A k \in StrongSlots : target'[k] # Null => object'[target'[k]] = "alive"
      BY <1>1, <1>4, <1>5, <1>6 DEF Referred
    <2> QED BY <2>1, <2>2 DEF Referred
  <1> QED BY <1>2, <1>3, <1>10, <1>11, <1>12 DEF IndInv

\* Copying a shared_ptr takes one more strong reference.
LEMMA CopyStrongStep ==
    ASSUME IndInv, NEW from \in Slots, NEW to \in Slots, CopyStrong(from, to)
    PROVE  IndInv'
  <1>1. TypeOK /\ Referred /\ todo = <<>> /\ from \in StrongSlots /\ to \in StrongSlots
    BY DEF IndInv, CopyStrong, Usable
  <1>2. PICK x \in Objects \cup {Null} : x = target[from]
    BY <1>1 DEF TypeOK
  <1>3. \A p \in Objects : shared_count'[p] = shared_count[p] + Num(to \in StrongSlots /\ x = p)
    BY <1>1, <1>2, SlotsAssumption DEF CopyStrong, AddRef, IsEmpty, TypeOK, Num
  <1>4. \A p \in Objects : weak_count'[p] = weak_count[p] + Num(to \in WeakSlots /\ x = p)
    BY <1>1, SlotsAssumption DEF CopyStrong, TypeOK, Num
  <1>5. shared_count' \in [Objects -> Nat] /\ weak_count' \in [Objects -> Nat]
    <2>1. shared_count \in [Objects -> Nat] /\ weak_count \in [Objects -> Nat]
      BY <1>1 DEF TypeOK
    <2>2. weak_count' = weak_count
      BY DEF CopyStrong
    <2>3. shared_count' = shared_count \/ shared_count' = [shared_count EXCEPT ![target[from]] = @ + 1]
      BY DEF CopyStrong, AddRef
    <2>4. shared_count' \in [Objects -> Nat]
      BY <2>1, <2>3
    <2> QED BY <2>1, <2>2, <2>4
  <1>6. /\ target' = [target EXCEPT ![to] = x] /\ todo' = ReleaseOf(to)
        /\ UNCHANGED <<object, place, block>>
    BY <1>2 DEF CopyStrong
  <1>7. x # Null => block[x] = "alive" /\ object[x] = "alive"
    BY <1>1, <1>2 DEF Referred
  <1> QED BY <1>1, <1>3, <1>4, <1>5, <1>6, <1>7, Assign

\* Copying a weak_ptr, or making one of a shared_ptr, takes one more weak reference.
LEMMA CopyWeakStep ==
    ASSUME IndInv, NEW from \in Slots, NEW to \in Slots, CopyWeak(from, to)
    PROVE  IndInv'
  <1>1. TypeOK /\ Referred /\ todo = <<>> /\ to \in WeakSlots /\ to \notin StrongSlots
    BY SlotsAssumption DEF IndInv, CopyWeak, Usable
  <1>2. PICK x \in Objects \cup {Null} : x = target[from]
    BY <1>1 DEF TypeOK
  <1>3. \A p \in Objects : shared_count'[p] = shared_count[p] + Num(to \in StrongSlots /\ x = p)
    BY <1>1 DEF CopyWeak, TypeOK, Num
  <1>4. \A p \in Objects : weak_count'[p] = weak_count[p] + Num(to \in WeakSlots /\ x = p)
    BY <1>1, <1>2, SlotsAssumption DEF CopyWeak, AddWeak, IsEmpty, TypeOK, Num
  <1>5. shared_count' \in [Objects -> Nat] /\ weak_count' \in [Objects -> Nat]
    <2>1. shared_count \in [Objects -> Nat] /\ weak_count \in [Objects -> Nat]
      BY <1>1 DEF TypeOK
    <2>2. shared_count' = shared_count
      BY DEF CopyWeak
    <2>3. weak_count' = weak_count \/ weak_count' = [weak_count EXCEPT ![target[from]] = @ + 1]
      BY DEF CopyWeak, AddWeak
    <2>4. weak_count' \in [Objects -> Nat]
      BY <2>1, <2>3
    <2> QED BY <2>1, <2>2, <2>4
  <1>6. /\ target' = [target EXCEPT ![to] = x] /\ todo' = ReleaseOf(to)
        /\ UNCHANGED <<object, place, block>>
    BY <1>2 DEF CopyWeak
  <1>7. x # Null => block[x] = "alive"
    BY <1>1, <1>2 DEF Referred
  <1> QED BY <1>1, <1>3, <1>4, <1>5, <1>6, <1>7, Assign

\* reset and the destructor of a slot: the slot is empty and its release is in progress.
LEMMA ResetStep ==
    ASSUME IndInv, NEW s \in Slots, Reset(s)
    PROVE  IndInv'
  <1>1. TypeOK /\ todo = <<>>
    BY DEF IndInv, Reset, Usable
  <1>2. /\ \A p \in Objects : shared_count'[p] = shared_count[p] + Num(s \in StrongSlots /\ Null = p)
        /\ \A p \in Objects : weak_count'[p] = weak_count[p] + Num(s \in WeakSlots /\ Null = p)
    BY <1>1, SlotsAssumption DEF Reset, TypeOK, Num
  <1>3. /\ target' = [target EXCEPT ![s] = Null] /\ todo' = ReleaseOf(s)
        /\ UNCHANGED <<object, place, block>>
        /\ shared_count' \in [Objects -> Nat] /\ weak_count' \in [Objects -> Nat]
    BY <1>1 DEF Reset, TypeOK
  <1> QED BY <1>1, <1>2, <1>3, Assign, ZenonT(60)

\* lock() takes a strong reference of a living object, or leaves the slot empty.
LEMMA LockStep ==
    ASSUME IndInv, NEW w \in Slots, NEW s \in Slots, Lock(w, s)
    PROVE  IndInv'
  <1>1. /\ TypeOK /\ Referred /\ todo = <<>>
        /\ w \in WeakSlots /\ s \in StrongSlots /\ s \notin WeakSlots
    BY SlotsAssumption DEF IndInv, Lock, Usable
  <1>2. PICK x \in Objects \cup {Null} : x = IF Expired(w) THEN Null ELSE target[w]
    BY <1>1 DEF TypeOK
  <1>3. target[w] \in Objects \cup {Null} /\ \A p \in Objects : shared_count[p] \in Nat
    BY <1>1 DEF TypeOK
  <1>4. x # Null => x = target[w] /\ shared_count[x] > 0
    BY <1>2, <1>3, SlotsAssumption DEF Expired, UseCount, IsEmpty
  <1>5. \A p \in Objects : shared_count'[p] = shared_count[p] + Num(s \in StrongSlots /\ x = p)
    BY <1>1, <1>2, <1>3, SlotsAssumption DEF Lock, AddRef, Expired, UseCount, IsEmpty, TypeOK, Num
  <1>6. \A p \in Objects : weak_count'[p] = weak_count[p] + Num(s \in WeakSlots /\ x = p)
    BY <1>1 DEF Lock, TypeOK, Num
  <1>7. shared_count' \in [Objects -> Nat] /\ weak_count' \in [Objects -> Nat]
    <2>1. shared_count \in [Objects -> Nat] /\ weak_count \in [Objects -> Nat]
      BY <1>1 DEF TypeOK
    <2>2. weak_count' = weak_count
      BY DEF Lock
    <2>3. shared_count' = shared_count \/ shared_count' = [shared_count EXCEPT ![target[w]] = @ + 1]
      BY DEF Lock, AddRef
    <2>4. shared_count' \in [Objects -> Nat]
      BY <2>1, <2>3
    <2> QED BY <2>1, <2>2, <2>4
  <1>8. /\ target' = [target EXCEPT ![s] = x] /\ todo' = ReleaseOf(s)
        /\ UNCHANGED <<object, place, block>>
    BY <1>2 DEF Lock
  <1>9. x # Null => block[x] = "alive" /\ object[x] = "alive"
    <2> SUFFICES ASSUME x # Null PROVE block[x] = "alive" /\ object[x] = "alive"
      OBVIOUS
    <2>1. x \in Objects /\ x = target[w] /\ shared_count[x] > 0
      BY <1>2, <1>4
    <2>2. block[x] = "alive"
      BY <1>1, <2>1 DEF Referred
    <2>3. Counted(x)
      BY <2>1, <2>2 DEF IndInv
    <2> QED BY <2>1, <2>2, <2>3 DEF Counted
  <1> QED BY <1>1, <1>5, <1>6, <1>7, <1>8, <1>9, Assign

\* Two slots, both of K or neither, that are made to point elsewhere.
LEMMA TwoSlots ==
    ASSUME NEW f, NEW g, NEW K, IsFiniteSet(K), NEW a, NEW b, a # b, a \in K <=> b \in K, NEW p,
           \A k \in K : k # a /\ k # b => g[k] = f[k]
    PROVE  /\ Holders(g, K, p) \in Nat /\ Holders(f, K, p) \in Nat
           /\ Holders(g, K, p) = IF a \in K THEN Holders(f, K, p) - At(f, a, p) - At(f, b, p)
                                                    + At(g, a, p) + At(g, b, p)
                                 ELSE Holders(f, K, p)
  <1> DEFINE e == [k \in K |-> IF k = a THEN g[a] ELSE f[k]]
  <1>1. PICK h : \A k \in K : h[k] = IF k = a THEN g[a] ELSE f[k]
    <2>1. \A k \in K : e[k] = IF k = a THEN g[a] ELSE f[k]
      OBVIOUS
    <2> QED BY <2>1
  <1>2. \A k \in K : k # a => h[k] = f[k]
    BY <1>1
  <1>3. \A k \in K : k # b => g[k] = h[k]
    BY <1>1
  <1>4. a \in K => h[a] = g[a] /\ h[b] = f[b]
    BY <1>1
  <1> HIDE DEF e
  <1>5. /\ Holders(h, K, p) \in Nat /\ Holders(f, K, p) \in Nat
        /\ Holders(h, K, p) = IF a \in K THEN Holders(f, K, p) - At(f, a, p) + At(h, a, p)
                              ELSE Holders(f, K, p)
    <2>1. Holders(h, K, p) \in Nat /\ Holders(f, K, p) \in Nat
      BY HoldersFinite
    <2>2. a \in K => Holders(h, K, p) = Holders(f, K, p) - At(f, a, p) + At(h, a, p)
      BY <1>2, SlotOfK
    <2>3. a \notin K => Holders(h, K, p) = Holders(f, K, p)
      BY <1>2, OtherSlot
    <2> QED BY <2>1, <2>2, <2>3
  <1>6. /\ Holders(g, K, p) \in Nat
        /\ Holders(g, K, p) = IF b \in K THEN Holders(h, K, p) - At(h, b, p) + At(g, b, p)
                              ELSE Holders(h, K, p)
    BY <1>3, HoldersFinite, SlotOfK, OtherSlot
  <1>7. At(f, a, p) \in Nat /\ At(f, b, p) \in Nat /\ At(g, a, p) \in Nat /\ At(g, b, p) \in Nat
    BY DEF At, Num
  <1>9. a \in K => At(h, a, p) = At(g, a, p) /\ At(h, b, p) = At(f, b, p)
    BY <1>4 DEF At
  <1>8. a \in K => Holders(g, K, p) = Holders(f, K, p) - At(f, a, p) - At(f, b, p)
                                         + At(g, a, p) + At(g, b, p)
    BY <1>4, <1>5, <1>6, <1>7, <1>9
  <1> QED BY <1>5, <1>6, <1>8

\* Two slots exchange what they hold, or the first one hands it over and the
\* second one gives up its own.
LEMMA Exchange ==
    ASSUME IndInv, todo = <<>>, NEW from \in Slots, NEW to \in Slots, Alike(from, to), from # to,
           NEW x \in {Null, target[to]},
           target' = [target EXCEPT ![from] = x, ![to] = target[from]],
           todo' = IF x = target[to] THEN <<>> ELSE ReleaseOf(to),
           UNCHANGED <<shared_count, weak_count, object, place, block>>
    PROVE  IndInv'
  <1>1. TypeOK /\ Referred
    BY DEF IndInv
  <1>2. /\ todo' \in Seq(Calls) /\ PairedIn(todo')
        /\ \A c \in Elems(todo') : c[1] # "destroyed" /\ block[c[2]] = "alive"
    BY <1>1, OneCall, NoCalls DEF Referred
  <1>3. target \in [Slots -> Objects \cup {Null}] /\ StrongSlots \subseteq Slots
    BY <1>1 DEF TypeOK, Slots
  <1>4. x \in Objects \cup {Null} /\ target[from] \in Objects \cup {Null} /\ target[to] \in Objects \cup {Null}
    BY <1>3
  <1>5. \A k \in Slots : target'[k] = IF k = to THEN target[from] ELSE IF k = from THEN x ELSE target[k]
    BY <1>3
  <1>6. TypeOK'
    <2>1. target' \in [Slots -> Objects \cup {Null}]
      BY <1>3, <1>4
    <2> QED BY <1>1, <1>2, <2>1 DEF TypeOK
  <1>7. /\ \A k \in Slots : target'[k] # Null => block[target'[k]] = "alive"
        /\ \A k \in StrongSlots : target'[k] # Null => object[target'[k]] = "alive"
    <2>1. from \in StrongSlots <=> to \in StrongSlots
      BY SlotsAssumption DEF Alike
    <2> QED BY <1>1, <1>3, <1>5, <2>1 DEF Referred
  <1>8. ASSUME NEW p \in Objects
        PROVE  /\ Count(todo', <<"release_ref", p>>)
                     = IF x # target[to] /\ to \in StrongSlots /\ target[to] = p THEN 1 ELSE 0
               /\ Count(todo', <<"release_weak", p>>)
                     = IF x # target[to] /\ to \in WeakSlots /\ target[to] = p THEN 1 ELSE 0
    <2>1. CASE x = target[to]
      BY <2>1, NoCalls
    <2>2. CASE x # target[to]
      <3>1. /\ Count(ReleaseOf(to), <<"release_ref", p>>) = Num(to \in StrongSlots /\ target[to] = p)
            /\ Count(ReleaseOf(to), <<"release_weak", p>>) = Num(to \in WeakSlots /\ target[to] = p)
        BY <1>1, OneCall
      <3> QED BY <2>2, <3>1 DEF Num
    <2> QED BY <2>1, <2>2
  <1>9. ASSUME NEW p \in Objects, NEW K \in {StrongSlots, WeakSlots}
        PROVE  /\ Holders(target, K, p) \in Nat
               /\ Holders(target', K, p) = Holders(target, K, p)
                     - (IF x # target[to] /\ to \in K /\ target[to] = p THEN 1 ELSE 0)
    <2>1. PICK f, g : f = target /\ g = target'
      OBVIOUS
    <2>2. /\ from \in Slots /\ to \in Slots /\ g[from] = x /\ g[to] = f[from]
          /\ \A k \in K : k # from /\ k # to => g[k] = f[k]
      BY <1>3, <1>5, <2>1 DEF Slots
    <2>3. IsFiniteSet(K) /\ (from \in K <=> to \in K)
      BY FiniteSlots, SlotsAssumption DEF Alike
    <2>4. /\ Holders(g, K, p) \in Nat /\ Holders(f, K, p) \in Nat
          /\ Holders(g, K, p) = IF from \in K THEN Holders(f, K, p) - At(f, from, p) - At(f, to, p)
                                                      + At(g, from, p) + At(g, to, p)
                                ELSE Holders(f, K, p)
      BY <2>2, <2>3, TwoSlots
    <2>5. x = f[to] \/ x = Null
      BY <2>1
    <2>6. Null # p
      BY SlotsAssumption
    <2> QED BY <2>1, <2>2, <2>3, <2>4, <2>5, <2>6 DEF At, Num
  <1>10. ASSUME NEW p \in Objects, block[p] = "alive"
         PROVE  /\ shared_count'[p] = Holders(target', StrongSlots, p)
                                         + Count(todo', <<"release_ref", p>>)
                /\ weak_count'[p] = Holders(target', WeakSlots, p)
                                         + Count(todo', <<"release_weak", p>>) + Num(shared_count[p] > 0)
                /\ shared_count'[p] > 0 <=> shared_count[p] > 0
    <2>1. Counted(p)
      BY <1>10 DEF IndInv
    <2>2. \A c : Count(todo, c) = 0
      BY NoCalls
    <2>3. /\ Holders(target', StrongSlots, p) + Count(todo', <<"release_ref", p>>)
                = Holders(target, StrongSlots, p)
          /\ Holders(target', WeakSlots, p) + Count(todo', <<"release_weak", p>>)
                = Holders(target, WeakSlots, p)
          /\ Holders(target, StrongSlots, p) \in Nat /\ Holders(target, WeakSlots, p) \in Nat
      <3>1. /\ Holders(target, StrongSlots, p) \in Nat
            /\ Holders(target', StrongSlots, p) = Holders(target, StrongSlots, p)
                  - (IF x # target[to] /\ to \in StrongSlots /\ target[to] = p THEN 1 ELSE 0)
        BY <1>9
      <3>2. /\ Holders(target, WeakSlots, p) \in Nat
            /\ Holders(target', WeakSlots, p) = Holders(target, WeakSlots, p)
                  - (IF x # target[to] /\ to \in WeakSlots /\ target[to] = p THEN 1 ELSE 0)
        BY <1>9
      <3> QED BY <1>8, <3>1, <3>2
    <2>4. Num(shared_count[p] > 0) \in Nat
      BY DEF Num
    <2> QED BY <2>1, <2>2, <2>3, <2>4 DEF Counted
  <1> QED BY <1>2, <1>6, <1>7, <1>10, Statement

\* Nothing changes.
LEMMA Stutter ==
    ASSUME IndInv, UNCHANGED vars
    PROVE  IndInv'
  <1>1. TypeOK' /\ PairedIn(todo)' /\ Referred'
    BY DEF IndInv, TypeOK, Referred, PairedIn, Elems, vars
  <1>2. ASSUME NEW p \in Objects PROVE (block'[p] = "alive" => Counted(p)') /\ Placed(p)'
    <2>1. (block[p] = "alive" => Counted(p)) /\ Placed(p)
      BY DEF IndInv
    <2> QED BY <2>1 DEF Counted, Placed, Elems, vars, Holders, Held, Count, PlacesOf
  <1> QED BY <1>1, <1>2 DEF IndInv

\* A move gives the slot's reference away, and counts stay as they are.
LEMMA MoveStep ==
    ASSUME IndInv, NEW from \in Slots, NEW to \in Slots, Move(from, to)
    PROVE  IndInv'
  <1>1. /\ TypeOK /\ todo = <<>> /\ Alike(from, to)
        /\ target' = [target EXCEPT ![from] = Null, ![to] = target[from]]
        /\ todo' = IF from = to THEN <<>> ELSE ReleaseOf(to)
        /\ UNCHANGED <<shared_count, weak_count, object, place, block>>
    BY DEF IndInv, Move, Usable
  <1>2. CASE from = to
    <2>1. target' = target
      BY <1>1, <1>2 DEF TypeOK
    <2> QED BY <1>1, <1>2, <2>1, Stutter DEF vars
  <1>3. CASE from # to
    <2>1. Null = target[to] => ReleaseOf(to) = <<>>
      BY DEF ReleaseOf
    <2>2. todo' = IF Null = target[to] THEN <<>> ELSE ReleaseOf(to)
      BY <1>1, <1>3, <2>1
    <2> QED BY <1>1, <1>3, <2>2, Exchange
  <1> QED BY <1>2, <1>3

\* Swapped slots have exchanged their references.
LEMMA SwapStep ==
    ASSUME IndInv, NEW from \in Slots, NEW to \in Slots, Swap(from, to)
    PROVE  IndInv'
  <1>1. /\ TypeOK /\ todo = <<>> /\ Alike(from, to)
        /\ target' = [target EXCEPT ![from] = target[to], ![to] = target[from]]
        /\ todo' = <<>>
        /\ UNCHANGED <<shared_count, weak_count, object, place, block>>
    BY DEF IndInv, Swap, Usable
  <1>2. CASE from = to
    <2>1. target' = target
      BY <1>1, <1>2 DEF TypeOK
    <2> QED BY <1>1, <2>1, Stutter DEF vars
  <1>3. CASE from # to
    <2>1. PICK x : x = target[to]
      OBVIOUS
    <2> QED BY <1>1, <1>3, <2>1, Exchange
  <1> QED BY <1>2, <1>3

-----------------------------------------------------------------------------
\* A finite set in a sequence: every element once.
LEMMA Listed ==
    ASSUME NEW M, IsFiniteSet(M)
    PROVE  \E n \in Nat : \E q \in [1 .. n -> M] :
              /\ q = SetToSeq(M) /\ n = Cardinality(M)
              /\ \A i, j \in 1 .. n : q[i] = q[j] => i = j
              /\ \A m \in M : \E i \in 1 .. n : q[i] = m
  <1>1. PICK n \in Nat : n = Cardinality(M)
    BY FS_CardinalityType
  <1>2. \E f \in [1 .. n -> M] : IsInjective(f)
    <2>1. PICK f \in Bijection(1 .. n, M) : TRUE
      BY <1>1, FS_CardinalityType DEF ExistsBijection
    <2> QED BY <2>1 DEF Bijection, Injection
  <1>3. PICK q \in [1 .. n -> M] : q = SetToSeq(M) /\ IsInjective(q)
    BY <1>1, <1>2 DEF SetToSeq
  <1>4. q \in Injection(1 .. n, M)
    BY <1>3 DEF Injection
  <1>5. IsFiniteSet(1 .. n) /\ Cardinality(1 .. n) = n
    BY FS_Interval
  <1>6. q \in Surjection(1 .. n, M)
    BY <1>1, <1>4, <1>5, FS_Injection
  <1>7. \A i, j \in 1 .. n : q[i] = q[j] => i = j
    BY <1>3 DEF IsInjective
  <1>8. \A m \in M : \E i \in 1 .. n : q[i] = m
    BY <1>6 DEF Surjection
  <1> QED BY <1>1, <1>3, <1>7, <1>8

\* s has c exactly where q has an element of Hs.
Marks(s, c, q, Hs) == \A i \in 1 .. Len(s) : s[i] = c <=> q[i] \in Hs

\* What a list of calls, one for each element of M, counts.
LEMMA ListCounts ==
    ASSUME NEW n \in Nat, NEW M, NEW q, q \in Bijection(1 .. n, M),
           NEW s, Len(s) = n, NEW c, NEW Hs, Hs \subseteq M, Marks(s, c, q, Hs)
    PROVE  Count(s, c) = Cardinality(Hs)
  <1>0. /\ q \in [1 .. n -> M]
        /\ \A i, j \in 1 .. n : q[i] = q[j] => i = j
        /\ \A m \in M : \E i \in 1 .. n : q[i] = m
        /\ \A i \in 1 .. n : s[i] = c <=> q[i] \in Hs
    BY DEF Bijection, Injection, Surjection, IsInjective, Marks
  <1> DEFINE P == PlacesOf(s, c)
             f == [i \in P |-> q[i]]
  <1>1. P = {i \in 1 .. n : q[i] \in Hs}
    BY <1>0 DEF PlacesOf
  <1> HIDE DEF P
  <1>2. f \in [P -> Hs]
    BY <1>0, <1>1
  <1>3. \A i, j \in P : f[i] = f[j] => i = j
    BY <1>0, <1>1
  <1>4. \A m \in Hs : \E i \in P : f[i] = m
    BY <1>0, <1>1
  <1> HIDE DEF f
  <1>5. f \in Bijection(P, Hs)
    BY <1>2, <1>3, <1>4 DEF Bijection, Injection, Surjection, IsInjective
  <1>6. IsFiniteSet(P)
    <2>1. IsFiniteSet(1 .. n) /\ P \in SUBSET (1 .. n)
      BY <1>1, FS_Interval
    <2> QED BY <2>1, FS_Subset
  <1>7. Cardinality(Hs) = Cardinality(P)
    BY <1>5, <1>6, FS_Bijection DEF ExistsBijection
  <1> QED BY <1>7 DEF Count, P

\* The releases of the members of an object: one for each slot that holds
\* something.
LEMMA MembersReleased ==
    ASSUME TypeOK, NEW o \in Objects
    PROVE  /\ MemberReleases(o) \in Seq(Calls)
           /\ PairedIn(MemberReleases(o))
           /\ \A c \in Elems(MemberReleases(o)) :
                 c[1] # "destroyed" /\ \E m \in Slots : target[m] # Null /\ c[2] = target[m]
           /\ \A p \in Objects :
                 /\ Count(MemberReleases(o), <<"release_ref", p>>)
                       = Holders(target, StrongSlots \cap MembersOf[o], p)
                 /\ Count(MemberReleases(o), <<"release_weak", p>>)
                       = Holders(target, WeakSlots \cap MembersOf[o], p)
  <1> DEFINE M == {m \in MembersOf[o] : target[m] # Null}
  <1>1. M \in SUBSET Slots /\ IsFiniteSet(M)
    <2>1. M \in SUBSET Slots
      BY MembersAssumption
    <2> QED BY <2>1, FiniteAssumption, FS_Subset
  <1>2. \A m \in M : m \in MembersOf[o] /\ target[m] # Null /\ target[m] \in Objects
    BY <1>1 DEF TypeOK
  <1>3. \A m \in MembersOf[o] : target[m] # Null => m \in M
    OBVIOUS
  <1>4. MemberReleases(o) = [i \in 1 .. Len(SetToSeq(M)) |-> Release(SetToSeq(M)[i])]
    BY DEF MemberReleases
  <1> HIDE DEF M
  <1>5. PICK n \in Nat : \E q \in [1 .. n -> M] :
           /\ q = SetToSeq(M)
           /\ \A i, j \in 1 .. n : q[i] = q[j] => i = j
           /\ \A m \in M : \E i \in 1 .. n : q[i] = m
    BY <1>1, Listed
  <1>6. PICK q \in [1 .. n -> M] :
           /\ q = SetToSeq(M)
           /\ \A i, j \in 1 .. n : q[i] = q[j] => i = j
           /\ \A m \in M : \E i \in 1 .. n : q[i] = m
    BY <1>5
  <1>7. Len(q) = n
    BY <1>6, LenProperties
  <1>8. \A m \in M : Release(m) \in Calls /\ Release(m)[2] = target[m] /\ Release(m)[1] # "destroyed"
    BY <1>2 DEF Release, Calls
  <1>9. PICK r : r = MemberReleases(o) /\ r = [i \in 1 .. n |-> Release(q[i])]
    BY <1>4, <1>6, <1>7
  <1>10. r \in Seq(Calls) /\ Len(r) = n /\ \A i \in 1 .. n : q[i] \in M /\ r[i] = Release(q[i])
    <2>1. r \in [1 .. n -> Calls]
      BY <1>8, <1>9
    <2>2. r \in Seq(Calls) /\ Len(r) = n
      BY <2>1, SeqDef, LenProperties
    <2> QED BY <1>9, <2>2
  <1>11. \A c \in Elems(r) : c[1] # "destroyed" /\ \E m \in Slots : target[m] # Null /\ c[2] = target[m]
    <2> SUFFICES ASSUME NEW c \in Elems(r)
                 PROVE  c[1] # "destroyed" /\ \E m \in Slots : target[m] # Null /\ c[2] = target[m]
      OBVIOUS
    <2>1. PICK i \in 1 .. n : c = r[i]
      BY <1>10 DEF Elems
    <2> QED BY <2>1, <1>1, <1>2, <1>8, <1>10
  <1>12. PairedIn(r)
    BY <1>8, <1>10 DEF PairedIn
  <1>13. ASSUME NEW p \in Objects
         PROVE  /\ Count(r, <<"release_ref", p>>) = Holders(target, StrongSlots \cap MembersOf[o], p)
                /\ Count(r, <<"release_weak", p>>) = Holders(target, WeakSlots \cap MembersOf[o], p)
    <2>1. PICK S, W : /\ S = Held(target, StrongSlots \cap MembersOf[o], p)
                      /\ W = Held(target, WeakSlots \cap MembersOf[o], p)
      OBVIOUS
    <2>2. S \in SUBSET M /\ W \in SUBSET M
      BY <2>1, <1>3, SlotsAssumption DEF Held
    <2>3. \A m \in M : /\ m \in S <=> m \in StrongSlots /\ target[m] = p
                       /\ m \in W <=> m \notin StrongSlots /\ target[m] = p
      BY <2>1, <1>1, <1>2, SlotsAssumption DEF Held, Slots
    <2>4. \A m \in M : /\ Release(m) = <<"release_ref", p>> <=> m \in S
                       /\ Release(m) = <<"release_weak", p>> <=> m \in W
      BY <2>3 DEF Release
    <2>5. PICK c : c = <<"release_ref", p>>
      OBVIOUS
    <2>6. PICK d : d = <<"release_weak", p>>
      OBVIOUS
    <2>7. /\ \A i \in 1 .. n : r[i] = c <=> q[i] \in S
          /\ \A i \in 1 .. n : r[i] = d <=> q[i] \in W
      BY <1>10, <2>4, <2>5, <2>6
    <2>10. Marks(r, c, q, S) /\ Marks(r, d, q, W)
      BY <2>7, <1>10 DEF Marks
    <2>11. q \in Bijection(1 .. n, M)
      BY <1>6 DEF Bijection, Injection, Surjection, IsInjective
    <2>12. S \subseteq M /\ W \subseteq M /\ Len(r) = n
      BY <2>2, <1>10
    <2>8. Count(r, c) = Cardinality(S)
      BY <2>10, <2>11, <2>12, ListCounts
    <2>9. Count(r, d) = Cardinality(W)
      BY <2>10, <2>11, <2>12, ListCounts
    <2> QED BY <2>1, <2>5, <2>6, <2>8, <2>9 DEF Holders
  <1> QED BY <1>9, <1>10, <1>11, <1>12, <1>13

\* Slots that are emptied, those of N.
LEMMA Emptied ==
    ASSUME NEW f, NEW g, NEW K, IsFiniteSet(K), NEW N, NEW p, p # Null,
           \A k \in K : g[k] = IF k \in N THEN Null ELSE f[k]
    PROVE  /\ Holders(f, K, p) = Holders(g, K, p) + Holders(f, K \cap N, p)
           /\ Holders(f, K, p) \in Nat /\ Holders(g, K, p) \in Nat /\ Holders(f, K \cap N, p) \in Nat
  <1> DEFINE A == Held(g, K, p)
             B == Held(f, K \cap N, p)
  <1>1. Held(f, K, p) = A \cup B /\ A \cap B = {}
    BY DEF Held
  <1>2. IsFiniteSet(K \cap N)
    BY FS_Subset
  <1>3. IsFiniteSet(A) /\ IsFiniteSet(B) /\ Cardinality(A) \in Nat /\ Cardinality(B) \in Nat
    BY <1>2, HoldersFinite DEF Holders
  <1> HIDE DEF A, B
  <1>4. Cardinality(A \cap B) = 0
    BY <1>1, FS_EmptySet
  <1>5. Cardinality(A \cup B) = Cardinality(A) + Cardinality(B) - Cardinality(A \cap B)
    BY <1>3, FS_Union
  <1>6. Cardinality(A \cup B) = Cardinality(A) + Cardinality(B) /\ Cardinality(A \cup B) \in Nat
    BY <1>3, <1>4, <1>5
  <1> QED BY <1>1, <1>3, <1>6 DEF Holders, A, B

-----------------------------------------------------------------------------
\* The innermost call and the rest of the stack.
LEMMA Popped ==
    ASSUME IndInv, todo # <<>>
    PROVE  \E o \in Objects : \E h \in Calls : \E t \in Seq(Calls) :
              /\ h = Head(todo) /\ t = Tail(todo) /\ o = h[2] /\ block[o] = "alive"
              /\ \A c : Count(todo, c) = Num(h = c) + Count(t, c)
              /\ \A c : Count(t, c) \in Nat /\ (Count(t, c) = 0 <=> c \notin Elems(t))
              /\ Elems(todo) = {h} \cup Elems(t) /\ PairedIn(t)
              /\ \A c \in Elems(t) : c \in Calls
  <1>1. todo \in Seq(Calls) /\ PairedIn(todo) /\ Referred
    BY DEF IndInv, TypeOK
  <1>2. PICK h \in Calls, t \in Seq(Calls) : h = Head(todo) /\ t = Tail(todo)
    BY <1>1, HeadTailProperties
  <1>3. Elems(todo) = {h} \cup Elems(t) /\ PairedIn(t)
    BY <1>1, <1>2, ElemsTail
  <1>4. \A c : Count(todo, c) = Num(h = c) + Count(t, c)
    BY <1>1, <1>2, CountHead
  <1>5. \A c : Count(t, c) \in Nat /\ (Count(t, c) = 0 <=> c \notin Elems(t))
    BY CountFinite, ElemsCounted
  <1>6. \A c \in Elems(t) : c \in Calls
    BY LenProperties DEF Elems
  <1>7. h[2] \in Objects
    BY DEF Calls
  <1>8. block[h[2]] = "alive"
    BY <1>1, <1>3 DEF Referred
  <1>9. PICK o \in Objects : o = h[2] /\ block[o] = "alive"
    BY <1>7, <1>8
  <1> WITNESS o \in Objects
  <1> WITNESS h \in Calls
  <1> WITNESS t \in Seq(Calls)
  <1> QED BY <1>2, <1>3, <1>4, <1>5, <1>6, <1>9

\* The last strong reference destroys the object, and its members' releases begin.
LEMMA ObjectDestroyedStep ==
    ASSUME IndInv, ObjectDestroyed
    PROVE  IndInv'
  <1>1. PICK o \in Objects, h \in Calls, t \in Seq(Calls) :
              /\ h = Head(todo) /\ t = Tail(todo) /\ o = h[2] /\ block[o] = "alive"
              /\ \A c : Count(todo, c) = Num(h = c) + Count(t, c)
              /\ \A c : Count(t, c) \in Nat /\ (Count(t, c) = 0 <=> c \notin Elems(t))
              /\ Elems(todo) = {h} \cup Elems(t) /\ PairedIn(t)
              /\ \A c \in Elems(t) : c \in Calls
    BY Popped DEF ObjectDestroyed
  <1>2. PICK fate \in {"freed", "dead"} : fate = IF place[o] = "heap" THEN "freed" ELSE "dead"
    OBVIOUS
  <1>3. /\ h[1] = "destroyed" /\ todo' = t /\ object' = [object EXCEPT ![o] = fate]
        /\ UNCHANGED <<target, shared_count, weak_count, place, block>>
    BY <1>1, <1>2 DEF ObjectDestroyed
  <1>4. TypeOK /\ Referred /\ h \in Elems(todo) /\ (\A p \in Objects : Placed(p))
    BY <1>1 DEF IndInv
  <1>5. h = <<"destroyed", o>>
    BY <1>1, <1>3 DEF Calls
  <1>6. TypeOK'
    BY <1>1, <1>3, <1>4 DEF TypeOK
  <1>7. object'[o] = fate /\ \A p \in Objects : p # o => object'[p] = object[p]
    BY <1>3, <1>4 DEF TypeOK
  <1>8. object[o] \in {"dying", "dead", "freed"}
    BY <1>1, <1>3, <1>4 DEF Referred
  <1>9. ASSUME NEW p \in Objects, block'[p] = "alive" PROVE Counted(p)'
    <2>1. Counted(p)
      BY <1>3, <1>9 DEF IndInv
    <2>2. /\ Count(todo, <<"release_ref", p>>) = Count(t, <<"release_ref", p>>)
          /\ Count(todo, <<"release_weak", p>>) = Count(t, <<"release_weak", p>>)
      <3>1. /\ Num(h = <<"release_ref", p>>) = 0 /\ Num(h = <<"release_weak", p>>) = 0
            /\ Count(t, <<"release_ref", p>>) \in Nat /\ Count(t, <<"release_weak", p>>) \in Nat
        BY <1>1, <1>5 DEF Num
      <3> QED BY <1>1, <3>1
    <2>3. object'[p] = "alive" <=> object[p] = "alive"
      BY <1>7, <1>8
    <2> QED BY <2>1, <2>2, <2>3, <1>3 DEF Counted
  <1>10. ASSUME NEW p \in Objects PROVE Placed(p)'
    <2>1. CASE p = o
      BY <2>1, <1>1, <1>2, <1>3, <1>4, <1>7 DEF Placed
    <2>2. CASE p # o
      <3>1. <<"destroyed", p>> \in Elems(todo) => <<"destroyed", p>> \in Elems(t)
        BY <2>2, <1>1, <1>5
      <3> QED BY <2>2, <3>1, <1>3, <1>4, <1>7 DEF Placed
    <2> QED BY <2>1, <2>2
  <1>11. Referred'
    <2>1. \A c \in Elems(t) : c \in Elems(todo) /\ c[2] \in Objects
      BY <1>1 DEF Calls
    <2>2. /\ \A c \in Elems(t) : block'[c[2]] = "alive"
          /\ \A c \in Elems(t) : c[1] = "destroyed" => object'[c[2]] \in {"dying", "dead", "freed"}
      BY <2>1, <1>3, <1>4, <1>7 DEF Referred
    <2>3. \A s \in StrongSlots : target[s] # Null => target[s] \in Objects /\ target[s] # o
      BY <1>4, <1>8 DEF Referred, TypeOK, Slots
    <2>4. /\ \A s \in Slots : target'[s] # Null => block'[target'[s]] = "alive"
          /\ \A s \in StrongSlots : target'[s] # Null => object'[target'[s]] = "alive"
      BY <2>3, <1>3, <1>4, <1>7 DEF Referred
    <2> QED BY <2>2, <2>4, <1>3 DEF Referred
  <1> QED BY <1>1, <1>3, <1>6, <1>9, <1>10, <1>11 DEF IndInv

\* A weak release, and the last one frees the block.
LEMMA ReleaseWeakStep ==
    ASSUME IndInv, ReleaseWeak
    PROVE  IndInv'
  <1>1. PICK o \in Objects, h \in Calls, t \in Seq(Calls) :
              /\ h = Head(todo) /\ t = Tail(todo) /\ o = h[2] /\ block[o] = "alive"
              /\ \A c : Count(todo, c) = Num(h = c) + Count(t, c)
              /\ \A c : Count(t, c) \in Nat /\ (Count(t, c) = 0 <=> c \notin Elems(t))
              /\ Elems(todo) = {h} \cup Elems(t) /\ PairedIn(t)
              /\ \A c \in Elems(t) : c \in Calls
    BY Popped DEF ReleaseWeak
  <1>2. /\ h[1] = "release_weak" /\ todo' = t
        /\ weak_count' = [weak_count EXCEPT ![o] = @ - 1]
        /\ UNCHANGED <<target, shared_count, place>>
        /\ IF weak_count[o] - 1 = 0
           THEN /\ block' = [block EXCEPT ![o] = "freed"]
                /\ object' = IF place[o] = "block" THEN [object EXCEPT ![o] = "freed"] ELSE object
           ELSE UNCHANGED <<block, object>>
    BY <1>1 DEF ReleaseWeak
  <1>3. TypeOK /\ Referred /\ h \in Elems(todo) /\ (\A p \in Objects : Placed(p)) /\ Counted(o)
    BY <1>1 DEF IndInv
  <1>4. h = <<"release_weak", o>>
    BY <1>1, <1>2 DEF Calls
  <1>5. \A p \in Objects :
           /\ Count(todo, <<"release_ref", p>>) = Count(t, <<"release_ref", p>>)
           /\ Count(todo, <<"release_weak", p>>) = (IF p = o THEN 1 ELSE 0) + Count(t, <<"release_weak", p>>)
    <2> SUFFICES ASSUME NEW p \in Objects
                 PROVE  /\ Count(todo, <<"release_ref", p>>) = Count(t, <<"release_ref", p>>)
                        /\ Count(todo, <<"release_weak", p>>)
                              = (IF p = o THEN 1 ELSE 0) + Count(t, <<"release_weak", p>>)
      OBVIOUS
    <2>1. /\ Num(h = <<"release_ref", p>>) = 0 /\ Num(h = <<"release_weak", p>>) = IF p = o THEN 1 ELSE 0
          /\ Count(t, <<"release_ref", p>>) \in Nat /\ Count(t, <<"release_weak", p>>) \in Nat
      BY <1>1, <1>4 DEF Num
    <2>2. /\ Count(todo, <<"release_ref", p>>) = Num(h = <<"release_ref", p>>) + Count(t, <<"release_ref", p>>)
          /\ Count(todo, <<"release_weak", p>>)
                = Num(h = <<"release_weak", p>>) + Count(t, <<"release_weak", p>>)
      BY <1>1
    <2> QED BY <2>1, <2>2
  <1>6. \A p \in Objects : /\ Holders(target, StrongSlots, p) \in Nat /\ Holders(target, WeakSlots, p) \in Nat
                           /\ Holders(target, StrongSlots, p) = 0 => \A s \in StrongSlots : target[s] # p
                           /\ Holders(target, WeakSlots, p) = 0 => \A s \in WeakSlots : target[s] # p
    BY FiniteSlots, HoldersFinite DEF Held
  <1>7. \A p \in Objects : shared_count[p] \in Nat /\ weak_count[p] \in Nat
    BY <1>3 DEF TypeOK
  <1>8. weak_count[o] >= 1
    <2>1. Num(shared_count[o] > 0) \in Nat
      BY DEF Num
    <2> QED BY <2>1, <1>1, <1>3, <1>5, <1>6, <1>7 DEF Counted
  <1>9. TypeOK'
    <2>1. weak_count' \in [Objects -> Nat]
      <3>1. weak_count[o] - 1 \in Nat
        BY <1>7, <1>8
      <3> QED BY <3>1, <1>2, <1>3 DEF TypeOK
    <2>2. block' \in [Objects -> {"none", "alive", "freed"}]
          /\ object' \in [Objects -> {"none", "alive", "dying", "dead", "freed"}]
      BY <1>2, <1>3 DEF TypeOK
    <2> QED BY <2>1, <2>2, <1>1, <1>2, <1>3 DEF TypeOK
  <1>10. weak_count'[o] = weak_count[o] - 1 /\ \A p \in Objects : p # o => weak_count'[p] = weak_count[p]
    BY <1>2, <1>3 DEF TypeOK
  <1>11. ASSUME NEW p \in Objects, block[p] = "alive", object'[p] = object[p] PROVE Counted(p)'
    <2>1. Counted(p)
      BY <1>11 DEF IndInv
    <2>2. Num(shared_count[p] > 0) \in Nat /\ Count(t, <<"release_weak", p>>) \in Nat
      BY <1>1 DEF Num
    <2>3. weak_count'[p] = Holders(target, WeakSlots, p) + Count(t, <<"release_weak", p>>)
                              + Num(shared_count[p] > 0)
      <3>1. weak_count[p] = Holders(target, WeakSlots, p) + Count(todo, <<"release_weak", p>>)
                               + Num(shared_count[p] > 0)
        BY <2>1 DEF Counted
      <3>2. Count(todo, <<"release_weak", p>>) = (IF p = o THEN 1 ELSE 0) + Count(t, <<"release_weak", p>>)
        BY <1>5
      <3>3. weak_count'[p] = weak_count[p] - (IF p = o THEN 1 ELSE 0)
        BY <1>7, <1>10
      <3> QED BY <2>2, <3>1, <3>2, <3>3, <1>6
    <2> QED BY <2>1, <2>3, <1>2, <1>5, <1>11 DEF Counted
  <1>12. \A p \in Objects : <<"destroyed", p>> \in Elems(todo) => <<"destroyed", p>> \in Elems(t)
    BY <1>1, <1>4
  <1>13. \A c \in Elems(t) : c \in Elems(todo) /\ c[2] \in Objects
    BY <1>1 DEF Calls
  <1>14. CASE weak_count[o] - 1 # 0
    <2>1. block' = block /\ object' = object
      BY <1>2, <1>14
    <2>2. ASSUME NEW p \in Objects PROVE Placed(p)'
      BY <2>1, <1>2, <1>3, <1>12 DEF Placed
    <2>3. Referred'
      BY <2>1, <1>2, <1>3, <1>13 DEF Referred
    <2> QED BY <2>1, <2>2, <2>3, <1>1, <1>2, <1>9, <1>11 DEF IndInv
  <1>15. CASE weak_count[o] - 1 = 0
    <2>1. /\ block' = [block EXCEPT ![o] = "freed"]
          /\ object' = IF place[o] = "block" THEN [object EXCEPT ![o] = "freed"] ELSE object
      BY <1>2, <1>15
    <2>2. /\ block'[o] = "freed" /\ object'[o] = IF place[o] = "block" THEN "freed" ELSE object[o]
          /\ \A p \in Objects : p # o => block'[p] = block[p] /\ object'[p] = object[p]
      BY <2>1, <1>3 DEF TypeOK
    \* It was the last reference: no slot, and no other call, refers to o.
    <2>3. /\ Holders(target, WeakSlots, o) = 0 /\ Count(t, <<"release_weak", o>>) = 0
          /\ shared_count[o] = 0
      <3>1. Num(shared_count[o] > 0) \in Nat /\ (Num(shared_count[o] > 0) = 0 => ~(shared_count[o] > 0))
        BY DEF Num
      <3>2. weak_count[o] = Holders(target, WeakSlots, o) + Count(todo, <<"release_weak", o>>)
                               + Num(shared_count[o] > 0)
        BY <1>3 DEF Counted
      <3>3. Count(todo, <<"release_weak", o>>) = 1 + Count(t, <<"release_weak", o>>)
        BY <1>5
      <3>4. Count(t, <<"release_weak", o>>) \in Nat /\ Holders(target, WeakSlots, o) \in Nat
            /\ weak_count[o] = 1 /\ shared_count[o] \in Nat
        BY <1>1, <1>6, <1>7, <1>15
      <3> QED BY <3>1, <3>2, <3>3, <3>4
    <2>4. Holders(target, StrongSlots, o) = 0 /\ Count(t, <<"release_ref", o>>) = 0 /\ object[o] # "alive"
      BY <2>3, <1>1, <1>3, <1>5, <1>6 DEF Counted
    <2>5. \A s \in Slots : target[s] # o
      BY <2>3, <2>4, <1>6 DEF Slots
    <2>6. <<"release_weak", o>> \notin Elems(t) /\ <<"release_ref", o>> \notin Elems(t)
      BY <2>3, <2>4, <1>1
    <2>7. <<"destroyed", o>> \notin Elems(t)
      <3> SUFFICES ASSUME <<"destroyed", o>> \in Elems(t) PROVE FALSE
        OBVIOUS
      <3>1. PICK i \in 1 .. Len(t) : t[i] = <<"destroyed", o>>
        BY DEF Elems
      <3>2. t[i][1] = "destroyed" /\ t[i][2] = o
        BY <3>1
      <3>3. i < Len(t) /\ t[i + 1] = <<"release_weak", o>>
        BY <3>2, <1>1 DEF PairedIn
      <3>4. i + 1 \in 1 .. Len(t)
        BY <3>3, LenProperties
      <3> QED BY <3>3, <3>4, <2>6 DEF Elems
    <2>8. \A c \in Elems(t) : c[2] \in Objects /\ c[2] # o
      <3> SUFFICES ASSUME NEW c \in Elems(t) PROVE c[2] \in Objects /\ c[2] # o
        OBVIOUS
      <3>1. PICK which \in {"release_ref", "release_weak", "destroyed"}, p \in Objects : c = <<which, p>>
        <4>1. c \in Calls
          BY <1>1
        <4> QED BY <4>1 DEF Calls
      <3> QED BY <3>1, <2>6, <2>7
    <2>9. ASSUME NEW p \in Objects PROVE Placed(p)'
      <3>1. CASE p = o
        <4>1. Placed(o) /\ place[o] \in {"heap", "block"}
          BY <1>1, <1>3 DEF Placed
        <4>2. CASE place[o] = "block"
          BY <4>2, <3>1, <2>2 DEF Placed
        <4>3. CASE place[o] = "heap"
          <5>1. object[o] # "dead" /\ object[o] # "dying"
            BY <4>1, <4>3, <2>7, <1>1, <1>12 DEF Placed
          <5> QED BY <5>1, <4>3, <3>1, <2>2, <2>4 DEF Placed
        <4> QED BY <4>1, <4>2, <4>3
      <3>2. CASE p # o
        <4>1. Placed(p)
          BY <1>3
        <4> QED BY <4>1, <3>2, <2>2, <1>2, <1>12 DEF Placed
      <3> QED BY <3>1, <3>2
    <2>10. Referred'
      <3>1. /\ \A c \in Elems(t) : block'[c[2]] = "alive"
            /\ \A c \in Elems(t) : c[1] = "destroyed" => object'[c[2]] \in {"dying", "dead", "freed"}
        BY <2>2, <2>8, <1>3, <1>13 DEF Referred
      <3>2. \A s \in Slots : target[s] # Null => target[s] \in Objects /\ target[s] # o
        BY <2>5, <1>3 DEF TypeOK
      <3>3. /\ \A s \in Slots : target[s] # Null => block'[target[s]] = "alive"
            /\ \A s \in StrongSlots : target[s] # Null => object'[target[s]] = "alive"
        BY <3>2, <2>2, <1>3 DEF Referred, Slots
      <3> QED BY <3>1, <3>3, <1>2 DEF Referred
    <2>11. ASSUME NEW p \in Objects, block'[p] = "alive" PROVE Counted(p)'
      BY <2>2, <2>11, <1>11
    <2> QED BY <2>9, <2>10, <2>11, <1>1, <1>2, <1>9 DEF IndInv
  <1> QED BY <1>14, <1>15

\* A strong release, and the last one goes on to destroy the object.
LEMMA ReleaseRefStep ==
    ASSUME IndInv, ReleaseRef
    PROVE  IndInv'
  <1>1. PICK o \in Objects, h \in Calls, t \in Seq(Calls) :
              /\ h = Head(todo) /\ t = Tail(todo) /\ o = h[2] /\ block[o] = "alive"
              /\ \A c : Count(todo, c) = Num(h = c) + Count(t, c)
              /\ \A c : Count(t, c) \in Nat /\ (Count(t, c) = 0 <=> c \notin Elems(t))
              /\ Elems(todo) = {h} \cup Elems(t) /\ PairedIn(t)
              /\ \A c \in Elems(t) : c \in Calls
    BY Popped DEF ReleaseRef
  <1>2. /\ h[1] = "release_ref"
        /\ shared_count' = [shared_count EXCEPT ![o] = @ - 1]
        /\ UNCHANGED <<weak_count, place, block>>
        /\ IF shared_count[o] - 1 = 0
           THEN /\ object' = [object EXCEPT ![o] = "dying"]
                /\ target' = [s \in Slots |-> IF s \in MembersOf[o] THEN Null ELSE target[s]]
                /\ todo' = Teardown(o) \o t
           ELSE todo' = t /\ object' = object /\ target' = target
    BY <1>1 DEF ReleaseRef
  <1>3. TypeOK /\ Referred /\ h \in Elems(todo) /\ (\A p \in Objects : Placed(p)) /\ Counted(o)
    BY <1>1 DEF IndInv
  <1>4. h = <<"release_ref", o>>
    BY <1>1, <1>2 DEF Calls
  <1>5. \A p \in Objects :
           /\ Count(todo, <<"release_ref", p>>) = (IF p = o THEN 1 ELSE 0) + Count(t, <<"release_ref", p>>)
           /\ Count(todo, <<"release_weak", p>>) = Count(t, <<"release_weak", p>>)
           /\ Count(t, <<"release_ref", p>>) \in Nat /\ Count(t, <<"release_weak", p>>) \in Nat
    <2> SUFFICES ASSUME NEW p \in Objects
                 PROVE  /\ Count(todo, <<"release_ref", p>>)
                              = (IF p = o THEN 1 ELSE 0) + Count(t, <<"release_ref", p>>)
                        /\ Count(todo, <<"release_weak", p>>) = Count(t, <<"release_weak", p>>)
                        /\ Count(t, <<"release_ref", p>>) \in Nat /\ Count(t, <<"release_weak", p>>) \in Nat
      OBVIOUS
    <2>1. /\ Num(h = <<"release_weak", p>>) = 0 /\ Num(h = <<"release_ref", p>>) = IF p = o THEN 1 ELSE 0
          /\ Count(t, <<"release_ref", p>>) \in Nat /\ Count(t, <<"release_weak", p>>) \in Nat
      BY <1>1, <1>4 DEF Num
    <2>2. /\ Count(todo, <<"release_ref", p>>) = Num(h = <<"release_ref", p>>) + Count(t, <<"release_ref", p>>)
          /\ Count(todo, <<"release_weak", p>>)
                = Num(h = <<"release_weak", p>>) + Count(t, <<"release_weak", p>>)
      BY <1>1
    <2> QED BY <2>1, <2>2
  <1>6. \A p \in Objects : /\ Holders(target, StrongSlots, p) \in Nat /\ Holders(target, WeakSlots, p) \in Nat
                           /\ Holders(target, StrongSlots, p) = 0 => \A s \in StrongSlots : target[s] # p
    BY FiniteSlots, HoldersFinite DEF Held
  <1>7. \A p \in Objects : shared_count[p] \in Nat /\ weak_count[p] \in Nat
    BY <1>3 DEF TypeOK
  <1>8. /\ shared_count[o] = Holders(target, StrongSlots, o) + 1 + Count(t, <<"release_ref", o>>)
        /\ shared_count[o] >= 1
    <2>1. shared_count[o] = Holders(target, StrongSlots, o) + Count(todo, <<"release_ref", o>>)
      BY <1>3 DEF Counted
    <2>2. Count(todo, <<"release_ref", o>>) = 1 + Count(t, <<"release_ref", o>>)
      BY <1>5
    <2>3. Count(t, <<"release_ref", o>>) \in Nat /\ Holders(target, StrongSlots, o) \in Nat
      BY <1>1, <1>6
    <2> QED BY <2>1, <2>2, <2>3
  <1>9. /\ shared_count'[o] = shared_count[o] - 1
        /\ \A p \in Objects : p # o => shared_count'[p] = shared_count[p]
        /\ shared_count' \in [Objects -> Nat]
    <2>1. shared_count[o] - 1 \in Nat
      BY <1>7, <1>8
    <2> QED BY <2>1, <1>2, <1>3 DEF TypeOK
  <1>10. \A p \in Objects : <<"destroyed", p>> \in Elems(todo) => <<"destroyed", p>> \in Elems(t)
    BY <1>1, <1>4
  <1>11. \A c \in Elems(t) : c \in Elems(todo) /\ c[2] \in Objects
    BY <1>1 DEF Calls
  <1>12. CASE shared_count[o] - 1 # 0
    <2>1. todo' = t /\ object' = object /\ target' = target /\ block' = block /\ place' = place
      BY <1>2, <1>12
    <2>2. TypeOK'
      BY <2>1, <1>1, <1>2, <1>3, <1>9 DEF TypeOK
    <2>3. ASSUME NEW p \in Objects PROVE Placed(p)'
      BY <2>1, <1>3, <1>10 DEF Placed
    <2>4. Referred'
      BY <2>1, <1>3, <1>11 DEF Referred
    <2>5. ASSUME NEW p \in Objects, block'[p] = "alive" PROVE Counted(p)'
      <3>1. Counted(p)
        BY <2>1, <2>5 DEF IndInv
      <3>2. shared_count'[p] > 0 <=> shared_count[p] > 0
        BY <1>7, <1>8, <1>9, <1>12
      <3>3. Num(shared_count'[p] > 0) = Num(shared_count[p] > 0)
        BY <3>2 DEF Num
      <3>4. shared_count'[p] = Holders(target, StrongSlots, p) + Count(t, <<"release_ref", p>>)
        <4>1. CASE p = o
          <5>1. Count(t, <<"release_ref", o>>) \in Nat /\ Holders(target, StrongSlots, o) \in Nat
            BY <1>1, <1>6
          <5>2. shared_count'[o] = Holders(target, StrongSlots, o) + Count(t, <<"release_ref", o>>)
            BY <5>1, <1>8, <1>9
          <5> QED BY <4>1, <5>2
        <4>2. CASE p # o
          <5>1. shared_count[p] = Holders(target, StrongSlots, p) + Count(todo, <<"release_ref", p>>)
            BY <3>1 DEF Counted
          <5>2. Count(todo, <<"release_ref", p>>) = 0 + Count(t, <<"release_ref", p>>)
            BY <4>2, <1>5
          <5>3. Count(t, <<"release_ref", p>>) \in Nat
            BY <1>1
          <5> QED BY <5>1, <5>2, <5>3, <4>2, <1>9
        <4> QED BY <4>1, <4>2
      <3>5. weak_count'[p] = Holders(target, WeakSlots, p) + Count(t, <<"release_weak", p>>)
                                + Num(shared_count'[p] > 0)
        <4>1. weak_count[p] = Holders(target, WeakSlots, p) + Count(todo, <<"release_weak", p>>)
                                 + Num(shared_count[p] > 0)
          BY <3>1 DEF Counted
        <4> QED BY <4>1, <3>3, <1>2, <1>5
      <3> QED BY <3>1, <3>2, <3>4, <3>5, <2>1 DEF Counted
    <2> QED BY <2>1, <2>2, <2>3, <2>4, <2>5, <1>1 DEF IndInv
  <1>13. CASE shared_count[o] - 1 = 0
    <2>1. /\ object' = [object EXCEPT ![o] = "dying"] /\ block' = block /\ place' = place
          /\ target' = [s \in Slots |-> IF s \in MembersOf[o] THEN Null ELSE target[s]]
          /\ todo' = Teardown(o) \o t
      BY <1>2, <1>13
    <2>2. object'[o] = "dying" /\ \A p \in Objects : p # o => object'[p] = object[p]
      BY <2>1, <1>3 DEF TypeOK
    <2>3. \A s \in StrongSlots : target[s] # o
      <3>1. Count(t, <<"release_ref", o>>) \in Nat /\ Holders(target, StrongSlots, o) \in Nat
        BY <1>1, <1>6
      <3>2. Holders(target, StrongSlots, o) = 0
        BY <3>1, <1>8, <1>13
      <3> QED BY <3>2, <1>6
    \* The three parts of the new stack.
    <2>4. PICK m \in Seq(Calls) :
             /\ m = MemberReleases(o) /\ PairedIn(m)
             /\ \A c \in Elems(m) : c[1] # "destroyed" /\ \E s \in Slots : target[s] # Null /\ c[2] = target[s]
             /\ \A p \in Objects :
                   /\ Count(m, <<"release_ref", p>>) = Holders(target, StrongSlots \cap MembersOf[o], p)
                   /\ Count(m, <<"release_weak", p>>) = Holders(target, WeakSlots \cap MembersOf[o], p)
      BY <1>3, MembersReleased
    <2>5. PICK d \in Calls : d = <<"destroyed", o>>
      BY DEF Calls
    <2>6. PICK w \in Calls : w = <<"release_weak", o>>
      BY DEF Calls
    <2>7. PICK e \in Seq(Calls) : e = <<d, w>> /\ Len(e) = 2 /\ e[1] = d /\ e[2] = w
      <3>1. <<d, w>> \in Seq(Calls) /\ Len(<<d, w>>) = 2
        OBVIOUS
      <3>2. <<d, w>>[1] = d /\ <<d, w>>[2] = w
        OBVIOUS
      <3> QED BY <3>1, <3>2
    <2>8. Elems(e) = {d, w} /\ PairedIn(e)
      <3>1. PairedIn(e)
        BY <2>5, <2>6, <2>7 DEF PairedIn
      <3>2. Elems(e) = {d, w}
        BY <2>7 DEF Elems
      <3> QED BY <3>1, <3>2
    <2>9. \A c : Count(e, c) = Num(d = c) + Num(w = c)
      <3> SUFFICES ASSUME NEW c PROVE Count(e, c) = Num(d = c) + Num(w = c)
        OBVIOUS
      <3>1. Head(e) = d /\ Tail(e) = <<w>> /\ e # <<>>
        BY <2>7
      <3>2. Count(e, c) = Num(Head(e) = c) + Count(Tail(e), c)
        BY <3>1, CountHead
      <3>3. Count(<<w>>, c) = Num(w = c)
        BY CountShort
      <3> QED BY <3>1, <3>2, <3>3
    <2>10. PICK u \in Seq(Calls) :
              /\ u = m \o e /\ Elems(u) = Elems(m) \cup Elems(e) /\ PairedIn(u)
              /\ \A c : Count(u, c) = Count(m, c) + Count(e, c)
      <3>1. PICK u \in Seq(Calls) : u = m \o e
        BY CountConcat
      <3>2. \A c : Count(m \o e, c) = Count(m, c) + Count(e, c)
        BY CountConcat
      <3>3. Elems(m \o e) = Elems(m) \cup Elems(e) /\ PairedIn(m \o e)
        BY <2>4, <2>8, ElemsConcat
      <3> QED BY <3>1, <3>2, <3>3
    <2>11. todo' = u \o t
      BY <2>1, <2>4, <2>5, <2>6, <2>7, <2>10 DEF Teardown
    <2>12. PICK v \in Seq(Calls) :
              /\ v = todo' /\ Elems(v) = Elems(m) \cup {d, w} \cup Elems(t) /\ PairedIn(v)
              /\ \A c : Count(v, c) = Count(m, c) + Count(e, c) + Count(t, c)
      <3>1. /\ u \o t \in Seq(Calls) /\ PairedIn(u \o t)
            /\ Elems(u \o t) = Elems(u) \cup Elems(t)
            /\ \A c : Count(u \o t, c) = Count(u, c) + Count(t, c)
        <4>1. u \o t \in Seq(Calls)
          BY CountConcat
        <4>2. \A c : Count(u \o t, c) = Count(u, c) + Count(t, c)
          BY CountConcat
        <4>3. Elems(u \o t) = Elems(u) \cup Elems(t) /\ PairedIn(u \o t)
          <5>1. PairedIn(u) /\ PairedIn(t)
            BY <2>10, <1>1
          <5>2. Elems(u \o t) = Elems(u) \cup Elems(t)
            BY ElemsConcat
          <5>3. PairedIn(u \o t)
            BY <5>1, ElemsConcat
          <5> QED BY <5>2, <5>3
        <4> QED BY <4>1, <4>2, <4>3
      <3> QED BY <3>1, <2>8, <2>10, <2>11
    <2>13. TypeOK'
      <3>1. target' \in [Slots -> Objects \cup {Null}]
        BY <2>1, <1>3 DEF TypeOK
      <3>2. object' \in [Objects -> {"none", "alive", "dying", "dead", "freed"}]
        BY <2>1, <1>3 DEF TypeOK
      <3> QED BY <3>1, <3>2, <2>1, <2>12, <1>2, <1>3, <1>9 DEF TypeOK
    <2>14. ASSUME NEW p \in Objects, block'[p] = "alive" PROVE Counted(p)'
      <3>1. Counted(p) /\ p # Null
        BY <2>1, <2>14, SlotsAssumption DEF IndInv
      <3>2. PICK f, g : f = target /\ g = target'
        OBVIOUS
      <3>3. \A s \in Slots : g[s] = IF s \in MembersOf[o] THEN Null ELSE f[s]
        BY <3>2, <2>1
      <3>4. /\ Holders(f, StrongSlots, p) = Holders(g, StrongSlots, p)
                                               + Holders(f, StrongSlots \cap MembersOf[o], p)
            /\ Holders(f, StrongSlots, p) \in Nat /\ Holders(g, StrongSlots, p) \in Nat
            /\ Holders(f, StrongSlots \cap MembersOf[o], p) \in Nat
        <4>1. \A s \in StrongSlots : g[s] = IF s \in MembersOf[o] THEN Null ELSE f[s]
          BY <3>3 DEF Slots
        <4> QED BY <4>1, <3>1, FiniteSlots, Emptied
      <3>5. /\ Holders(f, WeakSlots, p) = Holders(g, WeakSlots, p)
                                             + Holders(f, WeakSlots \cap MembersOf[o], p)
            /\ Holders(f, WeakSlots, p) \in Nat /\ Holders(g, WeakSlots, p) \in Nat
            /\ Holders(f, WeakSlots \cap MembersOf[o], p) \in Nat
        <4>1. \A s \in WeakSlots : g[s] = IF s \in MembersOf[o] THEN Null ELSE f[s]
          BY <3>3 DEF Slots
        <4> QED BY <4>1, <3>1, FiniteSlots, Emptied
      <3>6. Count(e, <<"release_ref", p>>) = 0 /\ Count(e, <<"release_weak", p>>) = IF p = o THEN 1 ELSE 0
        <4>1. /\ Num(d = <<"release_ref", p>>) = 0 /\ Num(w = <<"release_ref", p>>) = 0
              /\ Num(d = <<"release_weak", p>>) = 0
              /\ Num(w = <<"release_weak", p>>) = IF p = o THEN 1 ELSE 0
          BY <2>5, <2>6 DEF Num
        <4>2. /\ Count(e, <<"release_ref", p>>) = Num(d = <<"release_ref", p>>) + Num(w = <<"release_ref", p>>)
              /\ Count(e, <<"release_weak", p>>)
                    = Num(d = <<"release_weak", p>>) + Num(w = <<"release_weak", p>>)
          BY <2>9
        <4> QED BY <4>1, <4>2
      <3>7. /\ Count(v, <<"release_ref", p>>) = Holders(f, StrongSlots \cap MembersOf[o], p)
                                                   + Count(t, <<"release_ref", p>>)
            /\ Count(v, <<"release_weak", p>>) = Holders(f, WeakSlots \cap MembersOf[o], p)
                                                    + (IF p = o THEN 1 ELSE 0) + Count(t, <<"release_weak", p>>)
        <4>1. /\ Count(v, <<"release_ref", p>>) = Count(m, <<"release_ref", p>>)
                    + Count(e, <<"release_ref", p>>) + Count(t, <<"release_ref", p>>)
              /\ Count(v, <<"release_weak", p>>) = Count(m, <<"release_weak", p>>)
                    + Count(e, <<"release_weak", p>>) + Count(t, <<"release_weak", p>>)
          BY <2>12
        <4>2. /\ Count(m, <<"release_ref", p>>) = Holders(f, StrongSlots \cap MembersOf[o], p)
              /\ Count(m, <<"release_weak", p>>) = Holders(f, WeakSlots \cap MembersOf[o], p)
          BY <2>4, <3>2
        <4>3. Count(t, <<"release_ref", p>>) \in Nat /\ Count(t, <<"release_weak", p>>) \in Nat
          BY <1>1
        <4> QED BY <4>1, <4>2, <4>3, <3>4, <3>5, <3>6
      <3>8. /\ shared_count[p] = Holders(f, StrongSlots, p) + (IF p = o THEN 1 ELSE 0)
                                    + Count(t, <<"release_ref", p>>)
            /\ weak_count[p] = Holders(f, WeakSlots, p) + Count(t, <<"release_weak", p>>)
                                  + Num(shared_count[p] > 0)
        <4>1. /\ shared_count[p] = Holders(f, StrongSlots, p) + Count(todo, <<"release_ref", p>>)
              /\ weak_count[p] = Holders(f, WeakSlots, p) + Count(todo, <<"release_weak", p>>)
                                    + Num(shared_count[p] > 0)
          BY <3>1, <3>2 DEF Counted
        <4> QED BY <4>1, <1>5, <3>4
      <3>9. shared_count'[p] = Holders(g, StrongSlots, p) + Count(v, <<"release_ref", p>>)
        BY <3>4, <3>7, <3>8, <1>5, <1>8, <1>9, SMTT(30)
      <3>10. Num(shared_count'[p] > 0) + (IF p = o THEN 1 ELSE 0) = Num(shared_count[p] > 0)
             /\ Num(shared_count'[p] > 0) \in Nat
        BY <1>9, <1>13 DEF Num
      <3>11. weak_count'[p] = Holders(g, WeakSlots, p) + Count(v, <<"release_weak", p>>)
                                 + Num(shared_count'[p] > 0)
        <4>1. Count(t, <<"release_weak", p>>) \in Nat /\ weak_count'[p] = weak_count[p]
          BY <1>1, <1>2
        <4>2. PICK k \in {0, 1} : k = IF p = o THEN 1 ELSE 0
          OBVIOUS
        <4>3. Num(shared_count[p] > 0) = Num(shared_count'[p] > 0) + k
          BY <3>10, <4>2
        <4>4. Count(v, <<"release_weak", p>>) = Holders(f, WeakSlots \cap MembersOf[o], p)
                                                   + k + Count(t, <<"release_weak", p>>)
          BY <3>7, <4>2
        <4>5. weak_count[p] = Holders(f, WeakSlots, p) + Count(t, <<"release_weak", p>>)
                                 + Num(shared_count[p] > 0)
          BY <3>8
        <4> QED BY <4>1, <4>3, <4>4, <4>5, <3>5, <3>10
      <3>12. object'[p] = "alive" <=> shared_count'[p] > 0
        <4>1. CASE p = o
          BY <4>1, <2>2, <1>9, <1>13
        <4>2. CASE p # o
          BY <4>2, <3>1, <2>2, <1>9 DEF Counted
        <4> QED BY <4>1, <4>2
      <3> QED BY <3>2, <3>9, <3>11, <3>12, <2>12 DEF Counted
    <2>15. ASSUME NEW p \in Objects PROVE Placed(p)'
      <3>1. CASE p = o
        BY <3>1, <2>1, <2>2, <2>5, <2>12, <1>1, <1>3 DEF Placed
      <3>2. CASE p # o
        BY <3>2, <2>1, <2>2, <2>12, <1>3, <1>10 DEF Placed
      <3> QED BY <3>1, <3>2
    <2>16. Referred'
      <3>1. ASSUME NEW c \in Elems(v)
            PROVE  block[c[2]] = "alive" /\ (c[1] = "destroyed" => object'[c[2]] \in {"dying", "dead", "freed"})
        <4>1. CASE c \in Elems(m)
          BY <4>1, <2>4, <1>3 DEF Referred
        <4>2. CASE c = d
          BY <4>2, <2>2, <2>5, <1>1
        <4>3. CASE c = w
          BY <4>3, <2>6, <1>1
        <4>4. CASE c \in Elems(t)
          <5>1. c \in Elems(todo) /\ c[2] \in Objects
            BY <4>4, <1>11
          <5> QED BY <5>1, <2>2, <1>3 DEF Referred
        <4> QED BY <4>1, <4>2, <4>3, <4>4, <2>12
      <3>2. \A s \in Slots : target'[s] # Null => target'[s] = target[s] /\ target[s] \in Objects
        BY <2>1, <1>3 DEF TypeOK
      <3>3. \A s \in Slots : target'[s] # Null => block'[target'[s]] = "alive"
        BY <3>2, <2>1, <1>3 DEF Referred
      <3>4. \A s \in StrongSlots : target'[s] # Null => object'[target'[s]] = "alive"
        BY <3>2, <2>2, <2>3, <1>3 DEF Referred, Slots
      <3> QED BY <3>1, <3>3, <3>4, <2>1, <2>12 DEF Referred
    <2> QED BY <2>12, <2>13, <2>14, <2>15, <2>16 DEF IndInv
  <1> QED BY <1>12, <1>13

-----------------------------------------------------------------------------
\* The initial state satisfies the invariant.
LEMMA IndInvInit == Init => IndInv
  <1> SUFFICES ASSUME Init PROVE IndInv
    OBVIOUS
  <1>1. todo = <<>> /\ Elems(todo) = {} /\ PairedIn(todo) /\ todo \in Seq(Calls)
    BY NoCalls DEF Init
  <1>2. TypeOK
    BY <1>1 DEF Init, TypeOK
  <1>3. \A p \in Objects : Placed(p) /\ block[p] # "alive"
    BY DEF Init, Placed
  <1>4. Referred
    BY <1>1 DEF Init, Referred, Slots
  <1> QED BY <1>1, <1>2, <1>3, <1>4 DEF IndInv

\* Each step keeps the invariant.
LEMMA IndInvNext == IndInv /\ [Next]_vars => IndInv'
  <1> SUFFICES ASSUME IndInv, [Next]_vars PROVE IndInv'
    OBVIOUS
  <1>1. ASSUME NEW s \in Slots, Reset(s) PROVE IndInv'
    BY <1>1, ResetStep
  <1>2. ASSUME NEW s \in Slots, NEW o \in Objects, Make(s, o) PROVE IndInv'
    <2>1. NewBlock(s, o, "heap")
      BY <1>2 DEF Make
    <2> QED BY <2>1, NewBlockStep
  <1>3. ASSUME NEW s \in Slots, NEW o \in Objects, MakeShared(s, o) PROVE IndInv'
    <2>1. NewBlock(s, o, "block")
      BY <1>3 DEF MakeShared
    <2> QED BY <2>1, NewBlockStep
  <1>4. ASSUME NEW from \in Slots, NEW to \in Slots, CopyStrong(from, to) PROVE IndInv'
    BY <1>4, CopyStrongStep
  <1>5. ASSUME NEW from \in Slots, NEW to \in Slots, CopyWeak(from, to) PROVE IndInv'
    BY <1>5, CopyWeakStep
  <1>6. ASSUME NEW from \in Slots, NEW to \in Slots, Lock(from, to) PROVE IndInv'
    BY <1>6, LockStep
  <1>7. ASSUME NEW from \in Slots, NEW to \in Slots, Move(from, to) PROVE IndInv'
    BY <1>7, MoveStep
  <1>8. ASSUME NEW from \in Slots, NEW to \in Slots, Swap(from, to) PROVE IndInv'
    BY <1>8, SwapStep
  <1>9. CASE ReleaseRef
    BY <1>9, ReleaseRefStep
  <1>10. CASE ObjectDestroyed
    BY <1>10, ObjectDestroyedStep
  <1>11. CASE ReleaseWeak
    BY <1>11, ReleaseWeakStep
  <1>12. CASE UNCHANGED vars
    BY <1>12, Stutter
  <1> QED BY <1>1, <1>2, <1>3, <1>4, <1>5, <1>6, <1>7, <1>8, <1>9, <1>10, <1>11, <1>12 DEF Next

\* The invariant holds in every reachable state.
LEMMA Inductive == Spec => []IndInv
  BY IndInvInit, IndInvNext, PTL DEF Spec

\* Every variable has its type: no count of a control block falls below 0.
THEOREM TypeCorrect == Spec => []TypeOK
  <1>1. IndInv => TypeOK
    BY DEF IndInv
  <1> QED BY <1>1, Inductive, PTL

\* use_count() and the weak count are exact at every ++ and --, in the middle
\* of a cascade of destructions too, and between two statements unique() holds
\* for the only owner and for no other.
THEOREM CountsCorrect == Spec => []CountsMatch
  <1>1. IndInv => CountsMatch
    <2> SUFFICES ASSUME IndInv, NEW o \in Objects, block[o] = "alive"
                 PROVE  /\ shared_count[o] = Cardinality(Strong(o)) + Pending("release_ref", o)
                        /\ weak_count[o] = Cardinality(Weak(o)) + Pending("release_weak", o)
                                             + (IF shared_count[o] > 0 THEN 1 ELSE 0)
                        /\ object[o] = "alive" <=> shared_count[o] > 0
                        /\ todo = <<>> => \A s \in Strong(o) : Unique(s) <=> Strong(o) = {s}
      BY DEF CountsMatch
    <2>1. Counted(o)
      BY DEF IndInv
    <2>2. /\ Cardinality(Strong(o)) = Holders(target, StrongSlots, o)
          /\ Cardinality(Weak(o)) = Holders(target, WeakSlots, o)
      BY DEF Strong, Weak, Holders, Held
    <2>3. \A call : Pending(call, o) = Count(todo, <<call, o>>)
      BY DEF Pending, Count, PlacesOf
    <2>4. shared_count[o] = Cardinality(Strong(o)) + Pending("release_ref", o)
      BY <2>1, <2>2, <2>3 DEF Counted
    <2>5. weak_count[o] = Cardinality(Weak(o)) + Pending("release_weak", o)
                             + (IF shared_count[o] > 0 THEN 1 ELSE 0)
      BY <2>1, <2>2, <2>3 DEF Counted, Num
    <2>6. ASSUME todo = <<>>, NEW s \in Strong(o) PROVE Unique(s) <=> Strong(o) = {s}
      <3>1. target[s] = o /\ o # Null
        BY <2>6, SlotsAssumption DEF Strong
      <3>2. UseCount(s) = shared_count[o]
        BY <3>1 DEF UseCount, IsEmpty
      <3>3. IsFiniteSet(Strong(o)) /\ Cardinality(Strong(o)) \in Nat
        BY FiniteSlots, HoldersFinite DEF Strong, Held, Holders
      <3>4. shared_count[o] = Cardinality(Strong(o))
        <4>1. Pending("release_ref", o) = 0
          BY <2>3, <2>6, NoCalls
        <4> QED BY <4>1, <2>4, <3>3
      <3>5. Cardinality(Strong(o)) = 1 <=> \E x : Strong(o) = {x}
        BY <3>3, FS_Singleton
      <3> QED BY <2>6, <3>2, <3>4, <3>5 DEF Unique
    <2> QED BY <2>1, <2>4, <2>5, <2>6 DEF Counted
  <1> QED BY <1>1, Inductive, PTL

\* No call that is still to be made, and no slot, refers to a control block
\* that has been freed; no shared_ptr refers to an object whose destruction
\* has begun, whatever cycles the members form.
THEOREM NothingDangles == Spec => []NoDangling
  <1>1. IndInv => NoDangling
    <2> SUFFICES ASSUME IndInv PROVE NoDangling
      OBVIOUS
    <2>1. Referred /\ \A o \in Objects : Placed(o)
      BY DEF IndInv
    <2>2. \A i \in 1 .. Len(todo) : block[todo[i][2]] = "alive"
      BY <2>1 DEF Referred, Elems
    <2>3. \A o \in Objects : object[o] \in {"alive", "dying", "dead"} => block[o] = "alive"
      BY <2>1 DEF Placed
    <2> QED BY <2>1, <2>2, <2>3 DEF NoDangling, Referred
  <1> QED BY <1>1, Inductive, PTL
-----------------------------------------------------------------------------
(***************************************************************************)
(* Leaks.                                                                  *)
(***************************************************************************)

\* A block lives as long as its weak count is not 0, and no object is older
\* than its block; only the members of an object that is alive point anywhere.
Kept ==
    /\ \A o \in Objects : block[o] = "alive" => weak_count[o] > 0
    /\ \A o \in Objects : block[o] = "none" => object[o] = "none"
    /\ \A o \in Objects : \A m \in MembersOf[o] : target[m] # Null => object[o] = "alive"

\* A slot that the program may use is a variable, or its object is alive.
LEMMA UsableSlot ==
    ASSUME NEW s, Usable(s), NEW o \in Objects, s \in MembersOf[o]
    PROVE  object[o] = "alive"
  BY MembersAssumption DEF Usable, MemberSlots

\* A statement of the program gives targets to slots it may use, and takes no
\* weak count away.
LEMMA KeptByStatement ==
    ASSUME Kept, TypeOK, TypeOK', UNCHANGED <<object, block>>,
           \A o \in Objects : weak_count'[o] >= weak_count[o],
           NEW from, NEW to, Usable(from), Usable(to),
           \A s \in Slots : s # from /\ s # to => target'[s] = target[s]
    PROVE  Kept'
  <1>1. ASSUME NEW o \in Objects, block'[o] = "alive" PROVE weak_count'[o] > 0
    <2>1. weak_count[o] > 0 /\ weak_count'[o] >= weak_count[o]
      BY <1>1 DEF Kept
    <2>2. weak_count[o] \in Nat /\ weak_count'[o] \in Nat
      BY DEF TypeOK
    <2> QED BY <2>1, <2>2
  <1>2. ASSUME NEW o \in Objects, NEW m \in MembersOf[o], target'[m] # Null
        PROVE  object'[o] = "alive"
    <2>1. m \in Slots
      BY MembersAssumption
    <2>2. CASE m = from \/ m = to
      BY <2>2, UsableSlot
    <2>3. CASE m # from /\ m # to
      BY <1>2, <2>1, <2>3 DEF Kept
    <2> QED BY <2>2, <2>3
  <1> QED BY <1>1, <1>2 DEF Kept

\* Initially there is no block, and every slot is empty.
LEMMA KeptInit == Init => Kept
  <1> SUFFICES ASSUME Init PROVE Kept
    OBVIOUS
  <1>1. \A s \in Slots : target[s] = Null
    BY DEF Init
  <1>2. \A o \in Objects : block[o] = "none" /\ object[o] = "none"
    BY DEF Init
  <1> QED BY <1>1, <1>2, MembersAssumption DEF Kept

\* Each step keeps blocks, objects and members in step.
LEMMA KeptNext == IndInv /\ IndInv' /\ Kept /\ [Next]_vars => Kept'
  <1> SUFFICES ASSUME IndInv, IndInv', Kept, [Next]_vars PROVE Kept'
    OBVIOUS
  <1>1. /\ TypeOK /\ TypeOK'
        /\ target \in [Slots -> Objects \cup {Null}] /\ weak_count \in [Objects -> Nat]
        /\ object \in [Objects -> {"none", "alive", "dying", "dead", "freed"}]
        /\ block \in [Objects -> {"none", "alive", "freed"}]
    BY DEF IndInv, TypeOK
  <1>2. \A o \in Objects : weak_count[o] >= weak_count[o]
    BY <1>1
  <1>3. ASSUME NEW s \in Slots, NEW o \in Objects, NEW where, NewBlock(s, o, where) PROVE Kept'
    <2>1. /\ Usable(s) /\ target' = [target EXCEPT ![s] = o]
          /\ object' = [object EXCEPT ![o] = "alive"] /\ block' = [block EXCEPT ![o] = "alive"]
          /\ weak_count' = [weak_count EXCEPT ![o] = 1]
      BY <1>3 DEF NewBlock
    <2>2. \A p \in Objects : IF p = o THEN block'[p] = "alive" /\ weak_count'[p] = 1 /\ object'[p] = "alive"
                                      ELSE /\ block'[p] = block[p] /\ weak_count'[p] = weak_count[p]
                                           /\ object'[p] = object[p]
      BY <1>1, <2>1
    <2>3. ASSUME NEW p \in Objects, NEW m \in MembersOf[p], target'[m] # Null
          PROVE  object'[p] = "alive"
      <3>1. m \in Slots /\ (m # s => target'[m] = target[m])
        BY <1>1, <2>1, MembersAssumption
      <3>2. object[p] = "alive"
        BY <2>1, <2>3, <3>1, UsableSlot DEF Kept
      <3> QED BY <2>2, <3>2
    <2> QED BY <2>2, <2>3 DEF Kept
  <1>4. ASSUME NEW from \in Slots, NEW to \in Slots, CopyStrong(from, to) PROVE Kept'
    <2>1. /\ Usable(from) /\ Usable(to) /\ target' = [target EXCEPT ![to] = target[from]]
          /\ UNCHANGED <<weak_count, object, block>>
      BY <1>4 DEF CopyStrong
    <2>2. \A s \in Slots : s # from /\ s # to => target'[s] = target[s]
      BY <1>1, <2>1
    <2> QED BY <1>1, <1>2, <2>1, <2>2, KeptByStatement
  <1>5. ASSUME NEW from \in Slots, NEW to \in Slots, CopyWeak(from, to) PROVE Kept'
    <2>1. /\ Usable(from) /\ Usable(to) /\ target' = [target EXCEPT ![to] = target[from]]
          /\ AddWeak(from) /\ UNCHANGED <<object, block>>
      BY <1>5 DEF CopyWeak
    <2>2. \A s \in Slots : s # from /\ s # to => target'[s] = target[s]
      BY <1>1, <2>1
    <2>3. \A o \in Objects : weak_count'[o] >= weak_count[o]
      BY <1>1, <2>1 DEF AddWeak
    <2> QED BY <1>1, <2>1, <2>2, <2>3, KeptByStatement
  <1>6. ASSUME NEW w \in Slots, NEW s \in Slots, Lock(w, s) PROVE Kept'
    <2>1. /\ Usable(w) /\ Usable(s) /\ UNCHANGED <<weak_count, object, block>>
          /\ (target' = [target EXCEPT ![s] = Null] \/ target' = [target EXCEPT ![s] = target[w]])
      BY <1>6 DEF Lock
    <2>2. \A k \in Slots : k # w /\ k # s => target'[k] = target[k]
      BY <1>1, <2>1
    <2> QED BY <1>1, <1>2, <2>1, <2>2, KeptByStatement
  <1>7. ASSUME NEW from \in Slots, NEW to \in Slots, Move(from, to) \/ Swap(from, to) PROVE Kept'
    <2>1. /\ Usable(from) /\ Usable(to) /\ UNCHANGED <<weak_count, object, block>>
          /\ \/ target' = [target EXCEPT ![from] = Null, ![to] = target[from]]
             \/ target' = [target EXCEPT ![from] = target[to], ![to] = target[from]]
      BY <1>7 DEF Move, Swap
    <2>2. \A s \in Slots : s # from /\ s # to => target'[s] = target[s]
      BY <1>1, <2>1
    <2> QED BY <1>1, <1>2, <2>1, <2>2, KeptByStatement
  <1>8. ASSUME NEW s \in Slots, Reset(s) PROVE Kept'
    <2>1. /\ Usable(s) /\ target' = [target EXCEPT ![s] = Null]
          /\ UNCHANGED <<weak_count, object, block>>
      BY <1>8 DEF Reset
    <2>2. \A k \in Slots : k # s => target'[k] = target[k]
      BY <1>1, <2>1
    <2> QED BY <1>1, <1>2, <2>1, <2>2, KeptByStatement
  <1>9. CASE ReleaseRef
    <2>1. PICK o \in Objects :
             /\ UNCHANGED <<weak_count, block>>
             /\ \/ /\ object' = [object EXCEPT ![o] = "dying"]
                   /\ target' = [s \in Slots |-> IF s \in MembersOf[o] THEN Null ELSE target[s]]
                \/ UNCHANGED <<object, target>>
             /\ block[o] = "alive"
      <3>1. Head(todo) \in Elems(todo) /\ Head(todo)[2] \in Objects
        <4>1. todo \in Seq(Calls) /\ todo # <<>>
          BY <1>9 DEF ReleaseRef, IndInv, TypeOK
        <4>2. Head(todo) \in Calls
          BY <4>1, HeadTailProperties
        <4> QED BY <4>1, <4>2, ElemsTail DEF Calls
      <3>2. block[Head(todo)[2]] = "alive"
        BY <3>1 DEF IndInv, Referred
      <3> QED BY <1>9, <3>1, <3>2 DEF ReleaseRef
    <2>2. CASE UNCHANGED <<object, target>>
      BY <2>1, <2>2 DEF Kept
    <2>3. CASE /\ object' = [object EXCEPT ![o] = "dying"]
               /\ target' = [s \in Slots |-> IF s \in MembersOf[o] THEN Null ELSE target[s]]
      <3>1. \A p \in Objects : p # o => object'[p] = object[p]
        BY <1>1, <2>3
      <3>2. ASSUME NEW p \in Objects, NEW m \in MembersOf[p], target'[m] # Null
            PROVE  object'[p] = "alive"
        <4>1. m \in Slots /\ m \notin MembersOf[o] /\ target[m] # Null
          BY <2>3, <3>2, MembersAssumption
        <4> QED BY <3>1, <4>1 DEF Kept
      <3> QED BY <2>1, <3>1, <3>2 DEF Kept
    <2> QED BY <2>1, <2>2, <2>3
  <1>10. CASE ObjectDestroyed
    <2>1. PICK o \in Objects : /\ object[o] # "alive" /\ block[o] = "alive"
                               /\ UNCHANGED <<target, weak_count, block>>
                               /\ \A p \in Objects : p # o => object'[p] = object[p]
      <3>1. Head(todo) \in Elems(todo) /\ Head(todo)[2] \in Objects
        <4>1. todo \in Seq(Calls) /\ todo # <<>>
          BY <1>10 DEF ObjectDestroyed, IndInv, TypeOK
        <4>2. Head(todo) \in Calls
          BY <4>1, HeadTailProperties
        <4> QED BY <4>1, <4>2, ElemsTail DEF Calls
      <3>2. block[Head(todo)[2]] = "alive" /\ object[Head(todo)[2]] # "alive"
        BY <1>10, <3>1 DEF IndInv, Referred, ObjectDestroyed
      <3>3. \A p \in Objects : p # Head(todo)[2] => object'[p] = object[p]
        BY <1>1, <1>10 DEF ObjectDestroyed
      <3> QED BY <1>10, <3>1, <3>2, <3>3 DEF ObjectDestroyed
    <2> QED BY <2>1 DEF Kept
  <1>11. CASE ReleaseWeak
    <2>1. PICK o \in Objects : o = Head(todo)[2] /\ block[o] = "alive"
      <3>1. todo \in Seq(Calls) /\ todo # <<>>
        BY <1>11 DEF ReleaseWeak, IndInv, TypeOK
      <3>2. Head(todo) \in Calls
        BY <3>1, HeadTailProperties
      <3> QED BY <3>1, <3>2, ElemsTail DEF Calls, IndInv, Referred
    <2>2. /\ UNCHANGED target
          /\ weak_count' = [weak_count EXCEPT ![o] = @ - 1]
          /\ \/ weak_count[o] - 1 = 0 /\ block' = [block EXCEPT ![o] = "freed"]
             \/ weak_count[o] - 1 # 0 /\ UNCHANGED block
          /\ \A p \in Objects : p # o => object'[p] = object[p]
      BY <1>1, <1>11, <2>1 DEF ReleaseWeak
    <2>3. \A p \in Objects : p # o => block'[p] = block[p] /\ weak_count'[p] = weak_count[p]
      BY <1>1, <2>2
    <2>4. block'[o] = "alive" => weak_count'[o] > 0
      <3>1. weak_count[o] \in Nat /\ weak_count'[o] = weak_count[o] - 1 /\ weak_count[o] > 0
        BY <1>1, <2>1, <2>2 DEF Kept
      <3>2. weak_count[o] - 1 = 0 => block'[o] = "freed"
        BY <1>1, <2>2
      <3> QED BY <3>1, <3>2
    <2>5. object[o] = "alive" => object'[o] = "alive"
      <3> SUFFICES ASSUME object[o] = "alive", object'[o] # "alive" PROVE FALSE
        OBVIOUS
      <3>1. block'[o] = "freed"
        BY <1>1, <1>11, <2>1 DEF ReleaseWeak
      <3>2. shared_count[o] > 0 /\ UNCHANGED <<shared_count, target>>
        BY <1>11, <2>1 DEF IndInv, Counted, ReleaseWeak
      <3>3. Holders(target, WeakSlots, o) \in Nat /\ Count(todo, <<"release_weak", o>>) \in Nat
        BY FiniteSlots, HoldersFinite, CountFinite DEF IndInv, TypeOK
      <3>4. weak_count[o] - 1 = 0
        BY <1>1, <1>11, <2>1, <3>1 DEF ReleaseWeak
      <3>5. Count(todo, <<"release_weak", o>>) > 0
        <4>1. <<"release_weak", o>> \in Elems(todo)
          <5>1. todo \in Seq(Calls) /\ todo # <<>> /\ Head(todo)[1] = "release_weak"
            BY <1>11 DEF ReleaseWeak, IndInv, TypeOK
          <5>2. Head(todo) \in Calls /\ Head(todo) \in Elems(todo)
            BY <5>1, HeadTailProperties, ElemsTail
          <5>3. Head(todo) = <<"release_weak", o>>
            BY <2>1, <5>1, <5>2 DEF Calls
          <5> QED BY <5>2, <5>3
        <4> QED BY <4>1, <3>3, ElemsCounted DEF IndInv, TypeOK
      <3>6. weak_count[o] = Holders(target, WeakSlots, o) + Count(todo, <<"release_weak", o>>) + 1
        BY <2>1, <3>2 DEF IndInv, Counted, Num
      <3> QED BY <3>3, <3>4, <3>5, <3>6
    <2>6. block'[o] # "none"
      BY <1>1, <2>1, <2>2
    <2> QED BY <2>2, <2>3, <2>4, <2>5, <2>6 DEF Kept
  <1>12. CASE UNCHANGED vars
    BY <1>12 DEF Kept, vars
  <1> QED BY <1>3, <1>4, <1>5, <1>6, <1>7, <1>8, <1>9, <1>10, <1>11, <1>12 DEF Next, Make, MakeShared

-----------------------------------------------------------------------------
\* What is reached from S is the least set that contains S and is closed.
LEMMA ReachSelf ==
    ASSUME NEW S \in SUBSET Objects
    PROVE  S \subseteq Reach(S)
  BY DEF Reach

\* What is reached contains the members of what is reached.
LEMMA ReachClosed ==
    ASSUME TypeOK, NEW S \in SUBSET Objects
    PROVE  Closed(Reach(S))
  <1> SUFFICES ASSUME NEW o \in Reach(S), NEW m \in StrongSlots, m \in MembersOf[o], target[m] # Null
               PROVE  target[m] \in Reach(S)
    BY DEF Closed
  <1>1. target[m] \in Objects
    BY DEF TypeOK, Slots
  <1>2. ASSUME NEW T \in SUBSET Objects, S \subseteq T, Closed(T) PROVE target[m] \in T
    <2>1. o \in T
      BY <1>2 DEF Reach
    <2> QED BY <1>2, <2>1 DEF Closed
  <1> QED BY <1>1, <1>2 DEF Reach

\* A closed set that contains S contains what is reached from S.
LEMMA ReachLeast ==
    ASSUME NEW S, NEW T \in SUBSET Objects, S \subseteq T, Closed(T)
    PROVE  Reach(S) \subseteq T
  BY DEF Reach

\* What is reached from what is reached.
LEMMA ReachOn ==
    ASSUME TypeOK, NEW S \in SUBSET Objects, NEW p \in Reach(S)
    PROVE  Reach({p}) \subseteq Reach(S)
  BY ReachClosed, ReachLeast DEF Reach

\* The order of numbers.
Less == {p \in Nat \X Nat : p[1] < p[2]}
\* A set of numbers that is not empty has a least member.
LEMMA LeastNumber ==
    ASSUME NEW T \in SUBSET Nat, T # {}
    PROVE  \E x \in T : \A y \in T : x <= y
  <1>1. IsWellFoundedOn(Less, Nat)
    <2>1. Less = OpToRel(<, Nat)
      BY Zenon DEF OpToRel, Less
    <2> QED BY <2>1, NatLessThanWellFounded, Zenon DEF OpToRel
  <1>2. PICK x \in T : \A y \in T : ~ (<<y, x>> \in Less)
    BY <1>1, WFMin, Zenon
  <1>3. \A y \in T : ~ (y < x)
    BY <1>2 DEF Less
  <1> QED BY <1>3

\* An object without a variable that reaches it is held by a member of another
\* such object.
Lost == {o \in Objects : object[o] = "alive" /\ o \notin Reach(Rooted)}

\* Every lost object is held by a member of a lost object.
LEMMA LostIsHeld ==
    ASSUME IndInv, Kept, todo = <<>>, NEW p \in Lost
    PROVE  \E q \in Lost : \E m \in MembersOf[q] \cap StrongSlots : target[m] = p
  <1>1. TypeOK /\ p \in Objects /\ object[p] = "alive" /\ p \notin Reach(Rooted) /\ block[p] = "alive"
    BY DEF IndInv, Placed, Lost
  <1>2. Rooted \in SUBSET Objects
    BY <1>1 DEF Rooted, TypeOK, Slots
  <1>3. Held(target, StrongSlots, p) # {}
    <2>1. shared_count[p] > 0 /\ shared_count[p] = Holders(target, StrongSlots, p) + Count(todo, <<"release_ref", p>>)
      BY <1>1 DEF IndInv, Counted
    <2>2. Count(todo, <<"release_ref", p>>) = 0
      BY NoCalls
    <2> QED BY <2>1, <2>2, FiniteSlots, HoldersFinite
  <1>4. PICK m \in StrongSlots : target[m] = p
    BY <1>3 DEF Held
  <1>5. p # Null
    BY <1>1, SlotsAssumption
  <1>6. m \notin Roots
    BY <1>1, <1>2, <1>4, <1>5, ReachSelf DEF Rooted
  <1>7. PICK q \in Objects : m \in MembersOf[q]
    BY <1>6 DEF Roots, MemberSlots, Slots
  <1>8. object[q] = "alive"
    BY <1>4, <1>5, <1>7 DEF Kept
  <1>9. q \notin Reach(Rooted)
    BY <1>1, <1>2, <1>4, <1>5, <1>7, ReachClosed DEF Closed
  <1> QED BY <1>4, <1>7, <1>8, <1>9 DEF Lost

\* Of the objects that keep a lost object alive, all lost themselves, take one
\* that reaches as many of the others as any does: whoever holds it reaches no
\* more, so it reaches whoever holds it.
LEMMA LostByCycle ==
    ASSUME IndInv, Kept, todo = <<>>, NEW o \in Lost
    PROVE  \E p \in Objects : /\ o \in Reach({p})
                              /\ \E m \in MembersOf[p] \cap StrongSlots :
                                    target[m] # Null /\ p \in Reach({target[m]})
  <1> DEFINE Keepers == {p \in Lost : o \in Reach({p})}
             Missed(p) == Keepers \ Reach({p})
             Misses == {Cardinality(Missed(p)) : p \in Keepers}
  <1>1. TypeOK /\ Lost \subseteq Objects
    BY DEF IndInv, Lost
  <1>2. \A p \in Lost : p \in Reach({p})
    BY <1>1, ReachSelf
  <1>3. \A p \in Keepers : \E q \in Keepers : \E m \in MembersOf[q] \cap StrongSlots : target[m] = p
    <2> SUFFICES ASSUME NEW p \in Keepers
                 PROVE  \E q \in Keepers : \E m \in MembersOf[q] \cap StrongSlots : target[m] = p
      OBVIOUS
    <2>1. PICK q \in Lost : \E m \in MembersOf[q] \cap StrongSlots : target[m] = p
      BY LostIsHeld
    <2>2. p \in Reach({q})
      <3>1. q \in Reach({q}) /\ Closed(Reach({q})) /\ p # Null
        BY <1>1, <1>2, <2>1, ReachClosed, SlotsAssumption
      <3> QED BY <2>1, <3>1 DEF Closed
    <2>3. Reach({p}) \subseteq Reach({q})
      BY <1>1, <2>2, ReachOn
    <2> QED BY <2>1, <2>3
  <1>4. IsFiniteSet(Keepers)
    <2>1. Keepers \subseteq {target[m] : m \in StrongSlots}
      BY <1>3
    <2>2. IsFiniteSet({target[m] : m \in StrongSlots})
      <3> DEFINE f == [m \in StrongSlots |-> target[m]]
      <3>1. f \in Surjection(StrongSlots, {target[m] : m \in StrongSlots})
        BY DEF Surjection
      <3> QED BY <3>1, FiniteSlots, FS_Surjection
    <2> QED BY <2>1, <2>2, FS_Subset
  <1>5. \A p \in Keepers : IsFiniteSet(Missed(p)) /\ Cardinality(Missed(p)) \in Nat
    BY <1>4, FS_Subset, FS_CardinalityType
  <1>6. PICK n \in Misses : \A k \in Misses : n <= k
    <2>1. o \in Keepers
      BY <1>2
    <2>2. Misses \in SUBSET Nat /\ Misses # {}
      BY <1>5, <2>1
    <2> QED BY <2>2, LeastNumber
  <1>7. PICK p \in Keepers : \A r \in Keepers : Cardinality(Missed(p)) <= Cardinality(Missed(r))
    BY <1>6
  <1>8. PICK q \in Keepers : \E m \in MembersOf[q] \cap StrongSlots : target[m] = p
    BY <1>3
  <1>9. PICK m \in MembersOf[q] \cap StrongSlots : target[m] = p
    BY <1>8
  <1>10. q \in Reach({p})
    <2> SUFFICES ASSUME q \notin Reach({p}) PROVE FALSE
      OBVIOUS
    <2>1. q \in Reach({q}) /\ Closed(Reach({q})) /\ p # Null
      BY <1>1, <1>2, ReachClosed, SlotsAssumption
    <2>2. Reach({p}) \subseteq Reach({q})
      BY <1>1, <1>9, <2>1, ReachOn DEF Closed
    <2>3. Missed(q) \subseteq Missed(p) /\ q \in Missed(p) /\ q \notin Missed(q)
      BY <2>1, <2>2
    <2>4. Cardinality(Missed(q)) <= Cardinality(Missed(p)) /\ Cardinality(Missed(q)) # Cardinality(Missed(p))
      BY <1>5, <2>3, FS_Subset
    <2>5. Cardinality(Missed(p)) <= Cardinality(Missed(q))
      BY <1>7
    <2>6. Cardinality(Missed(p)) \in Nat /\ Cardinality(Missed(q)) \in Nat
      BY <1>5
    <2> HIDE DEF Missed
    <2> QED BY <2>4, <2>5, <2>6
  <1>11. p # Null /\ q \in Objects /\ o \in Reach({q})
    BY <1>1, SlotsAssumption
  <1> QED BY <1>9, <1>10, <1>11

\* An object that no variable reaches is alive only behind a cycle of members,
\* and a dead one leaves no block behind unless a weak_ptr refers to it: for
\* every number of objects and every shape of their members.
THEOREM LeaksAreCycles == Spec => []OnlyCyclesLeak
  <1>1. IndInv /\ Kept => OnlyCyclesLeak
    <2> SUFFICES ASSUME IndInv, Kept, todo = <<>> PROVE OnlyCyclesLeak
      BY DEF OnlyCyclesLeak
    <2>1. ASSUME NEW o \in Objects, object[o] \in {"dead", "freed"}, Weak(o) = {}
          PROVE  object[o] = "freed" /\ block[o] = "freed"
      <3>1. block[o] # "alive"
        <4> SUFFICES ASSUME block[o] = "alive" PROVE FALSE
          OBVIOUS
        <4>1. /\ weak_count[o] = Holders(target, WeakSlots, o) + Count(todo, <<"release_weak", o>>)
                                   + Num(shared_count[o] > 0)
              /\ ~ (shared_count[o] > 0)
          BY <2>1 DEF IndInv, Counted
        <4>2. Count(todo, <<"release_weak", o>>) = 0
          BY NoCalls
        <4>3. Holders(target, WeakSlots, o) = 0
          BY <2>1, FiniteSlots, HoldersFinite DEF Weak, Held
        <4> QED BY <4>1, <4>2, <4>3 DEF Num, Kept
      <3>2. block[o] \in {"none", "alive", "freed"} /\ block[o] # "none"
        BY <2>1 DEF IndInv, TypeOK, Kept
      <3> QED BY <2>1, <3>1, <3>2 DEF IndInv, Placed
    <2> QED BY <2>1, LostByCycle DEF OnlyCyclesLeak, Lost
  <1>2. Init => Kept
    BY KeptInit
  <1>3. IndInv /\ IndInv' /\ Kept /\ [Next]_vars => Kept'
    BY KeptNext
  <1>4. Spec => []IndInv
    BY Inductive
  <1> QED BY <1>1, <1>2, <1>3, <1>4, PTL DEF Spec
=============================================================================
