-------------------------- MODULE EventLoop_proofs --------------------------
(***************************************************************************)
(* Proofs about the event loop, for any number of descriptors, any room    *)
(* for events and any program of the callbacks: what must still be handled *)
(* is always known to the kernel or to the loop, and a removed handler is  *)
(* not called.  The inductive invariant is EventsKept together with what a *)
(* registered descriptor is.  Most of the work is about sequences: the     *)
(* ready list grows at its end, loses a descriptor in its middle, and      *)
(* hands its front to the array of events.                                 *)
(***************************************************************************)
EXTENDS EventLoop, SequenceTheorems, WellFoundedInduction, TLAPS

\* What the kernel may report: the descriptors of the program and the eventfd.
Descriptors == Fds \cup {WakeFd}

\* What a registered descriptor is: it has a handler, and a handler that was
\* removed is not registered.  events[] is empty outside the dispatch loop.
Registered ==
    /\ data \subseteq Fds /\ handlers \subseteq Fds
    /\ reading \subseteq watched /\ watched \subseteq handlers
    /\ handlers \cap removed = {}
    /\ ready \in Seq(Descriptors) /\ events \in Seq(Descriptors)
    /\ pc \notin {"dispatch", "callback"} => events = <<>>
    /\ pc = "callback" => events # <<>>

IndInv == Registered /\ EventsKept

Less == {p \in Nat \X Nat : p[1] < p[2]}
\* A set of numbers that is not empty has a least member.
LEMMA LeastNumber ==
    ASSUME NEW T \in SUBSET Nat, T # {}
    PROVE  \E x \in T : \A y \in T : x <= y
  <1>1. IsWellFoundedOn(Less, Nat)
    <2>1. Less = OpToRel(<, Nat)
      BY Zenon DEF OpToRel, Less
    <2> QED BY <2>1, NatLessThanWellFounded, Zenon DEF OpToRel
  <1>2. PICK x \in T : \A y \in T : ~ (<<y, x>> \in Less)
    BY <1>1, WFMin, Zenon
  <1>3. \A y \in T : ~ (y < x)
    BY <1>2 DEF Less
  <1> QED BY <1>3

\* A part of a sequence.
LEMMA Part ==
    ASSUME NEW S, NEW s \in Seq(S), NEW m \in 1 .. Len(s) + 1, NEW n \in m - 1 .. Len(s)
    PROVE  /\ SubSeq(s, m, n) \in Seq(S)
           /\ Len(SubSeq(s, m, n)) = n - m + 1
           /\ \A i \in 1 .. n - m + 1 : SubSeq(s, m, n)[i] = s[m + i - 1]
  <1>1. Len(s) \in Nat /\ m \in Int /\ n \in Int
    OBVIOUS
  <1>2. \A i \in m .. n : s[i] \in S
    <2>1. \A i \in m .. n : i \in 1 .. Len(s)
      BY <1>1
    <2> QED BY <2>1, ElementOfSeq
  <1>3. /\ SubSeq(s, m, n) \in Seq(S)
        /\ Len(SubSeq(s, m, n)) = IF m <= n THEN n - m + 1 ELSE 0
        /\ \A i \in 1 .. n - m + 1 : SubSeq(s, m, n)[i] = s[m + i - 1]
    BY <1>1, <1>2, SubSeqProperties
  <1>4. m <= n \/ n - m + 1 = 0
    BY <1>1
  <1> QED BY <1>3, <1>4, Zenon

\* Two sequences joined.
LEMMA Joined ==
    ASSUME NEW S, NEW s \in Seq(S), NEW t \in Seq(S)
    PROVE  /\ s \o t \in Seq(S)
           /\ Len(s \o t) = Len(s) + Len(t)
           /\ \A i \in 1 .. Len(s) : (s \o t)[i] = s[i]
           /\ \A i \in 1 .. Len(t) : (s \o t)[Len(s) + i] = t[i]
  <1>1. Len(s) \in Nat /\ Len(t) \in Nat
    BY LenProperties
  <1>2. /\ s \o t \in Seq(S) /\ Len(s \o t) = Len(s) + Len(t)
        /\ \A i \in 1 .. Len(s) + Len(t) : (s \o t)[i] = IF i <= Len(s) THEN s[i] ELSE t[i - Len(s)]
    BY ConcatProperties
  <1>3. ASSUME NEW i \in 1 .. Len(s) PROVE (s \o t)[i] = s[i]
    <2>1. i \in 1 .. Len(s) + Len(t) /\ i <= Len(s)
      BY <1>1
    <2> QED BY <1>2, <2>1, Zenon
  <1>4. ASSUME NEW i \in 1 .. Len(t) PROVE (s \o t)[Len(s) + i] = t[i]
    <2> DEFINE c == s \o t
               k == Len(s) + i
    <2>1. k \in 1 .. Len(s) + Len(t) /\ ~ (k <= Len(s)) /\ k - Len(s) = i
      BY <1>1
    <2>2. c[k] = IF k <= Len(s) THEN s[k] ELSE t[k - Len(s)]
      BY <1>2, <2>1
    <2> HIDE DEF c, k
    <2>3. c[k] = t[i]
      BY <2>1, <2>2
    <2> QED BY <2>3 DEF c, k
  <1> QED BY <1>2, <1>3, <1>4

\* What is in a list is at one of its places.
LEMMA InList ==
    ASSUME NEW s \in Seq(Descriptors), NEW x
    PROVE  x \in ToSet(s) <=> \E i \in 1 .. Len(s) : s[i] = x
  <1>1. DOMAIN s = 1 .. Len(s)
    BY LenProperties
  <1> QED BY <1>1, Zenon DEF ToSet

\* The kernel's list gains a descriptor and keeps the others.
LEMMA QueuedKeeps ==
    ASSUME ready \in Seq(Descriptors), NEW fd \in Descriptors
    PROVE  /\ Queued(fd) \in Seq(Descriptors)
           /\ ToSet(Queued(fd)) = ToSet(ready) \cup {fd}
  <1>1. CASE fd \in ToSet(ready)
    BY <1>1 DEF Queued
  <1>2. CASE fd \notin ToSet(ready)
    <2>1. /\ Append(ready, fd) \in Seq(Descriptors)
          /\ DOMAIN Append(ready, fd) = 1 .. Len(ready) + 1
          /\ \A i \in 1 .. Len(ready) : Append(ready, fd)[i] = ready[i]
          /\ Append(ready, fd)[Len(ready) + 1] = fd
          /\ DOMAIN ready = 1 .. Len(ready) /\ Len(ready) \in Nat
      OBVIOUS
    <2>2. ToSet(Append(ready, fd)) = ToSet(ready) \cup {fd}
      BY <2>1 DEF ToSet
    <2> QED BY <1>2, <2>1, <2>2 DEF Queued
  <1> QED BY <1>1, <1>2

\* A list without the member at one place.
LEMMA Without ==
    ASSUME NEW s \in Seq(Descriptors), NEW k \in 1 .. Len(s)
    PROVE  LET whole == SubSeq(s, 1, k - 1) \o SubSeq(s, k + 1, Len(s))
           IN  /\ whole \in Seq(Descriptors)
               /\ ToSet(s) \ {s[k]} \subseteq ToSet(whole)
  <1>0. Len(s) \in Nat /\ DOMAIN s = 1 .. Len(s)
    OBVIOUS
  <1> DEFINE front == SubSeq(s, 1, k - 1)
             rest == SubSeq(s, k + 1, Len(s))
  <1>a. \A i \in 1 .. Len(s) : s[i] \in Descriptors
    BY ElementOfSeq
  <1>b. k - 1 \in Int /\ k + 1 \in Int /\ Len(s) \in Int
    BY <1>0
  <1>c. /\ front \in Seq(Descriptors) /\ Len(front) = k - 1
        /\ \A i \in 1 .. k - 1 : front[i] = s[i]
    <2>1. 1 \in 1 .. Len(s) + 1 /\ k - 1 \in 1 - 1 .. Len(s)
      BY <1>0
    <2>2. front \in Seq(Descriptors) /\ Len(front) = k - 1 - 1 + 1
          /\ \A i \in 1 .. k - 1 - 1 + 1 : front[i] = s[1 + i - 1]
      BY <2>1, Part
    <2>3. k - 1 - 1 + 1 = k - 1 /\ \A i \in Int : 1 + i - 1 = i
      BY <1>0
    <2> HIDE DEF front
    <2> QED BY <2>2, <2>3
  <1>d. /\ rest \in Seq(Descriptors) /\ Len(rest) = Len(s) - k
        /\ \A i \in 1 .. Len(s) - k : rest[i] = s[k + i]
    <2>1. k + 1 \in 1 .. Len(s) + 1 /\ Len(s) \in k + 1 - 1 .. Len(s)
      BY <1>0
    <2>2. rest \in Seq(Descriptors) /\ Len(rest) = Len(s) - (k + 1) + 1
          /\ \A i \in 1 .. Len(s) - (k + 1) + 1 : rest[i] = s[k + 1 + i - 1]
      BY <2>1, Part
    <2>3. Len(s) - (k + 1) + 1 = Len(s) - k /\ \A i \in Int : k + 1 + i - 1 = k + i
      BY <1>0
    <2> HIDE DEF rest
    <2> QED BY <2>2, <2>3
  <1> HIDE DEF front, rest
  <1> DEFINE whole == front \o rest
  <1>e. /\ whole \in Seq(Descriptors) /\ Len(whole) = Len(front) + Len(rest)
        /\ \A i \in 1 .. Len(front) : whole[i] = front[i]
        /\ \A i \in 1 .. Len(rest) : whole[Len(front) + i] = rest[i]
    <2>1. front \in Seq(Descriptors) /\ rest \in Seq(Descriptors)
      BY <1>c, <1>d
    <2>2. /\ front \o rest \in Seq(Descriptors) /\ Len(front \o rest) = Len(front) + Len(rest)
          /\ \A i \in 1 .. Len(front) : (front \o rest)[i] = front[i]
          /\ \A i \in 1 .. Len(rest) : (front \o rest)[Len(front) + i] = rest[i]
      BY <2>1, Joined
    <2> QED BY <2>2, Zenon
  <1> HIDE DEF whole
  <1>7. /\ whole \in Seq(Descriptors) /\ Len(whole) = Len(s) - 1
        /\ \A i \in 1 .. k - 1 : whole[i] = s[i]
        /\ \A i \in 1 .. Len(s) - k : whole[k - 1 + i] = s[k + i]
    <2>1. k - 1 + (Len(s) - k) = Len(s) - 1
      BY <1>0
    <2>2. Len(whole) = Len(s) - 1
      BY <1>c, <1>d, <1>e, <2>1
    <2>3. \A i \in 1 .. k - 1 : whole[i] = s[i]
      BY <1>c, <1>e
    <2>4. ASSUME NEW i \in 1 .. Len(s) - k PROVE whole[k - 1 + i] = s[k + i]
      <3>1. i \in 1 .. Len(rest)
        BY <1>d
      <3> QED BY <1>c, <1>d, <1>e, <3>1
    <2> QED BY <1>e, <2>2, <2>3, <2>4
  <1>8. ASSUME NEW j \in 1 .. Len(s), s[j] # s[k]
        PROVE  \E i \in 1 .. Len(s) - 1 : whole[i] = s[j]
    <2>1. CASE j < k
      <3>1. j \in 1 .. Len(s) - 1 /\ j \in 1 .. k - 1
        BY <1>0, <2>1
      <3> QED BY <1>7, <3>1
    <2>2. CASE j > k
      <3>1. j - k \in 1 .. Len(s) - k /\ k - 1 + (j - k) = j - 1 /\ k + (j - k) = j
            /\ j - 1 \in 1 .. Len(s) - 1
        BY <1>0, <2>2
      <3>2. whole[k - 1 + (j - k)] = s[k + (j - k)]
        BY <1>7, <3>1
      <3> QED BY <3>1, <3>2
    <2>3. j # k
      BY <1>8
    <2>4. j < k \/ j > k
      BY <1>0, <2>3
    <2> QED BY <2>1, <2>2, <2>4
  <1>9. ASSUME NEW x \in ToSet(s) \ {s[k]} PROVE x \in ToSet(whole)
    <2>1. PICK j \in 1 .. Len(s) : s[j] = x
      BY InList
    <2>2. PICK i \in 1 .. Len(s) - 1 : whole[i] = x
      BY <1>8, <2>1
    <2>3. i \in 1 .. Len(whole)
      BY <1>7
    <2> QED BY <1>7, <2>2, <2>3, InList
  <1> QED BY <1>7, <1>9 DEF front, rest, whole

\* The list loses a descriptor and keeps the others.
LEMMA UnqueuedKeeps ==
    ASSUME ready \in Seq(Descriptors), NEW fd \in Descriptors
    PROVE  /\ Unqueued(fd) \in Seq(Descriptors)
           /\ ToSet(ready) \ {fd} \subseteq ToSet(Unqueued(fd))
  <1> DEFINE places == {i \in 1 .. Len(ready) : ready[i] = fd}
  <1>1. CASE places = {}
    <2>1. Unqueued(fd) = ready
      BY <1>1 DEF Unqueued, RemoveFirst
    <2> QED BY <2>1
  <1>2. CASE places # {}
    <2>0. Len(ready) \in Nat /\ DOMAIN ready = 1 .. Len(ready)
      OBVIOUS
    <2>1. places \in SUBSET Nat
      BY <2>0
    <2>2. \E x \in places : \A y \in places : x <= y
      BY <1>2, <2>1, LeastNumber
    <2>3. Min(places) \in places
      BY <2>2, Zenon DEF Min
    <2>4. PICK k \in 1 .. Len(ready) : k = Min(places) /\ ready[k] = fd
      BY <2>3
    <2>5. Unqueued(fd) = SubSeq(ready, 1, k - 1) \o SubSeq(ready, k + 1, Len(ready))
      <3>1. \E i \in 1 .. Len(ready) : ready[i] = fd
        BY <2>4
      <3>2. SelectInSeq(ready, LAMBDA v : v = fd) = k
        BY <1>2, <2>4 DEF SelectInSeq
      <3> QED BY <3>1, <3>2 DEF Unqueued, RemoveFirst, RemoveAt
    <2>6. Unqueued(fd) \in Seq(Descriptors) /\ ToSet(ready) \ {ready[k]} \subseteq ToSet(Unqueued(fd))
      BY <2>5, Without
    <2> QED BY <2>4, <2>6
  <1> QED BY <1>1, <1>2

\* An array without its first event.
LEMMA TailKeeps ==
    ASSUME NEW s \in Seq(Descriptors), s # <<>>
    PROVE  /\ Tail(s) \in Seq(Descriptors)
           /\ ToSet(s) = ToSet(Tail(s)) \cup {Head(s)}
           /\ Head(s) \in ToSet(s)
  <1>1. /\ Tail(s) \in Seq(Descriptors) /\ Len(s) \in Nat /\ Len(s) > 0
        /\ DOMAIN s = 1 .. Len(s) /\ DOMAIN Tail(s) = 1 .. Len(s) - 1
        /\ \A i \in 1 .. Len(s) - 1 : Tail(s)[i] = s[i + 1]
        /\ Head(s) = s[1]
    BY HeadTailProperties
  <1>2. \A j \in 1 .. Len(s) : j # 1 => j - 1 \in 1 .. Len(s) - 1 /\ Tail(s)[j - 1] = s[j]
    BY <1>1
  <1>3. Tail(s) \in Seq(Descriptors) /\ Len(Tail(s)) = Len(s) - 1
    BY HeadTailProperties
  <1>4. 1 \in 1 .. Len(s) /\ \A i \in 1 .. Len(s) - 1 : i + 1 \in 1 .. Len(s)
    BY <1>1
  <1>5. ASSUME NEW x PROVE x \in ToSet(s) <=> x \in ToSet(Tail(s)) \/ x = Head(s)
    <2>1. ASSUME NEW j \in 1 .. Len(s), j # 1 PROVE s[j] \in ToSet(Tail(s))
      BY <1>2, <1>3, <2>1, InList
    <2>2. ASSUME NEW i \in 1 .. Len(s) - 1 PROVE Tail(s)[i] \in ToSet(s)
      BY <1>1, <1>4, InList
    <2>3. Head(s) \in ToSet(s)
      BY <1>1, <1>4, InList
    <2>4. ASSUME x \in ToSet(s) PROVE x \in ToSet(Tail(s)) \/ x = Head(s)
      <3>1. PICK j \in 1 .. Len(s) : s[j] = x
        BY <2>4, InList
      <3> QED BY <1>1, <2>1, <3>1
    <2>5. ASSUME x \in ToSet(Tail(s)) PROVE x \in ToSet(s)
      <3>1. PICK i \in 1 .. Len(Tail(s)) : Tail(s)[i] = x
        BY <1>3, <2>5, InList
      <3> QED BY <1>3, <2>2, <3>1
    <2> QED BY <2>3, <2>4, <2>5
  <1>6. Head(s) \in ToSet(s)
    BY <1>1, <1>4, InList
  <1> QED BY <1>3, <1>5, <1>6

\* epoll_wait() moves the first part of the list to the array.
LEMMA SplitKeeps ==
    ASSUME NEW s \in Seq(Descriptors), NEW n \in 0 .. Len(s)
    PROVE  /\ SubSeq(s, 1, n) \in Seq(Descriptors)
           /\ SubSeq(s, n + 1, Len(s)) \in Seq(Descriptors)
           /\ ToSet(s) = ToSet(SubSeq(s, 1, n)) \cup ToSet(SubSeq(s, n + 1, Len(s)))
  <1> DEFINE a == SubSeq(s, 1, n)
             b == SubSeq(s, n + 1, Len(s))
  <1>0. Len(s) \in Nat /\ 1 \in 1 .. Len(s) + 1 /\ n \in 1 - 1 .. Len(s)
        /\ n + 1 \in 1 .. Len(s) + 1 /\ Len(s) \in n + 1 - 1 .. Len(s)
    BY LenProperties
  <1>1. a \in Seq(Descriptors) /\ Len(a) = n /\ \A i \in 1 .. n : a[i] = s[i]
    <2>1. a \in Seq(Descriptors) /\ Len(a) = n - 1 + 1
          /\ \A i \in 1 .. n - 1 + 1 : a[i] = s[1 + i - 1]
      BY <1>0, Part
    <2>2. n - 1 + 1 = n /\ \A i \in Int : 1 + i - 1 = i
      BY <1>0
    <2> HIDE DEF a
    <2> QED BY <2>1, <2>2
  <1>2. b \in Seq(Descriptors) /\ Len(b) = Len(s) - n /\ \A i \in 1 .. Len(s) - n : b[i] = s[n + i]
    <2>1. b \in Seq(Descriptors) /\ Len(b) = Len(s) - (n + 1) + 1
          /\ \A i \in 1 .. Len(s) - (n + 1) + 1 : b[i] = s[n + 1 + i - 1]
      BY <1>0, Part
    <2>2. Len(s) - (n + 1) + 1 = Len(s) - n /\ \A i \in Int : n + 1 + i - 1 = n + i
      BY <1>0
    <2> HIDE DEF b
    <2> QED BY <2>1, <2>2
  <1> HIDE DEF a, b
  <1>3. \A j \in 1 .. Len(s) : \/ j \in 1 .. n
                               \/ j - n \in 1 .. Len(s) - n /\ b[j - n] = s[j]
    BY <1>0, <1>2
  <1>4. /\ \A i \in 1 .. n : i \in 1 .. Len(s)
        /\ \A i \in 1 .. Len(s) - n : n + i \in 1 .. Len(s)
    BY <1>0
  <1>5. ASSUME NEW x PROVE x \in ToSet(s) <=> x \in ToSet(a) \/ x \in ToSet(b)
    <2>1. ASSUME NEW j \in 1 .. Len(s) PROVE s[j] \in ToSet(a) \/ s[j] \in ToSet(b)
      BY <1>1, <1>2, <1>3, InList
    <2>2. ASSUME NEW i \in 1 .. n PROVE a[i] \in ToSet(s)
      BY <1>1, <1>4, InList
    <2>3. ASSUME NEW i \in 1 .. Len(s) - n PROVE b[i] \in ToSet(s)
      BY <1>2, <1>4, InList
    <2>4. ASSUME x \in ToSet(s) PROVE x \in ToSet(a) \/ x \in ToSet(b)
      <3>1. PICK j \in 1 .. Len(s) : s[j] = x
        BY <2>4, InList
      <3> QED BY <2>1, <3>1
    <2>5. ASSUME x \in ToSet(a) PROVE x \in ToSet(s)
      <3>1. PICK i \in 1 .. n : a[i] = x
        BY <1>1, <2>5, InList
      <3> QED BY <2>2, <3>1
    <2>6. ASSUME x \in ToSet(b) PROVE x \in ToSet(s)
      <3>1. PICK i \in 1 .. Len(s) - n : b[i] = x
        BY <1>2, <2>6, InList
      <3> QED BY <2>3, <3>1
    <2> QED BY <2>4, <2>5, <2>6
  <1> QED BY <1>1, <1>2, <1>5 DEF a, b
-----------------------------------------------------------------------------
\* The loop starts with nothing registered and nothing pending.
LEMMA InitInv == Init => IndInv
  <1> SUFFICES ASSUME Init PROVE IndInv
    OBVIOUS
  <1>1. Registered
    BY DEF Init, Registered
  <1>2. EventsKept
    BY DEF Init, EventsKept
  <1> QED BY <1>1, <1>2 DEF IndInv

\* A step that leaves the descriptors alone: the timers, the clock, a test.
LEMMA OtherStep ==
    ASSUME IndInv, UNCHANGED <<data, watched, reading, ready, handlers, removed, events>>,
           pc' = "callback" <=> pc = "callback",
           pc' = "dispatch" => pc = "dispatch",
           pc = "dispatch" /\ pc' # "dispatch" => events = <<>>,
           stopped' /\ pc' = "wait" => WakeFd \in ToSet(ready) \/ stopping' # {}
    PROVE  IndInv'
  <1>1. Registered'
    BY DEF IndInv, Registered
  <1>2. Pending' = Pending
    BY DEF Pending
  <1>3. EventsKept'
    BY <1>2 DEF IndInv, EventsKept
  <1> QED BY <1>1, <1>3 DEF IndInv

\* Data arrives: a descriptor that is watched for reading gets on the list.
LEMMA ArriveStep ==
    ASSUME IndInv, NEW fd \in Fds, Arrive(fd)
    PROVE  IndInv'
  <1> USE DEF Arrive, timerVars, loopVars, stopVars
  <1>1. ready' \in Seq(Descriptors) /\ ToSet(ready) \subseteq ToSet(ready')
        /\ (fd \in reading => fd \in ToSet(ready'))
    BY QueuedKeeps DEF IndInv, Registered, Descriptors
  <1>2. Registered'
    BY <1>1 DEF IndInv, Registered
  <1>3. Pending' = Pending
    BY DEF Pending
  <1>4. (data \cap reading)' \subseteq ToSet(ready') \cup ToSet(Pending)
    BY <1>1 DEF IndInv, EventsKept
  <1>5. stopped' /\ pc' = "wait" => WakeFd \in ToSet(ready') \/ stopping' # {}
    BY <1>1 DEF IndInv, EventsKept
  <1> QED BY <1>2, <1>3, <1>4, <1>5 DEF IndInv, EventsKept

\* Registering a descriptor, for reading or not: what was on the list and is
\* still watched for reading stays, and data that waits is put there.
LEMMA WatchKeeps ==
    ASSUME IndInv, NEW fd \in Fds, NEW read \in BOOLEAN, Watch(fd, read)
    PROVE  /\ ready' \in Seq(Descriptors)
           /\ data \cap reading' \subseteq ToSet(ready') \cup ToSet(Pending)
           /\ reading' \subseteq reading \cup {fd}
  <1>1. fd \in Descriptors /\ ready \in Seq(Descriptors)
    BY DEF IndInv, Registered, Descriptors
  <1>2. data \cap reading \subseteq ToSet(ready) \cup ToSet(Pending)
    BY DEF IndInv, EventsKept
  <1>3. CASE ~ read
    BY <1>1, <1>2, <1>3, UnqueuedKeeps DEF Watch
  <1>4. CASE read /\ fd \in data
    BY <1>1, <1>2, <1>4, QueuedKeeps DEF Watch
  <1>5. CASE read /\ fd \notin data
    BY <1>1, <1>2, <1>5 DEF Watch
  <1> QED BY <1>3, <1>4, <1>5

\* add_io_event() and modify_io_event().
LEMMA WatchStep ==
    ASSUME IndInv, NEW fd \in Fds, NEW read \in BOOLEAN,
           AddIoEvent(fd, read) \/ ModifyIoEvent(fd, read)
    PROVE  IndInv'
  <1> USE DEF AddIoEvent, ModifyIoEvent, InProgram, timerVars, loopVars, stopVars
  <1>1. Watch(fd, read)
    OBVIOUS
  <1>2. /\ ready' \in Seq(Descriptors)
        /\ data \cap reading' \subseteq ToSet(ready') \cup ToSet(Pending)
        /\ reading' \subseteq reading \cup {fd}
    BY <1>1, WatchKeeps
  <1>3. Registered'
    <2>1. data' \subseteq Fds /\ handlers' \subseteq Fds /\ events' \in Seq(Descriptors)
      BY DEF IndInv, Registered
    <2>2. reading' \subseteq watched' /\ watched' \subseteq handlers'
      BY <1>1, <1>2 DEF IndInv, Registered, Watch
    <2>3. handlers' \cap removed' = {}
      BY DEF IndInv, Registered
    <2>4. /\ pc' \notin {"dispatch", "callback"} => events' = <<>>
          /\ pc' = "callback" => events' # <<>>
      BY DEF IndInv, Registered
    <2> QED BY <1>2, <2>1, <2>2, <2>3, <2>4 DEF Registered
  <1>4. Pending' = Pending /\ data' = data /\ pc' # "wait"
    BY DEF Pending
  <1> QED BY <1>2, <1>3, <1>4 DEF IndInv, EventsKept

\* remove_io_event() and close(): the descriptor is not watched any more, and
\* the others stay on the list.
LEMMA UnwatchStep ==
    ASSUME IndInv, NEW fd \in Fds, RemoveIoEvent(fd) \/ CloseFd(fd)
    PROVE  IndInv'
  <1> USE DEF RemoveIoEvent, CloseFd, InProgram, timerVars, loopVars, stopVars
  <1>1. Unwatch(fd) /\ fd \in Descriptors /\ ready \in Seq(Descriptors)
    BY DEF IndInv, Registered, Descriptors
  <1>2. ready' \in Seq(Descriptors) /\ ToSet(ready) \ {fd} \subseteq ToSet(ready')
    BY <1>1, UnqueuedKeeps DEF Unwatch
  <1>3. watched' = watched \ {fd} /\ reading' = reading \ {fd} /\ data' \subseteq data
    BY <1>1 DEF Unwatch
  <1>4. Registered'
    <2>1. data' \subseteq Fds /\ handlers' \subseteq Fds /\ events' \in Seq(Descriptors)
      BY DEF IndInv, Registered
    <2>2. reading' \subseteq watched' /\ watched' \subseteq handlers'
      BY <1>3 DEF IndInv, Registered
    <2>3. handlers' \cap removed' = {}
      BY DEF IndInv, Registered
    <2>4. /\ pc' \notin {"dispatch", "callback"} => events' = <<>>
          /\ pc' = "callback" => events' # <<>>
      BY DEF IndInv, Registered
    <2> QED BY <1>2, <2>1, <2>2, <2>3, <2>4 DEF Registered
  <1>5. Pending' = Pending /\ pc' # "wait"
    BY DEF Pending
  <1>6. data' \cap reading' \subseteq ToSet(ready') \cup ToSet(Pending)
    BY <1>2, <1>3 DEF IndInv, EventsKept
  <1> QED BY <1>4, <1>5, <1>6 DEF IndInv, EventsKept

\* The eventfd is written: it is on the list, and so is all that was there.
LEMMA WakeKeeps ==
    ASSUME IndInv, WriteWakeFd, UNCHANGED <<data, watched, reading, handlers, removed, loopVars>>
    PROVE  IndInv'
  <1> USE DEF loopVars
  <1>1. WakeFd \in Descriptors /\ ready \in Seq(Descriptors)
    BY DEF IndInv, Registered, Descriptors
  <1>2. ready' \in Seq(Descriptors) /\ ToSet(ready') = ToSet(ready) \cup {WakeFd}
    BY <1>1, QueuedKeeps DEF WriteWakeFd
  <1>3. Registered'
    BY <1>2 DEF IndInv, Registered
  <1>4. Pending' = Pending
    BY DEF Pending
  <1> QED BY <1>2, <1>3, <1>4 DEF IndInv, EventsKept

\* stop() and wakeup(): between its two statements stop() is in stopping, and
\* afterwards the eventfd is on the list.
LEMMA StopStep ==
    ASSUME IndInv, NEW t, StopSets(t) \/ StopWakes(t) \/ Wakeup(t)
    PROVE  IndInv'
  <1> USE DEF epollVars, timerVars, loopVars
  <1>1. CASE StopSets(t)
    <2>1. UNCHANGED <<data, watched, reading, ready, handlers, removed, events, pc>> /\ stopping' # {}
      BY <1>1 DEF StopSets
    <2> QED BY <2>1, OtherStep
  <1>2. CASE StopWakes(t)
    <2>1. WriteWakeFd /\ UNCHANGED <<data, watched, reading, handlers, removed, loopVars>>
      BY <1>2 DEF StopWakes
    <2> QED BY <2>1, WakeKeeps
  <1>3. CASE Wakeup(t)
    <2>1. WriteWakeFd /\ UNCHANGED <<data, watched, reading, handlers, removed, loopVars>>
      BY <1>3 DEF Wakeup
    <2> QED BY <2>1, WakeKeeps
  <1> QED BY <1>1, <1>2, <1>3

\* epoll_wait() returns events: the list is cut in two and nothing is lost.
LEMMA WaitReturnsStep ==
    ASSUME IndInv, WaitReturnsEvents
    PROVE  IndInv'
  <1> USE DEF WaitReturnsEvents, timerVars, stopVars
  <1> DEFINE n == IF Len(ready) < MaxEvents THEN Len(ready) ELSE MaxEvents
  <1>1. ready \in Seq(Descriptors) /\ events = <<>> /\ Pending = <<>>
    BY DEF IndInv, Registered, Pending
  <1>2. n \in 0 .. Len(ready)
    <2>1. Len(ready) \in Nat /\ MaxEvents \in Nat
      BY <1>1, RoomAssumption, LenProperties
    <2> QED BY <2>1
  <1>3. events' = SubSeq(ready, 1, n) /\ ready' = SubSeq(ready, n + 1, Len(ready))
    OBVIOUS
  <1> HIDE DEF n
  <1>4. /\ events' \in Seq(Descriptors) /\ ready' \in Seq(Descriptors)
        /\ ToSet(ready) = ToSet(events') \cup ToSet(ready')
    BY <1>1, <1>2, <1>3, SplitKeeps
  <1>5. Registered'
    BY <1>4 DEF IndInv, Registered
  <1>6. Pending' = events' /\ ToSet(Pending) = {}
    BY <1>1 DEF Pending, ToSet
  <1> QED BY <1>4, <1>5, <1>6 DEF IndInv, EventsKept

\* handle_io_events(): an event is taken from the array; its data is read, or
\* nobody watches for it.
LEMMA DispatchStep ==
    ASSUME IndInv, DispatchSkips \/ DispatchCalls \/ CallbackReturns
    PROVE  IndInv'
  <1> USE DEF epollVars, timerVars, stopVars
  <1>1. events \in Seq(Descriptors) /\ events # <<>>
    BY DEF IndInv, Registered, DispatchSkips, DispatchCalls, CallbackReturns
  <1>2. /\ Tail(events) \in Seq(Descriptors)
        /\ ToSet(events) = ToSet(Tail(events)) \cup {Head(events)}
    BY <1>1, TailKeeps
  <1>3. Registered'
    <2>1. CASE DispatchSkips
      BY <1>2, <2>1 DEF IndInv, Registered, DispatchSkips
    <2>2. CASE DispatchCalls
      BY <1>1, <2>2 DEF IndInv, Registered, DispatchCalls
    <2>3. CASE CallbackReturns
      BY <1>2, <2>3 DEF IndInv, Registered, CallbackReturns
    <2> QED BY <2>1, <2>2, <2>3
  <1>4. EventsKept'
    <2>1. CASE DispatchSkips
      <3>1. Head(events) \notin reading /\ Pending = events /\ Pending' = Tail(events)
            /\ UNCHANGED <<data, reading, ready, pc>> /\ pc = "dispatch"
        BY <2>1 DEF IndInv, Registered, DispatchSkips, Pending
      <3> QED BY <1>2, <3>1 DEF IndInv, EventsKept
    <2>2. CASE DispatchCalls
      <3>1. data' = data \ {Head(events)} /\ Pending = events /\ Pending' = Tail(events)
            /\ UNCHANGED <<reading, ready>> /\ pc' = "callback"
        BY <2>2 DEF DispatchCalls, Pending
      <3> QED BY <1>2, <3>1 DEF IndInv, EventsKept
    <2>3. CASE CallbackReturns
      <3>1. Pending = Tail(events) /\ Pending' = Tail(events)
            /\ UNCHANGED <<data, reading, ready>> /\ pc' = "dispatch"
        BY <2>3 DEF CallbackReturns, Pending
      <3> QED BY <3>1 DEF IndInv, EventsKept
    <2> QED BY <2>1, <2>2, <2>3
  <1> QED BY <1>3, <1>4 DEF IndInv

\* The rest of the loop: it tests its flag, waits in vain, and fires timers.
LEMMA LoopRest ==
    ASSUME IndInv,
           \/ RunTests \/ WaitTimesOut \/ WaitInterrupted \/ DispatchEnds
           \/ TickPops \/ TickCalls \/ TimerCallbackReturns
    PROVE  IndInv'
  <1> USE DEF epollVars, timerVars, stopVars
  <1>1. UNCHANGED <<data, watched, reading, ready, handlers, removed, events>>
    BY DEF RunTests, WaitTimesOut, WaitInterrupted, DispatchEnds, TickPops, TickCalls,
           TimerCallbackReturns
  <1>2. pc # "callback" /\ pc' # "callback" /\ pc' # "dispatch"
    BY DEF RunTests, WaitTimesOut, WaitInterrupted, DispatchEnds, TickPops, TickCalls,
           TimerCallbackReturns
  <1>3. pc = "dispatch" => events = <<>>
    BY DEF RunTests, WaitTimesOut, WaitInterrupted, DispatchEnds, TickPops, TickCalls,
           TimerCallbackReturns
  <1>4. pc' = "wait" => ~ stopped'
    BY DEF RunTests, WaitTimesOut, WaitInterrupted, DispatchEnds, TickPops, TickCalls,
           TimerCallbackReturns
  <1> QED BY <1>1, <1>2, <1>3, <1>4, OtherStep

\* What does not touch the loop's position or the descriptors.
LEMMA TimerStep ==
    ASSUME IndInv,
           \/ Tick
           \/ \E delay \in Delays, repeat \in BOOLEAN : AddTimer(delay, repeat)
           \/ \E id \in 1 .. MaxId : CancelTimer(id)
    PROVE  IndInv'
  <1>1. UNCHANGED <<data, watched, reading, ready, handlers, removed, events, pc, stopped, stopping>>
    BY DEF Tick, AddTimer, CancelTimer, epollVars, timerVars, loopVars, stopVars
  <1> QED BY <1>1, OtherStep DEF IndInv, EventsKept

\* Every step keeps the invariant.
LEMMA NextStep == IndInv /\ [Next]_vars => IndInv'
  <1> SUFFICES ASSUME IndInv, [Next]_vars PROVE IndInv'
    OBVIOUS
  <1>1. CASE LoopStep \/ WaitInterrupted
    BY <1>1, WaitReturnsStep, DispatchStep, LoopRest DEF LoopStep
  <1>2. CASE ProgramStep
    BY <1>2, UnwatchStep, WatchStep, TimerStep DEF ProgramStep
  <1>3. CASE Tick
    BY <1>3, TimerStep
  <1>4. CASE \E fd \in Fds : Arrive(fd)
    BY <1>4, ArriveStep
  <1>5. CASE \E t \in Others \cup {Loop} : StopSets(t) \/ StopWakes(t) \/ Wakeup(t)
    BY <1>5, StopStep
  <1>6. CASE UNCHANGED vars
    BY <1>6, OtherStep DEF vars, IndInv, EventsKept
  <1> QED BY <1>1, <1>2, <1>3, <1>4, <1>5, <1>6 DEF Next

\* At every moment what must still be handled is known to the kernel or to the
\* loop: no edge of a descriptor watched for reading is lost between the
\* kernel's list, the array events[] and its handler, and a stop() is never
\* forgotten by a loop that waits (run(), handle_io_events(), stop()).
THEOREM EventsStay == Spec => []EventsKept
  <1>1. IndInv => EventsKept
    BY DEF IndInv
  <1> QED BY <1>1, InitInv, NextStep, PTL DEF Spec

\* remove_io_event() is final: handle_io_events() looks the handler up for
\* every event, so that no event taken from the kernel earlier reaches it.
THEOREM RemovedStayRemoved == Spec => RemovedNeverCalled
  <1>1. ASSUME IndInv, [Next]_vars, pc = "dispatch", pc' = "callback"
        PROVE  Head(events) \notin removed
    <2> USE DEF epollVars, timerVars, loopVars, stopVars
    <2>1. DispatchCalls
      <3>1. ~ UNCHANGED vars
        BY <1>1 DEF vars
      <3>2. ~ (RunTests \/ WaitReturnsEvents \/ WaitTimesOut \/ DispatchSkips \/ CallbackReturns
               \/ DispatchEnds \/ TickPops \/ TickCalls \/ TimerCallbackReturns \/ WaitInterrupted)
        BY <1>1 DEF RunTests, WaitReturnsEvents, WaitTimesOut, DispatchSkips, CallbackReturns,
                    DispatchEnds, TickPops, TickCalls, TimerCallbackReturns, WaitInterrupted
      <3>3. ~ ProgramStep
        BY <1>1 DEF ProgramStep, RemoveIoEvent, CloseFd, AddIoEvent, ModifyIoEvent, AddTimer,
                    CancelTimer
      <3>4. /\ ~ Tick /\ ~ \E fd \in Fds : Arrive(fd)
            /\ ~ \E t \in Others \cup {Loop} : StopSets(t) \/ StopWakes(t)
            /\ ~ \E t \in Others : Wakeup(t)
        BY <1>1 DEF Tick, Arrive, StopSets, StopWakes, Wakeup
      <3> QED BY <1>1, <3>1, <3>2, <3>3, <3>4 DEF Next, LoopStep
    <2> QED BY <1>1, <2>1 DEF DispatchCalls, IndInv, Registered
  <1>2. IndInv /\ [Next]_vars =>
            [pc = "dispatch" /\ pc' = "callback" => Head(events) \notin removed]_vars
    BY <1>1
  <1> QED BY <1>2, InitInv, NextStep, PTL DEF Spec, RemovedNeverCalled
=============================================================================
