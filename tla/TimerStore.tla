----------------------------- MODULE TimerStore -----------------------------
(***************************************************************************)
(* What a timer_queue is to its callers: a set of timer entries, of which  *)
(* pop_expired() takes out all that are due and hands over the live ones,  *)
(* earliest first, as many as the caller's array holds.  TimerQueue shows  *)
(* that the heap does this; TimerManager is built on it.                   *)
(*                                                                         *)
(* An entry is a record with at least the fields expire and cancelled.     *)
(***************************************************************************)
EXTENDS Naturals, Sequences, FiniteSets, FiniteSetsExt, SequencesExt

Due(S, now) == {e \in S : e.expire <= now}
Live(S) == {e \in S : ~e.cancelled}

Earliest(S) == {e \in S : \A f \in S : e.expire <= f.expire}

SortedByExpire(s) ==
    \A i, j \in 1 .. Len(s) : i < j => s[i].expire <= s[j].expire

\* The sequences pop_expired(now, out, outMax) may deliver from the set S:
\* outMax live due entries, or all if they are fewer, none later than one
\* that is left out.  Entries with the same time come in any order.
Deliveries(S, now, outMax) ==
    LET candidates == Live(Due(S, now))
        n == IF Cardinality(candidates) < outMax THEN Cardinality(candidates) ELSE outMax
    IN {s \in UNION {SetToSeqs(T) : T \in kSubset(n, candidates)} :
          /\ SortedByExpire(s)
          /\ \A i \in 1 .. n : \A e \in candidates \ ToSet(s) : s[i].expire <= e.expire}

\* The smallest time in S, cancelled entries included, or a time after all
\* others (~0ULL in the code).
NextExpire(S, never) ==
    IF S = {} THEN never ELSE (CHOOSE e \in Earliest(S) : TRUE).expire
=============================================================================
