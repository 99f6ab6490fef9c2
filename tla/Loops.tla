------------------------------- MODULE Loops --------------------------------
(***************************************************************************)
(* The loops of the library over ranges, as operators on sequences.        *)
(***************************************************************************)
EXTENDS Integers, Sequences, SequencesExt, FiniteSetsExt

\* f(k) applied to x for k = n, n + 1, ..., m, and for k = n, n - 1, ..., m.
Upto(f(_, _), x, n, m) == FoldLeft(f, x, [k \in 1 .. m - n + 1 |-> n + k - 1])
Downto(f(_, _), x, n, m) == FoldLeft(f, x, [k \in 1 .. n - m + 1 |-> n - k + 1])

\* The first position in 1 .. n where P holds; n + 1, the end, when none does.
FirstWhere(P(_), n) == Min({n + 1} \cup {i \in 1 .. n : P(i)})

Swapped(s, i, j) == [s EXCEPT ![i] = s[j], ![j] = s[i]]

\* The sequence s without its elements i to j.
Without(s, i, j) == SubSeq(s, 1, i - 1) \o SubSeq(s, j + 1, Len(s))
Copies(n, x) == [k \in 1 .. n |-> x]
=============================================================================
