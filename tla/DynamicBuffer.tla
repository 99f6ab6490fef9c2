--------------------------- MODULE DynamicBuffer ----------------------------
(***************************************************************************)
(* The two dynamic_buffer classes: `header` is the one of                  *)
(* buffer/dynamic_buffer.h, `source` the one of buffer/dynamic_buffer.cpp. *)
(* A program uses one of them; here the same calls are made on both.  A    *)
(* byte that was never written is Raw.  The least capacities are Least1    *)
(* and Least2, 16 and 64 in the code.                                      *)
(***************************************************************************)
EXTENDS Objects

Least1 == 2
Least2 == 3

Empty == [data |-> <<>>, size |-> 0, capacity |-> 0]

\* new and memcpy, or realloc: the first n bytes survive, the rest is raw.
Relocated(b, n, capacity) ==
    [b EXCEPT !.data = [i \in 1 .. capacity |-> IF i <= n THEN b.data[i] ELSE Raw],
              !.capacity = capacity]

Reserve1(b, n) == IF n <= b.capacity THEN b ELSE Relocated(b, b.size, n)

\* Doubling until it fits.
RECURSIVE Doubled(_, _)
Doubled(c, n) == IF c >= n THEN c ELSE Doubled(2 * c, n)

EnsureCapacity(b, n) ==
    IF n <= b.capacity THEN b
    ELSE Reserve1(b, Doubled(IF b.capacity = 0 THEN Least1 ELSE 2 * b.capacity, n))

Reserve2(b, n) ==
    IF n <= b.capacity THEN b
    ELSE Relocated(b, b.capacity, Max({n, 2 * b.capacity, Least2}))

Stored(b, i, s) ==
    [b EXCEPT !.data = [k \in DOMAIN @ |->
        IF k \in i .. i + Len(s) - 1 THEN s[k - i + 1] ELSE @[k]]]

Append1(b, s) ==
    IF s = <<>> THEN b
    ELSE [Stored(EnsureCapacity(b, b.size + Len(s)), b.size + 1, s) EXCEPT !.size = @ + Len(s)]

Append2(b, s) ==
    [Stored(Reserve2(b, b.size + Len(s)), b.size + 1, s) EXCEPT !.size = @ + Len(s)]

Resize1(b, n) == [Reserve1(b, n) EXCEPT !.size = n]
Resize2(b, n) == [Reserve2(b, n) EXCEPT !.size = n]

Fill(b, x, n) == Stored(Resize1(b, n), 1, Copies(n, x))

\* write at an offset (from 0): the buffer grows up to it.
Write1(b, offset, x) ==
    Stored(IF offset >= b.size THEN Resize1(b, offset + 1) ELSE b, offset + 1, <<x>>)

Write2(b, offset, s) ==
    LET required == offset + Len(s)
    IN  [Stored(Reserve2(b, required), offset + 1, s) EXCEPT !.size = Max({@, required})]

\* Fault: the bytes behind are not moved to the front.
EraseFrontInPlace(b, n) == [b EXCEPT !.size = Max({0, @ - n})]

\* memmove of what is behind the first n bytes.
EraseFront(b, n) ==
    IF n >= b.size THEN [b EXCEPT !.size = 0]
    ELSE [Stored(b, 1, SubSeq(b.data, n + 1, b.size)) EXCEPT !.size = @ - n]

EraseBack(b, n) == [b EXCEPT !.size = Max({0, @ - n})]

ShrinkToFit1(b) ==
    IF b.size = b.capacity THEN b
    ELSE IF b.size = 0 THEN [b EXCEPT !.data = <<>>, !.capacity = 0]
    ELSE Relocated(b, b.size, b.size)

ShrinkToFit2(b) == IF b.size = 0 THEN Empty ELSE Relocated(b, b.size, b.size)

Copied(b) == Append1(Reserve1(Empty, b.size), SubSeq(b.data, 1, b.size))

Read2(b, offset, n) ==
    IF offset >= b.size THEN <<>> ELSE SubSeq(b.data, offset + 1, Min({offset + n, b.size}))
-----------------------------------------------------------------------------
Init ==
    /\ this = [o \in Object |-> [header |-> Empty, source |-> Empty]]
    /\ expected = [o \in Object |-> <<>>]

\* The calls act on both buffers of o.
Both(o, h, s, e) == Update(o, [header |-> h, source |-> s], e)
H(o) == this[o].header
S(o) == this[o].source

\* A caller that grows the buffer by resize() writes the new bytes itself.
Overwrite(b, n, s) == Stored(b, n + 1, s)

AppendBytes(o) ==
    \E s \in SeqOf(Value, 2) :
        Room(o, Len(s)) /\ Both(o, Append1(H(o), s), Append2(S(o), s), expected[o] \o s)

ReserveBoth(o) ==
    \E n \in 1 .. MaxLen : Both(o, Reserve1(H(o), n), Reserve2(S(o), n), expected[o])

ResizeBoth(o) ==
    \E n \in 0 .. MaxLen, x \in Value :
        LET old == Len(expected[o])
            new == Copies(Max({0, n - old}), x)
        IN  Both(o, Overwrite(Resize1(H(o), n), old, new), Overwrite(Resize2(S(o), n), old, new),
                 SubSeq(expected[o] \o new, 1, n))

FillBoth(o) ==
    \E n \in 0 .. MaxLen, x \in Value :
        Both(o, Fill(H(o), x, n), Overwrite(Resize2(S(o), n), 0, Copies(n, x)), Copies(n, x))

WriteByte(o) ==
    \E offset \in 0 .. Len(expected[o]), x \in Value :
        /\ offset < MaxLen
        /\ Both(o, Write1(H(o), offset, x), Write2(S(o), offset, <<x>>),
                IF offset = Len(expected[o]) THEN Append(expected[o], x)
                ELSE [expected[o] EXCEPT ![offset + 1] = x])

EraseFrontBoth(o) ==
    \E n \in 1 .. MaxLen :
        Both(o, EraseFront(H(o), n), EraseFront(S(o), n),
             SubSeq(expected[o], n + 1, Len(expected[o])))

EraseBackBoth(o) ==
    \E n \in 1 .. MaxLen :
        Both(o, EraseBack(H(o), n), EraseBack(S(o), n),
             SubSeq(expected[o], 1, Len(expected[o]) - n))

ShrinkBoth(o) == Both(o, ShrinkToFit1(H(o)), ShrinkToFit2(S(o)), expected[o])

\* The copy assignment of the header's class; the other one only moves.
CopyBoth(o, p) ==
    o # p /\ Update(o, [header |-> Append1(Reserve1([H(o) EXCEPT !.size = 0], H(p).size),
                                           SubSeq(H(p).data, 1, H(p).size)),
                        source |-> Append2([S(o) EXCEPT !.size = 0],
                                           SubSeq(S(p).data, 1, S(p).size))],
                    expected[p])

MoveBoth(o, p) ==
    o # p /\ UpdateBoth(o, this[p], expected[p], p, [header |-> Empty, source |-> Empty], <<>>)

Next ==
    \E o \in Object :
        \/ AppendBytes(o)
        \/ ReserveBoth(o)
        \/ ResizeBoth(o)
        \/ FillBoth(o)
        \/ WriteByte(o)
        \/ EraseFrontBoth(o)
        \/ EraseBackBoth(o)
        \/ ShrinkBoth(o)
        \/ \E p \in Object : CopyBoth(o, p) \/ MoveBoth(o, p)

Spec == Init /\ [][Next]_objects
-----------------------------------------------------------------------------
\* Either buffer holds the bytes that were written, in order, whatever it
\* grew from or was cut down to; no byte that was never written is read.
BuffersMatch ==
    \A o \in Object :
        \A b \in {H(o), S(o)} :
            /\ b.size <= b.capacity /\ b.capacity = Len(b.data)
            /\ SubSeq(b.data, 1, b.size) = expected[o]
            /\ \A offset, n \in 0 .. MaxLen :
                  Read2(b, offset, n)
                  = SubSeq(expected[o], offset + 1, Min({offset + n, Len(expected[o])}))
=============================================================================
