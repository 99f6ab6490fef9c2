---------------------------- MODULE RingBuffers -----------------------------
(***************************************************************************)
(* The two classes ring_buffer.  That of buffer/ring_buffer.h has Capacity *)
(* bytes, two positions and a count.  That of buffer/ring_buffer.cpp has a *)
(* power of two of bytes (its operators are named Masked...), and two      *)
(* counters that are never reduced but wrap around as a size_t does, here  *)
(* modulo CounterMod; the cell is the counter masked with capacity - 1.    *)
(* Bytes are members of Value; out is what the last read, peek or pair of  *)
(* pointers gave its caller.  expected[o].bytes is the queue of bytes,     *)
(* expected[o].out what should have come out of it.                        *)
(***************************************************************************)
EXTENDS Objects

CONSTANT CounterMod   \* a power of two, at least the capacity

Capacity == MaxLen

Empty == [buffer |-> [c \in 0 .. Capacity - 1 |-> Raw],
          read_pos |-> 0, write_pos |-> 0, size |-> 0, out |-> <<>>]

\* memcpy into the array at cell c, and n bytes out of it.
Stored(buffer, c, s) ==
    [k \in DOMAIN buffer |-> IF k \in c .. c + Len(s) - 1 THEN s[k - c + 1] ELSE buffer[k]]
Loaded(buffer, c, n) == [i \in 1 .. n |-> buffer[c + i - 1]]

WritableSize(v) == Capacity - v.size

\* Fault: what passes the end of the array is not stored.
WrittenUnsplit(v, s) ==
    LET len == Min({Len(s), WritableSize(v)})
    IN  [v EXCEPT !.buffer = Stored(@, v.write_pos, SubSeq(s, 1, len)),
                  !.write_pos = (@ + len) % Capacity, !.size = @ + len]

Written(v, s) ==
    LET len == Min({Len(s), WritableSize(v)})
        first == Min({len, Capacity - v.write_pos})
        filled == Stored(v.buffer, v.write_pos, SubSeq(s, 1, first))
    IN  [v EXCEPT !.buffer = Stored(filled, 0, SubSeq(s, first + 1, len)),
                  !.write_pos = (@ + len) % Capacity, !.size = @ + len]

\* Up to two chunks, from start to the end of the array and from its begin.
Chunks(v, start, len) ==
    LET first == Min({len, Capacity - start})
    IN  Loaded(v.buffer, start, first) \o Loaded(v.buffer, 0, len - first)

Skipped(v, n) ==
    LET len == Min({n, v.size})
    IN  [v EXCEPT !.read_pos = (@ + len) % Capacity, !.size = @ - len]

BytesRead(v, n) ==
    [Skipped(v, n) EXCEPT !.out = Chunks(v, v.read_pos, Min({n, v.size}))]

Peeked(v, n, offset) ==
    IF offset >= v.size THEN <<>>
    ELSE Chunks(v, (v.read_pos + offset) % Capacity, Min({n, v.size - offset}))

\* read_ptr and write_ptr: the contiguous part, and whether there is more.
ReadPtr(v) == [at |-> v.read_pos, len |-> Min({v.size, Capacity - v.read_pos})]
WritePtr(v) == [at |-> v.write_pos, len |-> Min({WritableSize(v), Capacity - v.write_pos})]

CommittedWrite(v, n) ==
    LET len == Min({n, WritableSize(v)})
    IN  [v EXCEPT !.write_pos = (@ + len) % Capacity, !.size = @ + len]
-----------------------------------------------------------------------------
Init ==
    /\ this = [o \in Object |-> Empty]
    /\ expected = [o \in Object |-> [bytes |-> <<>>, out |-> <<>>]]

Inputs == SeqOf(Value, 2) \ {<<>>}
Bytes(o) == expected[o].bytes
Quiet(o) == [this[o] EXCEPT !.out = <<>>]
Set(o, v, bytes, out) == Update(o, v, [bytes |-> bytes, out |-> out])

Write(o) ==
    \E s \in Inputs :
        Set(o, Written(Quiet(o), s),
            Bytes(o) \o SubSeq(s, 1, Min({Len(s), Capacity - Len(Bytes(o))})), <<>>)

Read(o) ==
    \E n \in 1 .. Capacity :
        Set(o, BytesRead(this[o], n), SubSeq(Bytes(o), n + 1, Len(Bytes(o))),
            SubSeq(Bytes(o), 1, Min({n, Len(Bytes(o))})))

Peek(o) ==
    \E n \in 1 .. Capacity, offset \in 0 .. Capacity :
        Set(o, [this[o] EXCEPT !.out = Peeked(this[o], n, offset)], Bytes(o),
            SubSeq(Bytes(o), offset + 1, Min({offset + n, Len(Bytes(o))})))

Skip(o) ==
    \E n \in 1 .. Capacity :
        Set(o, Skipped(Quiet(o), n), SubSeq(Bytes(o), n + 1, Len(Bytes(o))), <<>>)

\* The caller fills the contiguous part and commits it.
WriteInPlace(o) ==
    \E x \in Value, n \in 1 .. Capacity :
        LET p == WritePtr(this[o])
            s == Copies(Min({n, p.len}), x)
        IN  Set(o, CommittedWrite([Quiet(o) EXCEPT !.buffer = Stored(@, p.at, s)], Len(s)),
                Bytes(o) \o s, <<>>)

\* The caller reads the contiguous part and commits it.
ReadInPlace(o) ==
    LET p == ReadPtr(this[o])
    IN  Set(o, [Skipped(this[o], p.len) EXCEPT !.out = Loaded(this[o].buffer, p.at, p.len)],
            SubSeq(Bytes(o), p.len + 1, Len(Bytes(o))), SubSeq(Bytes(o), 1, p.len))

Clear(o) == Set(o, [Quiet(o) EXCEPT !.read_pos = 0, !.write_pos = 0, !.size = 0], <<>>, <<>>)

Next ==
    \E o \in Object :
        \/ Write(o)
        \/ Read(o)
        \/ Peek(o)
        \/ Skip(o)
        \/ WriteInPlace(o)
        \/ ReadInPlace(o)
        \/ Clear(o)

Spec == Init /\ [][Next]_objects
-----------------------------------------------------------------------------
\* A ring buffer is a queue of at most Capacity bytes: what is written comes
\* out once and in order, in whatever portions either side works and
\* wherever the array wraps around; a write takes what there is room for.
RingMatches ==
    \A o \in Object :
        LET v == this[o]
        IN  /\ v.size = Len(Bytes(o)) /\ v.size <= Capacity
            /\ Chunks(v, v.read_pos, v.size) = Bytes(o)
            /\ v.out = expected[o].out
-----------------------------------------------------------------------------
\* The constructor rounds the capacity up to a power of two.
RoundedUp(n) == Min({c \in {2 ^ k : k \in 0 .. n} : c >= n})

Ring(n) == [data |-> [c \in 0 .. n - 1 |-> Raw], capacity |-> n,
            read_pos |-> 0, write_pos |-> 0, out |-> <<>>]

Size(v) == (v.write_pos - v.read_pos) % CounterMod
Cell(v, pos) == pos % v.capacity
Bump(pos, n) == (pos + n) % CounterMod

\* Behind the reader there is one chunk, otherwise there may be two.
MaskedWritten(v, s) ==
    LET writable == Min({Len(s), v.capacity - Size(v)})
        w == Cell(v, v.write_pos)
        first == IF w >= Cell(v, v.read_pos) THEN Min({writable, v.capacity - w}) ELSE writable
        filled == Stored(v.data, w, SubSeq(s, 1, first))
    IN  [v EXCEPT !.data = Stored(filled, 0, SubSeq(s, first + 1, writable)),
                  !.write_pos = Bump(@, writable)]

\* peek, and what read copies before it moves on.
MaskedPeeked(v, n) ==
    LET readable == Min({n, Size(v)})
        r == Cell(v, v.read_pos)
    IN  IF r + readable <= v.capacity THEN Loaded(v.data, r, readable)
        ELSE Loaded(v.data, r, v.capacity - r) \o Loaded(v.data, 0, readable - (v.capacity - r))

\* skip and commit_read.
MaskedSkipped(v, n) == [v EXCEPT !.read_pos = Bump(@, Min({n, Size(v)}))]
MaskedBytesRead(v, n) == [MaskedSkipped(v, n) EXCEPT !.out = MaskedPeeked(v, n)]

\* read_ptr: one or two chunks <<cell, length>>.
MaskedReadPtr(v) ==
    LET r == Cell(v, v.read_pos)
    IN  IF r + Size(v) <= v.capacity THEN <<<<r, Size(v)>>>>
        ELSE <<<<r, v.capacity - r>>, <<0, Size(v) - (v.capacity - r)>>>>

\* write_ptr, the same for the room that is left.
MaskedWritePtr(v) ==
    LET w == Cell(v, v.write_pos)
        writable == v.capacity - Size(v)
    IN  IF w + writable <= v.capacity THEN <<<<w, writable>>>>
        ELSE <<<<w, v.capacity - w>>, <<0, writable - (v.capacity - w)>>>>

MaskedCommittedWrite(v, n) ==
    [v EXCEPT !.write_pos = Bump(@, Min({n, v.capacity - Size(v)}))]
-----------------------------------------------------------------------------
MaskedInit ==
    /\ this = [o \in Object |-> Ring(RoundedUp(MaxLen))]
    /\ expected = [o \in Object |-> [bytes |-> <<>>, out |-> <<>>]]

\* A ring that was moved from has no bytes; its data_ is null.
Usable(o) == this[o].capacity > 0

MaskedWrite(o) ==
    /\ Usable(o)
    /\ \E s \in SeqOf(Value, 2) \ {<<>>} :
          Set(o, MaskedWritten(Quiet(o), s),
              Bytes(o) \o SubSeq(s, 1, Min({Len(s), this[o].capacity - Len(Bytes(o))})), <<>>)

MaskedRead(o) ==
    /\ Usable(o)
    /\ \E n \in 1 .. MaxLen :
          Set(o, MaskedBytesRead(this[o], n), SubSeq(Bytes(o), n + 1, Len(Bytes(o))),
              SubSeq(Bytes(o), 1, Min({n, Len(Bytes(o))})))

MaskedSkip(o) ==
    /\ Usable(o)
    /\ \E n \in 1 .. MaxLen :
          Set(o, MaskedSkipped(Quiet(o), n), SubSeq(Bytes(o), n + 1, Len(Bytes(o))), <<>>)

\* All the room is filled through the pointers and committed.
FillInPlace(o) ==
    /\ Usable(o)
    /\ \E x \in Value :
          LET room == this[o].capacity - Size(this[o])
              filled == FoldLeft(LAMBDA d, c : Stored(d, c[1], Copies(c[2], x)),
                                 this[o].data, MaskedWritePtr(this[o]))
          IN  Set(o, MaskedCommittedWrite([Quiet(o) EXCEPT !.data = filled], room),
                  Bytes(o) \o Copies(this[o].capacity - Len(Bytes(o)), x), <<>>)

\* All the bytes are read through the pointers and committed.
DrainInPlace(o) ==
    /\ Usable(o)
    /\ LET chunks == MaskedReadPtr(this[o])
           got == [i \in DOMAIN chunks |-> Loaded(this[o].data, chunks[i][1], chunks[i][2])]
       IN  Set(o, [MaskedSkipped(this[o], Size(this[o])) EXCEPT !.out = FlattenSeq(got)],
               <<>>, Bytes(o))

MaskedClear(o) == Set(o, [Quiet(o) EXCEPT !.read_pos = 0, !.write_pos = 0], <<>>, <<>>)

\* The object is moved from; what it held lives on in an object out of sight.
MoveAway(o) == Set(o, Ring(0), <<>>, <<>>)

\* A new ring buffer is assigned to it.
MoveIn(o) == ~Usable(o) /\ Set(o, Ring(RoundedUp(MaxLen)), <<>>, <<>>)

MaskedNext ==
    \E o \in Object :
        \/ MaskedWrite(o)
        \/ MaskedRead(o)
        \/ MaskedSkip(o)
        \/ FillInPlace(o)
        \/ DrainInPlace(o)
        \/ MaskedClear(o)
        \/ MoveAway(o)
        \/ MoveIn(o)

MaskedSpec == MaskedInit /\ [][MaskedNext]_objects
-----------------------------------------------------------------------------
\* The same queue of bytes, also when the counters pass their
\* largest value.
MaskedRingMatches ==
    \A o \in Object :
        LET v == this[o]
        IN  /\ Size(v) = Len(Bytes(o))
            /\ Usable(o) => MaskedPeeked(v, Size(v)) = Bytes(o)
            /\ v.out = expected[o].out
=============================================================================
