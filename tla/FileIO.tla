------------------------------- MODULE FileIO -------------------------------
(***************************************************************************)
(* src/io/file_io.h: file, which owns a FILE*, the functions on a whole    *)
(* file, file_reader and file_writer, on one file of a disk that may run   *)
(* full.  fopen, fread, fwrite and stat are external; an fwrite takes part *)
(* of its bytes when the disk is full.                                     *)
(***************************************************************************)
EXTENDS Loops, FiniteSets

CONSTANTS
    Handles,     \* variables of class file
    FLUSH_SIZE,  \* the array of file_writer
    MaxFile      \* bound: bytes of the file

LF == 1
CR == 2
Letter == 3
Chars == {LF, CR, Letter}
Absent == <<-1>>
NoFile == "none"
NoWriter == [open |-> FALSE, buf |-> <<>>, live |-> FALSE]

VARIABLES
    content,  \* the file, Absent when there is none
    handle,   \* the FILE* of each handle, as the mode it was opened with
    streams,  \* how many FILE* are open (history)
    writer,   \* a file_writer: whether f_ is open, buf_[0 .. buf_pos_ - 1]
    base,     \* what the file held when the writer came (history)
    given,    \* the bytes that write() took since (history)
    short,    \* an fwrite of the writer fell short (history)
    reader,   \* a file_reader: its position and buffer size
    lines     \* what read_line() answered: text, and whether the line ended

fileVars == <<content, handle, streams, writer, base, given, short, reader, lines>>
NoReader == [at |-> 0, size |-> 0]

Init ==
    /\ content \in {Absent, <<>>, <<Letter>>}
    /\ handle = [h \in Handles |-> NoFile] /\ streams = 0
    /\ writer = NoWriter
    /\ base = <<>> /\ given = <<>> /\ short = FALSE
    /\ reader = NoReader /\ lines = <<>>

Exists == content # Absent
Held == IF Exists THEN content ELSE <<>>
IsOpen(f) == f # NoFile
One(f) == IF IsOpen(f) THEN 1 ELSE 0

\* fopen() with open_mode_str(): "rb" and "r+b" need the file, "wb" empties
\* it, "ab" keeps it.
Opens(mode) == mode \in {"trunc", "append"} \/ Exists
ContentAfter(mode) == CASE mode = "trunc" -> <<>> [] mode = "append" -> Held [] OTHER -> content
Opened(mode) == IF Opens(mode) THEN mode ELSE NoFile

\* One user of the file at a time, as its modes ask for.
Quiet == writer = NoWriter /\ reader = NoReader
Others == <<writer, base, given, short, reader, lines>>

\* open() closes what the handle has open.
Open(h, mode) ==
    /\ Quiet
    /\ handle' = [handle EXCEPT ![h] = Opened(mode)]
    /\ streams' = streams - One(handle[h]) + One(Opened(mode))
    /\ content' = ContentAfter(mode)
    /\ UNCHANGED Others

\* close(), and the destructor.
Close(h) ==
    /\ Quiet /\ IsOpen(handle[h])
    /\ handle' = [handle EXCEPT ![h] = NoFile]
    /\ streams' = streams - 1
    /\ UNCHANGED <<content, Others>>

\* Fault: the other handle keeps its FILE*.
MoveKeeps(h, g) ==
    /\ Quiet /\ h # g
    /\ handle' = [handle EXCEPT ![h] = handle[g]]
    /\ streams' = streams - One(handle[h])
    /\ UNCHANGED <<content, Others>>

\* Move assignment, which closes what the handle has open, and move
\* construction.
Move(h, g) ==
    /\ Quiet /\ h # g
    /\ handle' = [handle EXCEPT ![h] = handle[g], ![g] = NoFile]
    /\ streams' = streams - One(handle[h])
    /\ UNCHANGED <<content, Others>>

\* write_all() and append_all(), which open the file, write and close it.
WriteAll(mode) ==
    /\ Quiet /\ streams = 0
    /\ \E n \in 0 .. 2, k \in 0 .. 2, c \in Chars :
          LET bytes == SubSeq(ContentAfter(mode) \o Copies(n, c), 1, Len(ContentAfter(mode)) + Min({n, k}))
          IN  Len(bytes) <= MaxFile /\ content' = bytes
    /\ UNCHANGED <<handle, streams, Others>>

\* read_all(): -1 without the file, -2 when the array cannot take it and a 0.
ReadAll(size) ==
    CASE ~Exists -> [n |-> -1, text |-> <<>>]
      [] Exists /\ Len(content) >= size -> [n |-> -2, text |-> <<>>]
      [] OTHER -> [n |-> Len(content), text |-> content]
-----------------------------------------------------------------------------
\* file_writer.  flush(): the file takes all of the array, or the disk is full
\* and it takes a part, and the array stays as it was.
\* Fault: the array is emptied all the same.
FlushFailedEmpties(w, file) == {[writer |-> [w EXCEPT !.buf = <<>>], content |-> file, ok |-> FALSE]}
FlushFailed(w, file) ==
    {[writer |-> w, content |-> file \o SubSeq(w.buf, 1, k), ok |-> FALSE] : k \in 0 .. Len(w.buf) - 1}

FlushDone(w, file) == [writer |-> [w EXCEPT !.buf = <<>>], content |-> file \o w.buf, ok |-> TRUE]
Flushes(w, file) ==
    IF w.buf = <<>> THEN {[writer |-> w, content |-> file, ok |-> TRUE]}
    ELSE IF ~w.open THEN {[writer |-> w, content |-> file, ok |-> FALSE]}
    ELSE {FlushDone(w, file)} \cup FlushFailed(w, file)

OpenWriter(mode) ==
    /\ Quiet /\ streams = 0
    /\ writer' = [open |-> Opens(mode), buf |-> <<>>, live |-> TRUE]
    /\ content' = ContentAfter(mode)
    /\ base' = IF Opens(mode) THEN ContentAfter(mode) ELSE <<>>
    /\ given' = <<>> /\ short' = FALSE
    /\ UNCHANGED <<handle, streams, reader, lines>>

Finish(r) ==
    /\ writer' = r.writer
    /\ content' = r.content
    /\ UNCHANGED <<handle, streams, reader, lines>>
Continue(r) == Finish(r) /\ short' = (short \/ ~r.ok) /\ UNCHANGED base

\* write() of one byte; a call with more is one of these after the other, up
\* to the first flush that fails.  A full array, left by such a flush, is
\* flushed before it takes the byte.
WriterWrite ==
    /\ writer.live /\ Len(given) < MaxFile /\ Len(Held) + Len(writer.buf) < MaxFile
    /\ \E c \in {LF, Letter} :
       \E r \in IF Len(writer.buf) >= FLUSH_SIZE THEN Flushes(writer, content)
                ELSE {[writer |-> writer, content |-> content, ok |-> TRUE]} :
          LET w == [r.writer EXCEPT !.buf = Append(@, c)]
          IN  IF ~r.ok THEN Continue(r) /\ UNCHANGED given
              ELSE /\ given' = Append(given, c)
                   /\ IF Len(w.buf) >= FLUSH_SIZE THEN \E q \in Flushes(w, r.content) : Continue(q)
                      ELSE Continue([writer |-> w, content |-> r.content, ok |-> TRUE])

WriterFlush ==
    /\ writer.live
    /\ \E r \in Flushes(writer, content) : Len(r.content) <= MaxFile /\ Continue(r) /\ UNCHANGED given

\* ~file_writer(): nobody hears of a flush that fails.
WriterEnds ==
    /\ writer.live
    /\ \E r \in Flushes(writer, content) :
          Len(r.content) <= MaxFile /\ Finish([r EXCEPT !.writer = NoWriter])
    /\ base' = <<>> /\ given' = <<>> /\ short' = FALSE
-----------------------------------------------------------------------------
OpenReader(size) ==
    /\ Quiet /\ Exists /\ streams = 0
    /\ reader' = [at |-> 0, size |-> size]
    /\ lines' = <<>>
    /\ UNCHANGED <<content, handle, streams, writer, base, given, short>>

\* s without the characters in dropped.
Kept(kept, c, dropped) == IF c \in dropped THEN kept ELSE Append(kept, c)
Dropping(s, dropped) == FoldLeft(LAMBDA kept, c : Kept(kept, c, dropped), <<>>, s)

\* Fault: a carriage return takes a place in the array.
LineFromKeepsCr(file, at, size) ==
    LET stops == {i \in at + 1 .. Len(file) : file[i] = LF \/ i - at = size}
        last == IF stops = {} THEN Len(file) ELSE Min(stops)
    IN  [text |-> Dropping(SubSeq(file, at + 1, last), {LF, CR}),
         ended |-> last > at /\ file[last] = LF, at |-> last]

\* read_line(): up to a line feed or the end of the file, or until the array
\* has no more room; carriage returns are dropped and take no room.
LineFrom(file, at, size) ==
    LET kept(i) == Dropping(SubSeq(file, at + 1, i), {LF, CR})
        stops == {i \in at + 1 .. Len(file) : file[i] = LF \/ Len(kept(i)) = size - 1}
        last == IF size <= 1 THEN at ELSE IF stops = {} THEN Len(file) ELSE Min(stops)
    IN  [text |-> kept(last), ended |-> last > at /\ file[last] = LF, at |-> last]

ReadLine ==
    /\ reader # NoReader /\ reader.at < Len(content)
    /\ LET r == LineFrom(content, reader.at, reader.size)
       IN  /\ reader' = [reader EXCEPT !.at = r.at]
           /\ lines' = Append(lines, [text |-> r.text, ended |-> r.ended])
    /\ UNCHANGED <<content, handle, streams, writer, base, given, short>>

CloseReader == reader # NoReader /\ reader' = NoReader /\ lines' = <<>>
               /\ UNCHANGED <<content, handle, streams, writer, base, given, short>>

Next ==
    \/ \E h \in Handles :
          \/ \E mode \in {"read", "trunc", "append", "update"} : Open(h, mode)
          \/ Close(h)
          \/ \E g \in Handles : Move(h, g)
    \/ \E mode \in {"trunc", "append"} : WriteAll(mode)
    \/ \E mode \in {"trunc", "append"} \cup (IF Exists THEN {} ELSE {"update"}) : OpenWriter(mode)
    \/ WriterWrite \/ WriterFlush \/ WriterEnds
    \/ \E size \in {2, 3} : OpenReader(size)
    \/ ReadLine \/ CloseReader
-----------------------------------------------------------------------------
\* s is what remains of t when some of its elements are left out.
Matched(rest, c) == IF rest # <<>> /\ Head(rest) = c THEN Tail(rest) ELSE rest
IsPartOf(s, t) == FoldLeft(LAMBDA rest, c : Matched(rest, c), s, t) = <<>>

\* Every open FILE* belongs to one handle.  What a file_writer took is in the
\* file, behind what was there, or in its array, once and in order; after an
\* fwrite that fell short it is still all there, parts of it twice.  The lines
\* read, joined, are the file without its carriage returns, none longer than
\* the array, and only one cut by the array or the end of the file does not
\* end with a line feed.  read_all() answers the file or nothing.
FilesMatch ==
    /\ streams = Cardinality({h \in Handles : IsOpen(handle[h])})
    /\ writer.live /\ writer.open =>
          IF short THEN IsPartOf(base \o given, content \o writer.buf) /\ IsPrefix(base, content)
          ELSE content \o writer.buf = base \o given
    /\ reader # NoReader =>
          /\ FlattenSeq([i \in DOMAIN lines |-> lines[i].text \o Copies(IF lines[i].ended THEN 1 ELSE 0, LF)])
                = Dropping(SubSeq(content, 1, reader.at), {CR})
          /\ \A i \in DOMAIN lines :
                /\ Len(lines[i].text) < reader.size
                /\ ~lines[i].ended => Len(lines[i].text) = reader.size - 1 \/ reader.at = Len(content)
    /\ \A size \in 1 .. MaxFile : LET r == ReadAll(size) IN r.n >= 0 => r.n < size /\ r.text = content
=============================================================================
